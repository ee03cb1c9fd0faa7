------------------------------ MODULE SimFabric ------------------------------
(***************************************************************************)
(* src/sim/sim_fabric.c, with the node numbers of src/sim/sim_node.c: a    *)
(* table of slots, each a copy of a node's number and a pointer to the     *)
(* node.  A node may be initialised again, with another number, while a    *)
(* slot points to it; there is no detach.                                  *)
(***************************************************************************)
EXTENDS Integers, Sequences, SequencesExt

CONSTANTS
    NodeIds,        \* 32-bit node numbers
    Nodes,          \* node structures
    MaxNodes        \* ATARIX_SIM_FABRIC_MAX_NODES

ASSUME FabricAssumption == MaxNodes \in Nat

VARIABLES
    node_id,        \* node -> its number
    slots,          \* the used slots, [node_id, node]
    attach_status   \* of the last attach

fabricVars == <<node_id, slots, attach_status>>

FabricStart ==
    /\ node_id \in [Nodes -> NodeIds]
    /\ slots = << >>
    /\ attach_status = "OK"

FabricInit ==
    /\ slots' = << >>
    /\ attach_status' = "OK"
    /\ UNCHANGED node_id

NodeInit(node, id) ==
    /\ node_id' = [node_id EXCEPT ![node] = id]
    /\ attach_status' = "OK"
    /\ UNCHANGED slots

(* The node found, << >> for none.                                         *)
Lookup(table, id) ==
    LET i == SelectInSeq(table, LAMBDA slot : slot.node_id = id)
    IN  IF i = 0 THEN << >> ELSE <<table[i].node>>

AttachIfNew(node) ==
    IF \E i \in DOMAIN slots : slots[i].node = node THEN "DUPLICATE_NODE"
    ELSE IF Len(slots) >= MaxNodes THEN "FULL"
    ELSE "OK"

AttachOneMore(node) ==
    IF Lookup(slots, node_id[node]) # << >> THEN "DUPLICATE_NODE"
    ELSE IF Len(slots) > MaxNodes THEN "FULL"
    ELSE "OK"

AttachStatus(node) ==
    IF Lookup(slots, node_id[node]) # << >> THEN "DUPLICATE_NODE"
    ELSE IF Len(slots) >= MaxNodes THEN "FULL"
    ELSE "OK"

Attach(node) ==
    /\ attach_status' = AttachStatus(node)
    /\ slots' = IF attach_status' = "OK"
                THEN Append(slots, [node_id |-> node_id[node], node |-> node])
                ELSE slots
    /\ UNCHANGED node_id

FabricNext ==
    \/ FabricInit
    \/ \E node \in Nodes : Attach(node) \/ \E id \in NodeIds : NodeInit(node, id)

FabricSpec == FabricStart /\ [][FabricNext]_fabricVars

(* No two slots have the same number, although slots are compared with the *)
(* number a node has now and nodes are renumbered under them.              *)
SlotIdsUnique ==
    \A i, j \in DOMAIN slots : slots[i].node_id = slots[j].node_id => i = j

(* The table of slots, searched from the front, is a directory that keeps  *)
(* its entries: an attach enters a node under the number it has now or     *)
(* changes nothing, and renumbering a node changes nothing that a lookup   *)
(* finds, under its old number or its new one.                             *)
DirectoryOf(table) ==
    [id \in {table[i].node_id : i \in DOMAIN table} |-> Lookup(table, id)[1]]

Attached == DirectoryOf(slots)

Directory == INSTANCE FabricDirectory WITH directory <- Attached, number <- node_id

ImplementsDirectory == Directory!Spec

==============================================================================
