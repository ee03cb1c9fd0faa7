--------------------------- MODULE FabricDirectory ---------------------------
(***************************************************************************)
(* What the simulated fabric promises: a directory from node numbers to    *)
(* nodes, at most one node per number and MaxNodes numbers, that keeps     *)
(* every entry until the fabric is initialised again.  A node is entered   *)
(* under the number it has at that moment; one that is renumbered later    *)
(* is still found under that number, and under the new one only once it    *)
(* has been entered again.                                                 *)
(***************************************************************************)
EXTENDS Integers, FiniteSets

CONSTANTS NodeIds, Nodes, MaxNodes

VARIABLES directory, number

Init == directory = << >> /\ number \in [Nodes -> NodeIds]

Enter(node) ==
    /\ number[node] \notin DOMAIN directory
    /\ Cardinality(DOMAIN directory) < MaxNodes
    /\ directory' = [i \in DOMAIN directory \cup {number[node]} |->
                        IF i = number[node] THEN node ELSE directory[i]]
    /\ UNCHANGED number

Renumber(node, id) ==
    /\ number' = [number EXCEPT ![node] = id]
    /\ UNCHANGED directory

Clear == directory' = << >> /\ UNCHANGED number

Next == Clear \/ \E node \in Nodes : Enter(node) \/ \E id \in NodeIds : Renumber(node, id)

Spec == Init /\ [][Next]_<<directory, number>>

==============================================================================
