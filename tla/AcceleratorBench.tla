-------------------------- MODULE AcceleratorBench --------------------------
(***************************************************************************)
(* The accelerator between a requester and a table, in the roles that      *)
(* rtl/atarix/atx_spec_020_accelerator_ci_tb.v and the random bench play:  *)
(*                                                                         *)
(*  - the requester waits for req_ready, strobes req_valid for one edge    *)
(*    and holds the request wires until the answer has been taken;         *)
(*  - the table is a memory whose content is fixed by its generation; the  *)
(*    generation may move between any two edges, and a fetch may find the  *)
(*    group not ready;                                                     *)
(*  - the reset line may fall at any moment.                               *)
(*                                                                         *)
(* Who listens on the audit channel is left to the modules that extend     *)
(* this one: ClockEdge takes the level of audit_ready as a parameter.      *)
(***************************************************************************)
EXTENDS Accelerator

CONSTANTS
    Requests,       \* the requests the requester may drive
    Table,          \* generation -> address -> control group
    TableBase,      \* registry identifier -> table_base_resolved_id
    TableMayStall,  \* whether table_lookup_valid may be low in STATE_FETCH
    MayReset        \* whether rst_n may fall during the run

ASSUME BenchAssumption ==
    /\ Requests \subseteq Request
    /\ Requests # {}
    /\ DOMAIN Table \subseteq Generations
    /\ DOMAIN Table # {}
    /\ \A g \in DOMAIN Table : Table[g] \in [Addr -> Group]
    /\ TableBase \in [Registries -> Addr]
    /\ TableMayStall \in BOOLEAN
    /\ MayReset \in BOOLEAN

VARIABLES
    req,            \* the request wires
    generation      \* the table_generation wires

benchVars == <<req, generation>>

BenchInit ==
    /\ AccInit
    /\ req \in Requests
    /\ generation \in DOMAIN Table

AcceptEdge ==
    /\ req_ready
    /\ \E r \in Requests : IdleAccept(r, TableBase[r.registry_id]) /\ req' = r
    /\ UNCHANGED generation

IdleEdge     == IdleWait /\ UNCHANGED benchVars
ValidateEdge == Validate(req) /\ UNCHANGED benchVars
AuthEdge     == Auth(req) /\ UNCHANGED benchVars

FetchEdge ==
    /\ \E valid \in BOOLEAN : (valid \/ TableMayStall) /\ Fetch(valid)
    /\ UNCHANGED benchVars

ProbeEdge ==
    /\ Probe(req, Table[generation][probe_addr], generation)
    /\ UNCHANGED benchVars

StepEdge               == Step /\ UNCHANGED benchVars
AuditEdge(audit_ready) == Audit(req, generation, audit_ready) /\ UNCHANGED benchVars

RespondEdge(resp_ready) == Respond(resp_ready) /\ UNCHANGED benchVars

(* The edges that do not touch the audit channel.                          *)
QuietEdge ==
    \/ IdleEdge \/ ValidateEdge \/ AuthEdge \/ FetchEdge \/ ProbeEdge \/ StepEdge
    \/ \E resp_ready \in BOOLEAN : RespondEdge(resp_ready)

ResetEdge ==
    /\ MayReset
    /\ AccReset
    /\ UNCHANGED benchVars

TableUpdate ==
    /\ generation' \in DOMAIN Table \ {generation}
    /\ UNCHANGED <<accVars, req>>

BenchTypeOK ==
    /\ AccTypeOK
    /\ req \in Requests
    /\ generation \in DOMAIN Table

-----------------------------------------------------------------------------
(* Every gate in front of the table lets the request through.             *)
Authorized(r) ==
    r.index_query /\ r.crc_ok /\ r.ring_ok /\ r.capability_ok /\ r.policy_ok

(* "No probe executes before authorization": whenever the table is         *)
(* strobed, or has been probed at all for the current request, the request *)
(* on the wires has passed every gate of STATE_VALIDATE and STATE_AUTH.    *)
NoProbeBeforeAuthorization ==
    probe_valid \/ probe_count > 0 \/ state \in {"FETCH", "PROBE", "STEP"}
        => Authorized(req)

(* The first gate, in pipeline order, that refuses r, if one does.         *)
Refusal(r) ==
    CASE ~r.index_query   -> "INVALID_HEADER"
      [] r.index_query /\ ~r.crc_ok -> "CRC_MISMATCH"
      [] r.index_query /\ r.crc_ok /\ ~r.ring_ok -> "RING_DENIED"
      [] r.index_query /\ r.crc_ok /\ r.ring_ok /\ ~r.capability_ok -> "CAP_DENIED"
      [] OTHER -> "POLICY_DENIED"

(* a resolves the key hash to the lowest lane holding its fingerprint in   *)
(* the group at addr, as the table was in the generation that a names.     *)
ResolvesAt(key_hash, a, addr) ==
    LET group == Table[a.resolved_generation][addr]
    IN  /\ Holds(group[a.match_offset], H2(key_hash))
        /\ \A lower \in 0 .. a.match_offset - 1 : ~Holds(group[lower], H2(key_hash))
        /\ a.resolved_id = (addr + a.match_offset) % AddrMod

(* What an answer to r may say, whatever the table did meanwhile: the      *)
(* first refusing gate's status if one refuses, nothing resolved unless    *)
(* OK, and OK only with an entry one generation of the table really had.   *)
SoundAnswer(r, a) ==
    /\ ~Authorized(r) => a.status = Refusal(r)
    /\ Authorized(r) => a.status \in {"OK", "SEQUENCE_ERROR", "TIMEOUT"}
    /\ a.status # "OK" => /\ a.resolved_id = NoId
                          /\ a.resolved_generation = 0
                          /\ a.match_offset = 0
    /\ a.status = "OK" => /\ a.resolved_generation \in DOMAIN Table
                          /\ \E addr \in Addr : ResolvesAt(r.key_hash, a, addr)

(* Every answer offered is sound for the request that is being answered,   *)
(* although the table may change between fetch, probe, audit and response. *)
AnswerSound == resp_valid => SoundAnswer(req, resp)

==============================================================================
