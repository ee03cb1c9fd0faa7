----------------------------- MODULE Accelerator -----------------------------
(***************************************************************************)
(* The registers of rtl/atarix/atx_spec_020_accelerator.v and what one     *)
(* rising clock edge does to them.  The FSM has one arm per state; each    *)
(* arm is an operator here, and the wires the arm samples on that edge are *)
(* its parameters.  Nothing but the fingerprint and the base address is    *)
(* latched when a request is accepted: every later arm samples the request *)
(* wires again.                                                            *)
(***************************************************************************)
EXTENDS ProbeCore

CONSTANTS
    CountMod,       \* probe counters and limits, 2^8 in the RTL
    CycleMod,       \* the cycle counter, 2^32 in the RTL
    Generations,    \* table generations; 0 is the "no generation" of a failed answer
    Sequences,      \* request sequence numbers; 0 is the reset value
    Registries      \* registry identifiers; 0 is the reset value

ASSUME AcceleratorAssumption ==
    /\ CountMod \in Nat \ {0}
    /\ CycleMod \in Nat \ {0}
    /\ 0 \in Generations
    /\ 0 \in Sequences
    /\ 0 \in Registries

VARIABLES
    state,              \* the FSM state
    req_ready,
    probe_valid, probe_addr, probe_count,
    h2_fingerprint,
    resp_valid, resp,   \* resp: the resp_* payload registers
    audit_valid, audit, \* audit: the audit_* payload registers
    response_seen,
    cycle_counter

accVars == <<state, req_ready, probe_valid, probe_addr, probe_count,
             h2_fingerprint, resp_valid, resp, audit_valid, audit,
             response_seen, cycle_counter>>

Count == 0 .. CountMod - 1
Cycle == 0 .. CycleMod - 1

State  == {"IDLE", "VALIDATE", "AUTH", "FETCH", "PROBE", "STEP", "AUDIT", "RESPOND"}
Status == {"OK", "INVALID_HEADER", "CRC_MISMATCH", "SEQUENCE_ERROR",
           "RING_DENIED", "POLICY_DENIED", "CAP_DENIED", "TIMEOUT"}

(* The request wires an arm of the FSM looks at.  index_query is           *)
(* req_type = TYPE_INDEX_QUERY; the *_ok wires are the verdicts of the     *)
(* mailbox, ring, capability and policy checks in front of the FSM.        *)
(* req_source_ring, req_target_ring, req_query_type, req_projection_flags  *)
(* and req_expected_generation reach no arm and are left out.              *)
Request == [sequence : Sequences, index_query : BOOLEAN, crc_ok : BOOLEAN,
            ring_ok : BOOLEAN, capability_ok : BOOLEAN, policy_ok : BOOLEAN,
            registry_id : Registries, key_hash : Nat, probe_limit : Count]

Response == [status : Status, resolved_id : Addr, resolved_generation : Generations,
             match_offset : Lane, cycles : Cycle]

AuditRecord == [sequence : Sequences, status : Status, registry_id : Registries,
                generation : Generations, probe_count : Count, match_offset : Lane]

NoId == AddrMod - 1     \* 32'hFFFFFFFF, the id of a failed answer

H2(key_hash) == key_hash % H2Mod    \* req_key_hash[6:0]

AccTypeOK ==
    /\ state \in State
    /\ req_ready \in BOOLEAN
    /\ probe_valid \in BOOLEAN
    /\ probe_addr \in Addr
    /\ probe_count \in Count
    /\ h2_fingerprint \in Fingerprint
    /\ resp_valid \in BOOLEAN
    /\ resp \in Response
    /\ audit_valid \in BOOLEAN
    /\ audit \in AuditRecord
    /\ response_seen \in BOOLEAN
    /\ cycle_counter \in Cycle

ResetResponse == [status |-> "OK", resolved_id |-> 0, resolved_generation |-> 0,
                  match_offset |-> 0, cycles |-> 0]

ResetAudit == [sequence |-> 0, status |-> "OK", registry_id |-> 0,
               generation |-> 0, probe_count |-> 0, match_offset |-> 0]

AccInit ==
    /\ state = "IDLE"
    /\ req_ready = TRUE
    /\ probe_valid = FALSE
    /\ probe_addr = 0
    /\ probe_count = 0
    /\ h2_fingerprint = 0
    /\ resp_valid = FALSE
    /\ resp = ResetResponse
    /\ audit_valid = FALSE
    /\ audit = ResetAudit
    /\ response_seen = FALSE
    /\ cycle_counter = 0

(* negedge rst_n: asynchronous, so possible at any moment.                 *)
AccReset ==
    /\ state' = "IDLE"
    /\ req_ready' = TRUE
    /\ probe_valid' = FALSE
    /\ probe_addr' = 0
    /\ probe_count' = 0
    /\ h2_fingerprint' = 0
    /\ resp_valid' = FALSE
    /\ resp' = ResetResponse
    /\ audit_valid' = FALSE
    /\ audit' = ResetAudit
    /\ response_seen' = FALSE
    /\ cycle_counter' = 0

Tick == cycle_counter' = (cycle_counter + 1) % CycleMod

-----------------------------------------------------------------------------
(* STATE_IDLE.  The arm raises req_ready and clears the strobes on every   *)
(* edge; a request present on that edge lowers req_ready again.  Note that *)
(* the arm looks at req_valid alone, not at its own req_ready.             *)

IdleOutputs ==
    /\ state = "IDLE"
    /\ probe_valid' = FALSE
    /\ resp_valid' = FALSE
    /\ audit_valid' = FALSE
    /\ probe_count' = 0
    /\ response_seen' = FALSE
    /\ UNCHANGED audit
    /\ Tick

IdleWaitLeavesReady ==
    /\ IdleOutputs
    /\ UNCHANGED <<req_ready, state, probe_addr, h2_fingerprint, resp>>

IdleWait ==
    /\ IdleOutputs
    /\ req_ready' = TRUE
    /\ UNCHANGED <<state, probe_addr, h2_fingerprint, resp>>

IdleAcceptKeepsAnswer(r, base) ==
    /\ IdleOutputs
    /\ req_ready' = FALSE
    /\ h2_fingerprint' = H2(r.key_hash)
    /\ probe_addr' = base
    /\ state' = "VALIDATE"
    /\ UNCHANGED resp

IdleAccept(r, base) ==
    /\ IdleOutputs
    /\ req_ready' = FALSE
    /\ h2_fingerprint' = H2(r.key_hash)
    /\ probe_addr' = base
    /\ resp' = [resp EXCEPT !.status = "OK", !.resolved_id = NoId,
                            !.resolved_generation = 0, !.match_offset = 0]
    /\ state' = "VALIDATE"

-----------------------------------------------------------------------------
(* STATE_VALIDATE and STATE_AUTH: the gates, in the order the arms test    *)
(* them.  "OK" lets the request through.                                   *)

ValidateStatus(r) ==
    CASE ~r.index_query                -> "INVALID_HEADER"
      [] r.index_query /\ ~r.crc_ok    -> "CRC_MISMATCH"
      [] OTHER                         -> "OK"

AuthStatusWithoutPolicy(r) ==
    CASE ~r.ring_ok                          -> "RING_DENIED"
      [] r.ring_ok /\ ~r.capability_ok       -> "CAP_DENIED"
      [] OTHER                               -> "OK"

AuthStatus(r) ==
    CASE ~r.ring_ok                                        -> "RING_DENIED"
      [] r.ring_ok /\ ~r.capability_ok                     -> "CAP_DENIED"
      [] r.ring_ok /\ r.capability_ok /\ ~r.policy_ok      -> "POLICY_DENIED"
      [] OTHER                                             -> "OK"

Validate(r) ==
    /\ state = "VALIDATE"
    /\ IF ValidateStatus(r) = "OK"
       THEN state' = "AUTH" /\ UNCHANGED resp
       ELSE state' = "AUDIT" /\ resp' = [resp EXCEPT !.status = ValidateStatus(r)]
    /\ Tick
    /\ UNCHANGED <<req_ready, probe_valid, probe_addr, probe_count, h2_fingerprint,
                   resp_valid, audit_valid, audit, response_seen>>

Auth(r) ==
    /\ state = "AUTH"
    /\ IF AuthStatus(r) = "OK"
       THEN state' = "FETCH" /\ probe_valid' = TRUE /\ UNCHANGED resp
       ELSE /\ state' = "AUDIT"
            /\ resp' = [resp EXCEPT !.status = AuthStatus(r)]
            /\ UNCHANGED probe_valid
    /\ Tick
    /\ UNCHANGED <<req_ready, probe_addr, probe_count, h2_fingerprint,
                   resp_valid, audit_valid, audit, response_seen>>

-----------------------------------------------------------------------------
(* STATE_FETCH: one edge of probe_valid, then the table either has the     *)
(* group ready or the request times out.                                   *)
Fetch(table_lookup_valid) ==
    /\ state = "FETCH"
    /\ probe_valid' = FALSE
    /\ IF table_lookup_valid
       THEN state' = "PROBE" /\ UNCHANGED resp
       ELSE state' = "AUDIT" /\ resp' = [resp EXCEPT !.status = "TIMEOUT"]
    /\ Tick
    /\ UNCHANGED <<req_ready, probe_addr, probe_count, h2_fingerprint,
                   resp_valid, audit_valid, audit, response_seen>>

(* STATE_PROBE compares the group on the table wires on this edge, one     *)
(* edge after the table said it was valid.                                 *)
ExhaustedBeyond(count, limit) == count > limit

Exhausted(count, limit) == count >= limit

Probe(r, group, table_generation) ==
    /\ state = "PROBE"
    /\ probe_count' = (probe_count + 1) % CountMod
    /\ \/ /\ SimdHit(group, h2_fingerprint)
          /\ LET offset == SimdMatchOffset(group, h2_fingerprint)
             IN  resp' = [resp EXCEPT !.status = "OK",
                                      !.match_offset = offset,
                                      !.resolved_id = (probe_addr + offset) % AddrMod,
                                      !.resolved_generation = table_generation]
          /\ state' = "AUDIT"
       \/ /\ ~SimdHit(group, h2_fingerprint)
          /\ Exhausted(probe_count, r.probe_limit)
          /\ resp' = [resp EXCEPT !.status = "SEQUENCE_ERROR"]
          /\ state' = "AUDIT"
       \/ /\ ~SimdHit(group, h2_fingerprint)
          /\ ~Exhausted(probe_count, r.probe_limit)
          /\ state' = "STEP"
          /\ UNCHANGED resp
    /\ Tick
    /\ UNCHANGED <<req_ready, probe_valid, probe_addr, h2_fingerprint,
                   resp_valid, audit_valid, audit, response_seen>>

(* STATE_STEP: the stepper sees the count the probe has just advanced.     *)
Step ==
    /\ state = "STEP"
    /\ probe_addr' = NextBase(probe_addr, probe_count)
    /\ probe_valid' = TRUE
    /\ state' = "FETCH"
    /\ Tick
    /\ UNCHANGED <<req_ready, probe_count, h2_fingerprint, resp_valid, resp,
                   audit_valid, audit, response_seen>>

-----------------------------------------------------------------------------
(* STATE_AUDIT.  The record is sampled again on every edge the FSM waits   *)
(* here.  audit_valid is assigned 1 and then, when the sink is ready, 0:   *)
(* the later assignment wins, so a sink that is ready on the first edge    *)
(* never sees audit_valid.                                                 *)
AuditDoesNotWait(r, table_generation, audit_ready) ==
    /\ state = "AUDIT"
    /\ probe_valid' = FALSE
    /\ audit_valid' = ~audit_ready
    /\ audit' = [sequence |-> r.sequence, status |-> resp.status,
                 registry_id |-> r.registry_id, generation |-> table_generation,
                 probe_count |-> probe_count, match_offset |-> resp.match_offset]
    /\ state' = "RESPOND"
    /\ Tick
    /\ UNCHANGED <<req_ready, probe_addr, probe_count, h2_fingerprint,
                   resp_valid, resp, response_seen>>

Audit(r, table_generation, audit_ready) ==
    /\ state = "AUDIT"
    /\ probe_valid' = FALSE
    /\ audit_valid' = ~audit_ready
    /\ audit' = [sequence |-> r.sequence, status |-> resp.status,
                 registry_id |-> r.registry_id, generation |-> table_generation,
                 probe_count |-> probe_count, match_offset |-> resp.match_offset]
    /\ state' = IF audit_ready THEN "RESPOND" ELSE "AUDIT"
    /\ Tick
    /\ UNCHANGED <<req_ready, probe_addr, probe_count, h2_fingerprint,
                   resp_valid, resp, response_seen>>

-----------------------------------------------------------------------------
(* STATE_RESPOND: the first edge raises resp_valid and stamps the cycle    *)
(* count, whatever resp_ready says; from the second edge on a ready        *)
(* consumer ends the exchange.                                             *)
RespondRestamps(resp_ready) ==
    /\ state = "RESPOND"
    /\ resp' = [resp EXCEPT !.cycles = cycle_counter]
    /\ IF response_seen /\ resp_ready
       THEN resp_valid' = FALSE /\ response_seen' = FALSE /\ state' = "IDLE"
       ELSE resp_valid' = TRUE /\ response_seen' = TRUE /\ UNCHANGED state
    /\ Tick
    /\ UNCHANGED <<req_ready, probe_valid, probe_addr, probe_count, h2_fingerprint,
                   audit_valid, audit>>

Respond(resp_ready) ==
    /\ state = "RESPOND"
    /\ \/ /\ ~response_seen
          /\ resp_valid' = TRUE
          /\ resp' = [resp EXCEPT !.cycles = cycle_counter]
          /\ response_seen' = TRUE
          /\ UNCHANGED state
       \/ /\ response_seen
          /\ resp_ready
          /\ resp_valid' = FALSE
          /\ response_seen' = FALSE
          /\ state' = "IDLE"
          /\ UNCHANGED resp
       \/ /\ response_seen
          /\ ~resp_ready
          /\ resp_valid' = TRUE
          /\ UNCHANGED <<resp, response_seen, state>>
    /\ Tick
    /\ UNCHANGED <<req_ready, probe_valid, probe_addr, probe_count, h2_fingerprint,
                   audit_valid, audit>>

==============================================================================
