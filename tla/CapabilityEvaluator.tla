------------------------- MODULE CapabilityEvaluator -------------------------
(***************************************************************************)
(* src/capability/capability_evaluator.c: a request decided against a      *)
(* table of capability records, by the first record for its target and     *)
(* operation.  Records are appended to the table and the requester's trust *)
(* rises, falls and is revoked between requests.                           *)
(***************************************************************************)
EXTENDS CapabilityPolicy, Sequences, SequencesExt

CONSTANTS
    Records,        \* records that may be published
    Asks,           \* requests that may be made
    MaxRecords      \* bound on the table

ASSUME EvaluatorAssumption ==
    /\ Records \subseteq CapabilityRecord
    /\ Asks \subseteq [ring : Int, target_handle : Nat, operation_id : Operations]
    /\ MaxRecords \in Nat

VARIABLES
    table,
    trust,      \* the requester's trust level
    decided     \* the request just decided, and its evaluation

evaluatorVars == <<table, trust, decided>>

RingAllowsAbove(ring, cap) == RingToWire(ring) >= cap.minimum_ring

(* The evaluator's reading of a ring range: the fabric minimum admits the  *)
(* supervisor too.                                                         *)
RingAllows(ring, cap) ==
    IF cap.minimum_ring = WireSupervisor THEN RingToWire(ring) = WireSupervisor
    ELSE IF cap.minimum_ring = WireFabric
    THEN RingToWire(ring) \in {WireSupervisor, WireFabric}
    ELSE RingToWire(ring) \in cap.minimum_ring .. cap.maximum_ring

Matches(cap, ask) ==
    cap.target_handle = ask.target_handle /\ cap.operation_id = ask.operation_id

FirstMatch(records, ask) ==
    SelectInSeq(records, LAMBDA cap : Matches(cap, ask))

(* Decision, matched record (0 for none) and reason code.                  *)
Outcome(decision, matched, reason) ==
    [decision |-> decision, matched |-> matched, reason |-> reason]

EvaluateTable(records, ask, level) ==
    LET matched == FirstMatch(records, ask)
    IN  IF matched = 0 THEN Outcome("DENY", 0, 3)
        ELSE IF level < records[matched].trust_requirement THEN Outcome("RESTRICT", matched, 1)
        ELSE IF ~RingAllows(ask.ring, records[matched]) THEN Outcome("DENY", matched, 2)
        ELSE IF "RECOVERY_ONLY" \in records[matched].flags
        THEN Outcome("RECOVERY_ONLY", matched, 0)
        ELSE Outcome("ALLOW", matched, 0)

Undecided == [ring |-> Kernel, outcome |-> Outcome("DENY", 0, 0)]

EvaluatorInit ==
    /\ table = << >>
    /\ trust = Untrusted
    /\ decided = Undecided

Publish(cap) ==
    /\ Len(table) < MaxRecords
    /\ table' = Append(table, cap)
    /\ decided' = Undecided
    /\ UNCHANGED trust

SetTrust(level) ==
    /\ trust' = level
    /\ decided' = Undecided
    /\ UNCHANGED table

(* One request per state is enough: deciding one changes nothing that the  *)
(* next decision reads.                                                    *)
Decide(ask) ==
    /\ decided = Undecided
    /\ decided' = [ring |-> ask.ring, outcome |-> EvaluateTable(table, ask, trust)]
    /\ UNCHANGED <<table, trust>>

EvaluatorNext ==
    \/ \E cap \in Records : Publish(cap)
    \/ \E level \in TrustLevels : SetTrust(level)
    \/ \E ask \in Asks : Decide(ask)

EvaluatorSpec == EvaluatorInit /\ [][EvaluatorNext]_evaluatorVars

Served == decided.outcome.decision \in {"ALLOW", "RECOVERY_ONLY"}

(* The evaluator and the policy engine read ring ranges with two functions *)
(* (ring_allows, ring_in_capability_range): whoever the evaluator serves   *)
(* through a record the policy accepts is in the range the policy sees,    *)
(* the supervisor on a fabric range excepted, and is not quarantined.      *)
EvaluatorWithinPolicyRange ==
    Served /\ RecordValidate(table[decided.outcome.matched]) = "OK" =>
        LET cap == table[decided.outcome.matched]
        IN  \/ RingInRange(decided.ring, cap) /\ decided.ring # Quarantined
            \/ decided.ring = Supervisor /\ cap.minimum_ring = WireFabric

==============================================================================
