---------------------------- MODULE LookupProofs ----------------------------
(***************************************************************************)
(* For every table, every set of requests and every size of the counters:  *)
(* the accelerator of LookupSystem keeps its types, probes only for        *)
(* authorized requests, answers soundly although the table changes under   *)
(* it, offers an answer only after its audit record was taken and, while   *)
(* the table does not change, answers what the reference computes.         *)
(***************************************************************************)
EXTENDS LookupReference, ProbeCoreProofs

(* The outcome of the probe is written only at its end: until then the     *)
(* answer registers hold the defaults that STATE_IDLE put there.           *)
AnswerBlank ==
    state \in {"VALIDATE", "AUTH", "FETCH", "PROBE", "STEP"} =>
        /\ resp.resolved_id = NoId
        /\ resp.resolved_generation = 0
        /\ resp.match_offset = 0

(* From the audit on the answer is final.                                  *)
AnswerFinal == state \in {"AUDIT", "RESPOND"} => SoundAnswer(req, resp)

(* The latched fingerprint is the one of the request on the wires.         *)
FingerprintHeld == state # "IDLE" => h2_fingerprint = H2(req.key_hash)

(* How far the gates have been passed in each state.                       *)
GatesPassed ==
    /\ state = "AUTH" => req.index_query /\ req.crc_ok
    /\ state \in {"FETCH", "PROBE", "STEP"} => Authorized(req)
    /\ probe_count > 0 => Authorized(req)

(* Which strobes may be up in which state.                                 *)
StrobesPlaced ==
    /\ req_ready => state = "IDLE"
    /\ probe_valid => state = "FETCH"
    /\ audit_valid => state = "AUDIT"
    /\ response_seen => state = "RESPOND"
    /\ resp_valid <=> response_seen

(* A record describes the answer to the request on the wires.              *)
Describes(rec) ==
    /\ rec.sequence = req.sequence
    /\ rec.registry_id = req.registry_id
    /\ rec.status = resp.status
    /\ rec.match_offset = resp.match_offset
    /\ rec.probe_count = probe_count

(* The record on the audit wires is right while offered, none has been     *)
(* taken before, and exactly one, a right one, has been taken after.       *)
AuditKept ==
    /\ audit_valid => Describes(audit)
    /\ state \notin {"IDLE", "RESPOND"} => taken = 0
    /\ state = "RESPOND" => taken = 1 /\ Describes(record)

Inv ==
    /\ TypeOK
    /\ AnswerBlank
    /\ AnswerFinal
    /\ FingerprintHeld
    /\ GatesPassed
    /\ StrobesPlaced
    /\ AuditKept

-----------------------------------------------------------------------------
(* The cycle counter wraps within its width.                               *)
LEMMA TickType == TypeOK /\ Tick => cycle_counter' \in Cycle
  <1> SUFFICES ASSUME TypeOK, Tick PROVE cycle_counter' \in Cycle
    OBVIOUS
  <1>1. cycle_counter + 1 \in Nat
    BY AcceleratorAssumption DEF TypeOK, BenchTypeOK, AccTypeOK, Cycle
  <1> QED
    BY <1>1, RemainderInRange, AcceleratorAssumption DEF Tick, Cycle

(* The fingerprint of a key hash is its low bits.                          *)
LEMMA H2Type == \A h \in Nat : H2(h) \in Fingerprint
  BY RemainderInRange, ProbeCoreAssumption DEF H2, Fingerprint

(* The group the table drives is a control group.                          *)
LEMMA GroupType ==
    TypeOK => /\ Table[generation][probe_addr] \in Group
              /\ generation \in Generations
              /\ req \in Request
  BY BenchAssumption DEF TypeOK, BenchTypeOK, AccTypeOK

(* The reset values and the failed answer's values are in range.           *)
LEMMA ResetValues ==
    /\ 0 \in Addr /\ 0 \in Count /\ 0 \in Fingerprint /\ 0 \in Cycle /\ 0 \in Lane
    /\ NoId \in Addr
    /\ ResetResponse \in Response
    /\ ResetAudit \in AuditRecord
  <1>1. /\ 0 \in Addr /\ 0 \in Count /\ 0 \in Fingerprint /\ 0 \in Cycle /\ 0 \in Lane
        /\ NoId \in Addr
    BY ProbeCoreAssumption, AcceleratorAssumption
    DEF Addr, Count, Fingerprint, Cycle, Lane, NoId
  <1>2. 0 \in Generations /\ 0 \in Sequences /\ 0 \in Registries
    BY AcceleratorAssumption
  <1>3. ResetResponse \in Response
    BY <1>1, <1>2 DEF ResetResponse, Response, Status
  <1>4. ResetAudit \in AuditRecord
    BY <1>1, <1>2 DEF ResetAudit, AuditRecord, Status
  <1> QED
    BY <1>1, <1>3, <1>4

(* Reset leaves the registers in a state of the invariant.                 *)
LEMMA InitInv == Init => Inv
  <1> SUFFICES ASSUME Init PROVE Inv
    OBVIOUS
  <1> USE DEF Init, BenchInit, AccInit
  <1>1. TypeOK
    <2>1. taken \in 0 .. 1
      OBVIOUS
    <2> QED
      BY <2>1, ResetValues, Zenon DEF TypeOK, BenchTypeOK, AccTypeOK, State
  <1>2. AnswerBlank /\ AnswerFinal /\ FingerprintHeld
    BY DEF AnswerBlank, AnswerFinal, FingerprintHeld
  <1>3. GatesPassed /\ StrobesPlaced /\ AuditKept
    BY DEF GatesPassed, StrobesPlaced, AuditKept
  <1> QED
    BY <1>1, <1>2, <1>3 DEF Inv

(* A request enters with the answer registers blanked and none audited.    *)
LEMMA AcceptInv == Inv /\ Accept => Inv'
  <1> SUFFICES ASSUME Inv, Accept PROVE Inv'
    OBVIOUS
  <1>1. PICK r \in Requests : IdleAccept(r, TableBase[r.registry_id]) /\ req' = r
    BY DEF Accept, AcceptEdge
  <1>2. r \in Request /\ TableBase[r.registry_id] \in Addr
    BY BenchAssumption DEF Request
  <1>3. H2(r.key_hash) \in Fingerprint
    BY <1>2, H2Type DEF Request
  <1> USE <1>1, <1>2, <1>3 DEF Inv, Accept, AcceptEdge, IdleAccept, IdleOutputs
  <1>4. TypeOK'
    <2>1. cycle_counter' \in Cycle
      BY TickType
    <2>2. resp' \in Response
      BY ResetValues, AcceleratorAssumption
      DEF TypeOK, BenchTypeOK, AccTypeOK, Response, Status
    <2> QED
      <3>1. taken' \in 0 .. 1
        OBVIOUS
      <3>2. state' \in State
        BY DEF State
      <3> QED
        BY <2>1, <2>2, <3>1, <3>2, ResetValues, Zenon DEF TypeOK, BenchTypeOK, AccTypeOK
  <1>5. AnswerBlank' /\ AnswerFinal' /\ FingerprintHeld'
    BY DEF AnswerBlank, AnswerFinal, FingerprintHeld, TypeOK, BenchTypeOK, AccTypeOK, Response
  <1>6. GatesPassed' /\ StrobesPlaced' /\ AuditKept'
    BY DEF GatesPassed, StrobesPlaced, AuditKept
  <1> QED
    BY <1>4, <1>5, <1>6

(* An idle edge changes nothing the invariant speaks of.                   *)
LEMMA IdleInv == Inv /\ IdleEdge /\ UNCHANGED sinkVars => Inv'
  <1> SUFFICES ASSUME Inv, IdleEdge, UNCHANGED sinkVars PROVE Inv'
    OBVIOUS
  <1> USE DEF Inv, IdleEdge, IdleWait, IdleOutputs, benchVars, sinkVars
  <1>1. TypeOK'
    BY TickType, ResetValues DEF TypeOK, BenchTypeOK, AccTypeOK
  <1>2. AnswerBlank' /\ AnswerFinal' /\ FingerprintHeld'
    BY DEF AnswerBlank, AnswerFinal, FingerprintHeld
  <1>3. GatesPassed' /\ StrobesPlaced' /\ AuditKept'
    BY DEF GatesPassed, StrobesPlaced, AuditKept
  <1> QED
    BY <1>1, <1>2, <1>3

(* A refusal at the first two gates is final and resolves nothing.         *)
LEMMA ValidateInv == Inv /\ ValidateEdge /\ UNCHANGED sinkVars => Inv'
  <1> SUFFICES ASSUME Inv, ValidateEdge, UNCHANGED sinkVars PROVE Inv'
    OBVIOUS
  <1> USE GroupType DEF Inv, ValidateEdge, Validate, benchVars, sinkVars
  <1>1. TypeOK'
    <2>1. ValidateStatus(req) \in Status
      BY DEF ValidateStatus, Status
    <2> QED
      BY <2>1, TickType DEF TypeOK, BenchTypeOK, AccTypeOK, State, Response
  <1>2. AnswerBlank' /\ FingerprintHeld'
    BY DEF AnswerBlank, FingerprintHeld
  <1>3. AnswerFinal'
    BY DEF AnswerFinal, AnswerBlank, SoundAnswer, ValidateStatus, Authorized, Refusal,
           TypeOK, BenchTypeOK, AccTypeOK, Response
  <1>4. GatesPassed' /\ StrobesPlaced' /\ AuditKept'
    BY DEF GatesPassed, StrobesPlaced, AuditKept, ValidateStatus
  <1> QED
    BY <1>1, <1>2, <1>3, <1>4

(* A refusal at the authorization gates is final and resolves nothing; the *)
(* table is strobed only when every gate is passed.                        *)
LEMMA AuthInv == Inv /\ AuthEdge /\ UNCHANGED sinkVars => Inv'
  <1> SUFFICES ASSUME Inv, AuthEdge, UNCHANGED sinkVars PROVE Inv'
    OBVIOUS
  <1> USE GroupType DEF Inv, AuthEdge, Auth, benchVars, sinkVars
  <1>1. TypeOK'
    <2>1. AuthStatus(req) \in Status
      BY DEF AuthStatus, Status
    <2> QED
      BY <2>1, TickType DEF TypeOK, BenchTypeOK, AccTypeOK, State, Response
  <1>2. AnswerBlank' /\ FingerprintHeld'
    BY DEF AnswerBlank, FingerprintHeld
  <1>3. AnswerFinal'
    BY DEF AnswerFinal, AnswerBlank, GatesPassed, SoundAnswer, AuthStatus, Authorized, Refusal,
           TypeOK, BenchTypeOK, AccTypeOK, Response
  <1>4. GatesPassed' /\ StrobesPlaced' /\ AuditKept'
    BY DEF GatesPassed, StrobesPlaced, AuditKept, AuthStatus, Authorized
  <1> QED
    BY <1>1, <1>2, <1>3, <1>4

(* A fetch that stalls turns the blank answer into a final TIMEOUT.        *)
LEMMA FetchInv == Inv /\ FetchEdge /\ UNCHANGED sinkVars => Inv'
  <1> SUFFICES ASSUME Inv, FetchEdge, UNCHANGED sinkVars PROVE Inv'
    OBVIOUS
  <1>1. PICK valid \in BOOLEAN : Fetch(valid)
    BY DEF FetchEdge
  <1> USE <1>1 DEF Inv, FetchEdge, Fetch, benchVars, sinkVars
  <1>2. TypeOK'
    BY TickType DEF TypeOK, BenchTypeOK, AccTypeOK, State, Response, Status
  <1>3. AnswerBlank' /\ FingerprintHeld'
    BY DEF AnswerBlank, FingerprintHeld
  <1>4. AnswerFinal'
    BY DEF AnswerFinal, AnswerBlank, GatesPassed, SoundAnswer,
           TypeOK, BenchTypeOK, AccTypeOK, Response
  <1>5. GatesPassed' /\ StrobesPlaced' /\ AuditKept'
    BY DEF GatesPassed, StrobesPlaced, AuditKept
  <1> QED
    BY <1>2, <1>3, <1>4, <1>5

(* A hit resolves to an entry of the generation on the wires on that edge; *)
(* a miss at the limit resolves nothing.                                   *)
LEMMA ProbeInv == Inv /\ ProbeEdge /\ UNCHANGED sinkVars => Inv'
  <1> SUFFICES ASSUME Inv, ProbeEdge, UNCHANGED sinkVars PROVE Inv'
    OBVIOUS
  <1> DEFINE group  == Table[generation][probe_addr]
             offset == SimdMatchOffset(group, h2_fingerprint)
  <1>1. /\ group \in Group
        /\ h2_fingerprint \in Fingerprint
        /\ generation \in DOMAIN Table
        /\ generation \in Generations
        /\ probe_addr \in Addr
    BY GroupType DEF Inv, TypeOK, BenchTypeOK, AccTypeOK
  <1>2. offset \in Lane
    BY <1>1, SimdMatchIsLowest, ProbeCoreAssumption
  <1>3. (probe_addr + offset) % AddrMod \in Addr
    <2>1. probe_addr + offset \in Nat
      BY <1>1, <1>2, ProbeCoreAssumption DEF Addr, Lane
    <2> QED
      BY <2>1, RemainderInRange, ProbeCoreAssumption DEF Addr
  <1>4. (probe_count + 1) % CountMod \in Count
    <2>1. probe_count + 1 \in Nat
      BY AcceleratorAssumption DEF Inv, TypeOK, BenchTypeOK, AccTypeOK, Count
    <2> QED
      BY <2>1, RemainderInRange, AcceleratorAssumption DEF Count
  <1>5. SimdHit(group, h2_fingerprint) =>
            /\ Holds(group[offset], h2_fingerprint)
            /\ \A lower \in 0 .. offset - 1 : ~Holds(group[lower], h2_fingerprint)
    BY <1>1, SimdMatchIsLowest, ProbeCoreAssumption
  <1>6. h2_fingerprint = H2(req.key_hash) /\ Authorized(req)
    BY DEF Inv, FingerprintHeld, GatesPassed, ProbeEdge, Probe
  <1> HIDE DEF offset
  <1>7. CASE SimdHit(group, h2_fingerprint)
    <2>1. /\ resp' = [resp EXCEPT !.status = "OK",
                                  !.match_offset = offset,
                                  !.resolved_id = (probe_addr + offset) % AddrMod,
                                  !.resolved_generation = generation]
          /\ state' = "AUDIT"
      BY <1>7 DEF ProbeEdge, Probe, offset
    <2>2. TypeOK'
      BY <1>1, <1>2, <1>3, <1>4, <2>1, TickType
      DEF Inv, ProbeEdge, Probe, benchVars, sinkVars, TypeOK, BenchTypeOK, AccTypeOK,
          State, Response, Status
    <2>3. /\ resp'.status = "OK"
          /\ resp'.match_offset = offset
          /\ resp'.resolved_id = (probe_addr + offset) % AddrMod
          /\ resp'.resolved_generation = generation
      BY <2>1 DEF Inv, TypeOK, BenchTypeOK, AccTypeOK, Response
    <2>4. ResolvesAt(req.key_hash, resp', probe_addr)
      BY <1>5, <1>6, <1>7, <2>3 DEF ResolvesAt
    <2>5. SoundAnswer(req, resp')
      BY <1>1, <1>6, <2>3, <2>4 DEF SoundAnswer
    <2>6. AnswerBlank' /\ AnswerFinal' /\ FingerprintHeld'
      BY <2>1, <2>5
      DEF Inv, ProbeEdge, Probe, benchVars, AnswerBlank, AnswerFinal, FingerprintHeld
    <2>7. GatesPassed' /\ StrobesPlaced' /\ AuditKept'
      BY <1>6, <2>1
      DEF Inv, ProbeEdge, Probe, benchVars, sinkVars, GatesPassed, StrobesPlaced, AuditKept
    <2> QED
      BY <2>2, <2>6, <2>7 DEF Inv
  <1>8. CASE ~SimdHit(group, h2_fingerprint)
    <2>1. \/ state' = "AUDIT" /\ resp' = [resp EXCEPT !.status = "SEQUENCE_ERROR"]
          \/ state' = "STEP" /\ resp' = resp
      BY <1>8 DEF ProbeEdge, Probe
    <2>2. TypeOK'
      BY <1>4, <2>1, TickType
      DEF Inv, ProbeEdge, Probe, benchVars, sinkVars, TypeOK, BenchTypeOK, AccTypeOK,
          State, Response, Status
    <2>3. AnswerBlank' /\ FingerprintHeld'
      BY <2>1 DEF Inv, ProbeEdge, Probe, benchVars, AnswerBlank, FingerprintHeld
    <2>4. AnswerFinal'
      BY <1>6, <2>1
      DEF Inv, ProbeEdge, Probe, benchVars, AnswerFinal, AnswerBlank, SoundAnswer,
          TypeOK, BenchTypeOK, AccTypeOK, Response
    <2>5. GatesPassed' /\ StrobesPlaced' /\ AuditKept'
      BY <1>6, <2>1
      DEF Inv, ProbeEdge, Probe, benchVars, sinkVars, GatesPassed, StrobesPlaced, AuditKept
    <2> QED
      BY <2>2, <2>3, <2>4, <2>5 DEF Inv
  <1> QED
    BY <1>7, <1>8

(* A step moves to an address of the table.                                *)
LEMMA StepInv == Inv /\ StepEdge /\ UNCHANGED sinkVars => Inv'
  <1> SUFFICES ASSUME Inv, StepEdge, UNCHANGED sinkVars PROVE Inv'
    OBVIOUS
  <1>1. NextBase(probe_addr, probe_count) \in Addr
    BY NextBaseIsAddr, ProbeCoreAssumption, AcceleratorAssumption
    DEF Inv, TypeOK, BenchTypeOK, AccTypeOK, Count
  <1> USE DEF Inv, StepEdge, Step, benchVars, sinkVars
  <1>2. TypeOK'
    BY <1>1, TickType DEF TypeOK, BenchTypeOK, AccTypeOK, State
  <1>3. AnswerBlank' /\ AnswerFinal' /\ FingerprintHeld'
    BY DEF AnswerBlank, AnswerFinal, FingerprintHeld
  <1>4. GatesPassed' /\ StrobesPlaced' /\ AuditKept'
    BY DEF GatesPassed, StrobesPlaced, AuditKept
  <1> QED
    BY <1>2, <1>3, <1>4

(* The record offered describes the final answer, however often it is      *)
(* sampled again.                                                          *)
LEMMA AuditWaitInv == Inv /\ AuditWait => Inv'
  <1> SUFFICES ASSUME Inv, AuditWait PROVE Inv'
    OBVIOUS
  <1> USE GroupType DEF Inv, AuditWait, AuditEdge, Audit, benchVars, sinkVars
  <1>1. TypeOK'
    <2>1. audit' \in AuditRecord
      BY DEF TypeOK, BenchTypeOK, AccTypeOK, AuditRecord, Response, Request
    <2> QED
      BY <2>1, TickType DEF TypeOK, BenchTypeOK, AccTypeOK, State
  <1>2. AnswerBlank' /\ AnswerFinal' /\ FingerprintHeld'
    BY DEF AnswerBlank, AnswerFinal, FingerprintHeld
  <1>3. GatesPassed' /\ StrobesPlaced' /\ AuditKept'
    BY DEF GatesPassed, StrobesPlaced, AuditKept, Describes
  <1> QED
    BY <1>1, <1>2, <1>3

(* The record the sink takes describes the final answer.                   *)
LEMMA AuditTakeInv == Inv /\ AuditTake => Inv'
  <1> SUFFICES ASSUME Inv, AuditTake PROVE Inv'
    OBVIOUS
  <1> USE GroupType DEF Inv, AuditTake, AuditEdge, Audit, benchVars
  <1>1. taken = 0 /\ Describes(audit)
    BY DEF AuditKept
  <1>2. TypeOK'
    <2>1. audit' \in AuditRecord
      BY DEF TypeOK, BenchTypeOK, AccTypeOK, AuditRecord, Response, Request
    <2>2. taken' \in 0 .. 1
      BY <1>1
    <2>3. state' \in State
      BY DEF State
    <2>4. audit_valid' \in BOOLEAN
      BY Zenon
    <2> QED
      BY <2>1, <2>2, <2>3, <2>4, TickType, Zenon DEF TypeOK, BenchTypeOK, AccTypeOK
  <1>3. AnswerBlank' /\ AnswerFinal' /\ FingerprintHeld'
    BY DEF AnswerBlank, AnswerFinal, FingerprintHeld
  <1>4. GatesPassed'
    BY DEF GatesPassed
  <1>5. ~audit_valid' /\ ~probe_valid' /\ state' = "RESPOND"
    BY Zenon
  <1>6. StrobesPlaced'
    <2>1. ~req_ready /\ ~resp_valid /\ ~response_seen
      BY DEF StrobesPlaced
    <2>2. ~req_ready' /\ ~resp_valid' /\ ~response_seen'
      BY <2>1
    <2> QED
      BY <1>5, <2>2, Zenon DEF StrobesPlaced
  <1>7. AuditKept'
    BY <1>1, <1>5 DEF AuditKept, Describes
  <1> QED
    BY <1>2, <1>3, <1>4, <1>6, <1>7

(* Only the cycle stamp of the answer is written while responding.         *)
LEMMA RespondInv ==
    ASSUME NEW resp_ready \in BOOLEAN
    PROVE  Inv /\ RespondEdge(resp_ready) /\ UNCHANGED sinkVars => Inv'
  <1> SUFFICES ASSUME Inv, RespondEdge(resp_ready), UNCHANGED sinkVars PROVE Inv'
    OBVIOUS
  <1> USE DEF Inv, RespondEdge, Respond, benchVars, sinkVars
  <1>1. /\ resp' \in Response
        /\ resp'.status = resp.status
        /\ resp'.resolved_id = resp.resolved_id
        /\ resp'.resolved_generation = resp.resolved_generation
        /\ resp'.match_offset = resp.match_offset
    BY DEF TypeOK, BenchTypeOK, AccTypeOK, Response
  <1>2. TypeOK'
    BY <1>1, TickType DEF TypeOK, BenchTypeOK, AccTypeOK, State
  <1>3. AnswerBlank' /\ FingerprintHeld'
    BY DEF AnswerBlank, FingerprintHeld
  <1>4. AnswerFinal'
    BY <1>1 DEF AnswerFinal, SoundAnswer, ResolvesAt
  <1>5. GatesPassed' /\ StrobesPlaced' /\ AuditKept'
    BY <1>1 DEF GatesPassed, StrobesPlaced, AuditKept, Describes
  <1> QED
    BY <1>2, <1>3, <1>4, <1>5

(* Reset re-establishes the invariant from any state.                      *)
LEMMA ResetInv == Inv /\ Reset => Inv'
  <1> SUFFICES ASSUME Inv, Reset PROVE Inv'
    OBVIOUS
  <1> USE DEF Inv, Reset, ResetEdge, AccReset, benchVars
  <1>1. TypeOK'
    <2>1. taken' \in 0 .. 1
      OBVIOUS
    <2> QED
      BY <2>1, ResetValues, Zenon DEF TypeOK, BenchTypeOK, AccTypeOK, State
  <1>2. AnswerBlank' /\ AnswerFinal' /\ FingerprintHeld'
    BY DEF AnswerBlank, AnswerFinal, FingerprintHeld
  <1>3. GatesPassed' /\ StrobesPlaced' /\ AuditKept'
    BY DEF GatesPassed, StrobesPlaced, AuditKept
  <1> QED
    BY <1>1, <1>2, <1>3

(* A change of the table touches no register.                              *)
LEMMA UpdateInv == Inv /\ Update => Inv'
  BY DEF Inv, Update, TableUpdate, accVars, sinkVars, TypeOK, BenchTypeOK, AccTypeOK,
         AnswerBlank, AnswerFinal, FingerprintHeld, GatesPassed, StrobesPlaced,
         AuditKept, Describes

(* Nor does a stuttering step.                                             *)
LEMMA StutterInv == Inv /\ UNCHANGED vars => Inv'
  BY DEF Inv, vars, accVars, benchVars, sinkVars, TypeOK, BenchTypeOK, AccTypeOK,
         AnswerBlank, AnswerFinal, FingerprintHeld, GatesPassed, StrobesPlaced,
         AuditKept, Describes

(* Every step of the system keeps the invariant.                           *)
LEMMA NextInv == Inv /\ [Next]_vars => Inv'
  BY AcceptInv, IdleInv, ValidateInv, AuthInv, FetchInv, ProbeInv, StepInv, RespondInv,
     AuditWaitInv, AuditTakeInv, ResetInv, UpdateInv, StutterInv
  DEF Next, ClockEdge, Quiet, QuietEdge

(* The invariant of the whole pipeline.                                    *)
THEOREM Invariance == Spec => []Inv
  BY InitInv, NextInv, PTL DEF Spec

-----------------------------------------------------------------------------
(* Every register, wire and sink variable of the lookup system keeps its   *)
(* type, whatever the widths of the counters.                              *)
THEOREM TypeCorrect == Spec => []TypeOK
  <1>1. Inv => TypeOK
    BY DEF Inv
  <1> QED
    BY <1>1, Invariance, PTL

(* STATE_FETCH, STATE_PROBE and STATE_STEP are reached, and the table is   *)
(* strobed, only for a request that has passed all five gates.             *)
THEOREM ProbesAreAuthorized == Spec => []NoProbeBeforeAuthorization
  <1>1. Inv => NoProbeBeforeAuthorization
    BY DEF Inv, GatesPassed, StrobesPlaced, NoProbeBeforeAuthorization
  <1> QED
    BY <1>1, Invariance, PTL

(* Every answer offered is the first refusing gate's status, or an entry   *)
(* the table really had in the generation the answer names, or a failure   *)
(* that resolves nothing.                                                  *)
THEOREM AnswersAreSound == Spec => []AnswerSound
  <1>1. Inv => AnswerSound
    BY DEF Inv, AnswerFinal, StrobesPlaced, AnswerSound
  <1> QED
    BY <1>1, Invariance, PTL

(* With a sink that waits for audit_valid, an answer is offered only after *)
(* exactly one record describing it has been taken.                        *)
THEOREM AuditFirst == Spec => []AuditPrecedesResponse
  <1>1. Inv => AuditPrecedesResponse
    BY DEF Inv, AuditKept, StrobesPlaced, Describes, AuditPrecedesResponse
  <1> QED
    BY <1>1, Invariance, PTL

(* While an answer is offered only the response handshake, a reset or the  *)
(* table can move, and only the first two touch the answer.                *)
LEMMA StepsWhileReplying ==
    ASSUME Inv, [Next]_vars, resp_valid
    PROVE  \/ /\ state' = state
              /\ resp_valid'
              /\ resp' = resp
              /\ req' = req
           \/ ~resp_valid' /\ state' = "IDLE" /\ req' = req
  <1>1. state = "RESPOND" /\ response_seen
    BY DEF Inv, StrobesPlaced
  <1>2. CASE \E resp_ready \in BOOLEAN : RespondEdge(resp_ready)
    BY <1>1, <1>2 DEF RespondEdge, Respond, benchVars
  <1>3. CASE Reset
    BY <1>3, Zenon DEF Reset, ResetEdge, AccReset, benchVars
  <1>4. CASE Update
    BY <1>4 DEF Update, TableUpdate, accVars
  <1>5. CASE UNCHANGED vars
    BY <1>5 DEF vars, accVars, benchVars
  <1> QED
    BY <1>1, <1>2, <1>3, <1>4, <1>5
    DEF Next, ClockEdge, Accept, AcceptEdge, Quiet, QuietEdge, AuditWait, AuditTake,
        AuditEdge, Audit, IdleEdge, IdleWait, IdleAccept, IdleOutputs, ValidateEdge, Validate,
        AuthEdge, Auth, FetchEdge, Fetch, ProbeEdge, Probe, StepEdge, Step

(* An answer that is offered stays on the wires, unchanged, until it is    *)
(* taken or the accelerator is reset.                                      *)
THEOREM AnswersAreHeld == Spec => ResponseHeld
  <1>1. Inv /\ [Next]_vars =>
            [resp_valid => \/ resp_valid' /\ resp' = resp /\ req' = req
                           \/ ~resp_valid' /\ state' = "IDLE"]_vars
    BY StepsWhileReplying
  <1> QED
    BY <1>1, Invariance, PTL DEF Spec, ResponseHeld

(* What the requester sees of a step.                                      *)
Taken     == Phase = "idle" /\ Phase' = "working" /\ req' \in Requests /\ Answer' = Answer
Offered   == /\ Phase = "working" /\ Phase' = "replying" /\ req' = req
             /\ state' = "RESPOND" /\ Answer' = resp'
Finished  == Phase = "replying" /\ Phase' = "idle" /\ req' = req /\ Answer' = "none"
Forgotten == Phase = "working" /\ Phase' = "idle" /\ req' = req /\ Answer' = Answer
Invisible == UNCHANGED <<Phase, req, Answer>>

(* A step that keeps the request, the answer and the idleness of the FSM   *)
(* is invisible to the requester.                                          *)
LEMMA InvisibleStep ==
    ASSUME req' = req, resp_valid' = resp_valid, resp_valid => resp' = resp,
           (state' = "IDLE") <=> (state = "IDLE")
    PROVE  Invisible
  <1>1. Phase' = Phase
    BY DEF Phase
  <1>2. Answer' = Answer
    BY DEF Answer
  <1> QED
    BY <1>1, <1>2 DEF Invisible

(* Every edge, reset and table update is one of the five.                  *)
LEMMA VisibleSteps ==
    ASSUME Inv, [Next]_vars
    PROVE  Taken \/ Offered \/ Finished \/ Forgotten \/ Invisible
  <1>0. Inv'
    BY NextInv
  <1>1. CASE Accept
    <2>1. /\ state = "IDLE" /\ state' = "VALIDATE"
          /\ ~resp_valid /\ ~resp_valid'
          /\ req' \in Requests
      BY <1>1, Zenon
      DEF Accept, AcceptEdge, IdleAccept, IdleOutputs, Inv, StrobesPlaced,
          TypeOK, BenchTypeOK
    <2>2. Taken
      BY <2>1 DEF Taken, Phase, Answer
    <2> QED
      BY <2>2
  <1>2. CASE IdleEdge
    <2>1. state = "IDLE" /\ state' = "IDLE" /\ ~resp_valid /\ ~resp_valid' /\ req' = req
      BY <1>2 DEF IdleEdge, IdleWait, IdleOutputs, benchVars, Inv, StrobesPlaced
    <2>2. resp_valid' = resp_valid
      BY <1>0, <2>1 DEF Inv, TypeOK, BenchTypeOK, AccTypeOK
    <2> QED
      BY <2>1, <2>2, InvisibleStep
  <1>3. CASE \/ ValidateEdge \/ AuthEdge \/ FetchEdge \/ ProbeEdge \/ StepEdge
             \/ AuditWait \/ AuditTake
    <2>1. /\ state # "IDLE" /\ state # "RESPOND"
          /\ state' # "IDLE"
          /\ resp_valid' = resp_valid /\ req' = req
      BY <1>3
      DEF ValidateEdge, Validate, AuthEdge, Auth, FetchEdge, Fetch, ProbeEdge, Probe,
          StepEdge, Step, AuditWait, AuditTake, AuditEdge, Audit, benchVars
    <2>2. ~resp_valid
      BY <2>1 DEF Inv, StrobesPlaced
    <2> QED
      BY <2>1, <2>2, InvisibleStep
  <1>4. CASE \E resp_ready \in BOOLEAN : RespondEdge(resp_ready)
    <2>1. PICK resp_ready \in BOOLEAN : RespondEdge(resp_ready)
      BY <1>4
    <2>2. CASE resp_valid
      <3>1. CASE state' = state /\ resp_valid' /\ resp' = resp /\ req' = req
        <4>1. resp_valid' = resp_valid
          BY <2>2, <3>1 DEF Inv, TypeOK, BenchTypeOK, AccTypeOK
        <4> QED
          BY <3>1, <4>1, InvisibleStep
      <3>2. CASE ~resp_valid' /\ state' = "IDLE" /\ req' = req
        <4>1. state # "IDLE"
          BY <2>1 DEF RespondEdge, Respond
        <4>2. Finished
          BY <2>2, <3>2, <4>1 DEF Finished, Phase, Answer
        <4> QED
          BY <4>2
      <3> QED
        BY <2>2, <3>1, <3>2, StepsWhileReplying
    <2>3. CASE ~resp_valid
      <3>1. state = "RESPOND" /\ state' = "RESPOND" /\ resp_valid' /\ req' = req
        BY <2>1, <2>3 DEF RespondEdge, Respond, benchVars, Inv, StrobesPlaced
      <3>2. Offered
        BY <2>3, <3>1 DEF Offered, Phase, Answer
      <3> QED
        BY <3>2
    <2> QED
      BY <2>2, <2>3
  <1>5. CASE Reset
    <2>1. state' = "IDLE" /\ ~resp_valid' /\ req' = req
      BY <1>5, Zenon DEF Reset, ResetEdge, AccReset, benchVars
    <2>2. CASE state = "IDLE"
      <3>1. resp_valid' = resp_valid
        BY <1>0, <2>1, <2>2 DEF Inv, StrobesPlaced, TypeOK, BenchTypeOK, AccTypeOK
      <3> QED
        BY <2>1, <2>2, <3>1, InvisibleStep
    <2>3. CASE state # "IDLE" /\ resp_valid
      <3>1. Finished
        BY <2>1, <2>3 DEF Finished, Phase, Answer
      <3> QED
        BY <3>1
    <2>4. CASE state # "IDLE" /\ ~resp_valid
      <3>1. Forgotten
        BY <2>1, <2>4 DEF Forgotten, Phase, Answer
      <3> QED
        BY <3>1
    <2> QED
      BY <2>2, <2>3, <2>4
  <1>6. CASE Update \/ UNCHANGED vars
    BY <1>6, InvisibleStep DEF Update, TableUpdate, vars, accVars, benchVars
  <1> QED
    BY <1>1, <1>2, <1>3, <1>4, <1>5, <1>6 DEF Next, ClockEdge, Quiet, QuietEdge

(* Every step is a step of the service or none: the answer it offers is    *)
(* the one STATE_AUDIT left in the registers.                              *)
LEMMA StepSimulation ==
    ASSUME Inv, Inv', [Next]_vars
    PROVE  [Service!ServiceNext]_Service!serviceVars
  <1>1. Offered => SoundAnswer(req, Answer')
    BY DEF Offered, Inv, AnswerFinal
  <1> QED
    BY <1>1, VisibleSteps
    DEF Taken, Offered, Finished, Forgotten, Invisible, Service!ServiceNext, Service!TakeRequest,
        Service!Offer, Service!Finish, Service!Forget, Service!serviceVars

(* The accelerator implements the lookup service.                          *)
THEOREM ServiceImplemented == Spec => ImplementsService
  <1>1. Init => Service!ServiceInit
    BY Zenon DEF Init, BenchInit, AccInit, Service!ServiceInit, Phase, Answer
  <1> QED
    BY <1>1, StepSimulation, Invariance, PTL
    DEF Spec, ImplementsService, Service!ServiceSpec

-----------------------------------------------------------------------------
(***************************************************************************)
(* The reference.  What the FSM does between two probes is a step along    *)
(* the reference's path, so the invariant says how far along the path the  *)
(* lookup is and that no group before this point has the fingerprint.  In  *)
(* VALIDATE and AUTH it is at the beginning; in STEP the count has already *)
(* advanced and the address not yet.                                       *)
(***************************************************************************)
PathOf(r) == ProbePath(TableBase[r.registry_id])

Missed(r, k) == \A g \in DOMAIN Table : \A j \in 0 .. k - 1 : ~HitAt(r, g, j)

PathFollowed ==
    /\ state \in {"VALIDATE", "AUTH"} => probe_count = 0
    /\ state \in {"VALIDATE", "AUTH", "FETCH", "PROBE"} =>
          /\ probe_count <= req.probe_limit
          /\ probe_addr = PathOf(req)[probe_count]
          /\ Missed(req, probe_count)
    /\ state = "STEP" =>
          /\ probe_count \in 1 .. req.probe_limit
          /\ probe_addr = PathOf(req)[probe_count - 1]
          /\ Missed(req, probe_count)

AnswerExpected == state \in {"AUDIT", "RESPOND"} => ExpectedAnswer(req, resp)

ReferenceInv == Inv /\ PathFollowed /\ AnswerExpected

(* The path starts at the base and goes on with the stepper.               *)
LEMMA PathRecursion ==
    ASSUME NEW base \in Addr
    PROVE  /\ ProbePath(base)[0] = base
           /\ \A k \in Nat : /\ ProbePath(base)[k] \in Addr
                            /\ ProbePath(base)[k + 1] = NextBase(ProbePath(base)[k], k + 1)
  <1> DEFINE Rule(f) == [k \in Nat |-> IF k = 0 THEN base
                                      ELSE (f[k - 1] + (k * (k + 1)) \div 2) % AddrMod]
             Step1 == [k \in Nat |-> [addr \in Addr |-> NextBase(addr, k)]]
  <1>1. \A addr \in Addr, k \in Nat :
            /\ NextBase(addr, k) \in Addr
            /\ NextBase(addr, k) = (addr + (k * (k + 1)) \div 2) % AddrMod
    <2> SUFFICES ASSUME NEW addr \in Addr, NEW k \in Nat
                 PROVE  /\ NextBase(addr, k) \in Addr
                        /\ NextBase(addr, k) = (addr + (k * (k + 1)) \div 2) % AddrMod
      OBVIOUS
    <2>1. k * k + k = k * (k + 1)
      OBVIOUS
    <2>2. NextBase(addr, k) \in Addr
      BY NextBaseIsAddr, ProbeCoreAssumption
    <2> QED
      BY <2>1, <2>2 DEF NextBase, NonLinearOffset
  <1>2. PICK f : Iterates(f, Nat, base, Step1)
    BY IterationExists
  <1>3. /\ f = [k \in Nat |-> f[k]]
        /\ \A k \in Nat : f[k] = IF k = 0 THEN base ELSE Step1[k][f[k - 1]]
    BY <1>2, Zenon DEF Iterates
  <1>4. f[0] = base
    BY <1>3
  <1>5. ASSUME NEW k \in Nat, f[k] \in Addr
        PROVE  f[k + 1] = NextBase(f[k], k + 1) /\ f[k + 1] \in Addr
    <2>1. k + 1 \in Nat /\ k + 1 # 0 /\ (k + 1) - 1 = k
      OBVIOUS
    <2>2. f[k + 1] = Step1[k + 1][f[k]]
      BY <1>3, <2>1
    <2> QED
      BY <1>1, <1>5, <2>1, <2>2
  <1> HIDE DEF Step1
  <1>6. ASSUME NEW n \in Nat PROVE f[n] \in Addr
    <2> DEFINE S == {k \in 0 .. n : f[k] \in Addr}
    <2>1. 0 \in S
      BY <1>4
    <2>2. ASSUME NEW k \in 0 .. n - 1, k \in S PROVE k + 1 \in S
      BY <1>5, <2>2
    <2> HIDE DEF S
    <2>3. \A k \in 0 .. n : k \in S
      BY <2>1, <2>2, SetInduction
    <2>4. n \in S
      BY <2>3
    <2> QED
      BY <2>4 DEF S
  <1>7. ASSUME NEW k \in Nat
        PROVE  f[k] = IF k = 0 THEN base ELSE (f[k - 1] + (k * (k + 1)) \div 2) % AddrMod
    <2>1. CASE k = 0
      BY <1>4, <2>1
    <2>2. CASE k # 0
      <3>1. k - 1 \in Nat /\ (k - 1) + 1 = k
        BY <2>2
      <3>2. f[k - 1] \in Addr
        BY <1>6, <3>1
      <3>3. f[k] = NextBase(f[k - 1], k)
        BY <1>5, <3>1, <3>2
      <3> QED
        BY <1>1, <2>2, <3>2, <3>3
    <2> QED
      BY <2>1, <2>2
  <1>8. f = Rule(f)
    BY <1>3, <1>7, Zenon
  <1>9. ProbePath(base) = CHOOSE g : g = Rule(g)
    BY DEF ProbePath
  <1>10. ProbePath(base) = Rule(ProbePath(base))
    <2> HIDE DEF Rule
    <2> QED
      BY <1>8, <1>9
  <1> DEFINE path == ProbePath(base)
  <1>11. \A k \in Nat : path[k] = IF k = 0 THEN base
                                   ELSE (path[k - 1] + (k * (k + 1)) \div 2) % AddrMod
    BY <1>10, Zenon
  <1> HIDE DEF path
  <1>12. path[0] = base
    BY <1>11
  <1>13. ASSUME NEW k \in Nat, path[k] \in Addr
         PROVE  path[k + 1] = NextBase(path[k], k + 1) /\ path[k + 1] \in Addr
    <2>1. k + 1 \in Nat /\ k + 1 # 0 /\ (k + 1) - 1 = k
      OBVIOUS
    <2>2. path[k + 1] = (path[k] + ((k + 1) * ((k + 1) + 1)) \div 2) % AddrMod
      BY <1>11, <2>1
    <2> QED
      BY <1>1, <1>13, <2>1, <2>2
  <1>14. ASSUME NEW n \in Nat PROVE path[n] \in Addr
    <2> DEFINE S == {k \in 0 .. n : path[k] \in Addr}
    <2>1. 0 \in S
      BY <1>12
    <2>2. ASSUME NEW k \in 0 .. n - 1, k \in S PROVE k + 1 \in S
      BY <1>13, <2>2
    <2> HIDE DEF S
    <2>3. \A k \in 0 .. n : k \in S
      BY <2>1, <2>2, SetInduction
    <2>4. n \in S
      BY <2>3
    <2> QED
      BY <2>4 DEF S
  <1> QED
    BY <1>12, <1>13, <1>14 DEF path

(* A control byte holds a fingerprint if it is the fingerprint with the    *)
(* occupied bit set, which is how the reference writes it.                 *)
LEMMA HoldsByte ==
    ASSUME NEW byte \in ControlByte, NEW h2 \in Fingerprint
    PROVE  Holds(byte, h2) <=> byte = H2Mod + h2
  <1>1. H2Mod \in Nat \ {0}
    BY ProbeCoreAssumption
  <1>2. (byte \div H2Mod) * H2Mod + (byte % H2Mod) = byte
    BY <1>1 DEF ControlByte
  <1>3. Holds(byte, h2) => byte = H2Mod + h2
    BY <1>1, <1>2 DEF Holds, Occupied, StoredH2
  <1>4. (H2Mod + h2) \div H2Mod = 1 /\ (H2Mod + h2) % H2Mod = h2
    BY <1>1 DEF Fingerprint
  <1> QED
    BY <1>3, <1>4 DEF Holds, Occupied, StoredH2

(* The reference hits in a group where the comparator does, and in the     *)
(* lane that the priority encoder reports.                                 *)
LEMMA HitIsSimdHit ==
    ASSUME NEW r \in Request, NEW g \in DOMAIN Table, NEW k \in Nat
    PROVE  HitAt(r, g, k) <=> SimdHit(Table[g][PathOf(r)[k]], H2(r.key_hash))
  <1>1. TableBase[r.registry_id] \in Addr /\ H2(r.key_hash) \in Fingerprint
    BY BenchAssumption, H2Type DEF Request
  <1>2. PathOf(r)[k] \in Addr
    BY <1>1, PathRecursion DEF PathOf
  <1>3. Table[g][PathOf(r)[k]] \in Group
    BY <1>2, BenchAssumption
  <1>4. \A i \in Lane : Holds(Table[g][PathOf(r)[k]][i], H2(r.key_hash))
                            <=> Table[g][PathOf(r)[k]][i] = H2Mod + H2(r.key_hash)
    BY <1>1, <1>3, HoldsByte DEF Group
  <1> QED
    BY <1>4, Zenon DEF HitAt, PathOf, SimdHit, LaneMatches

LEMMA LowestIsReported ==
    ASSUME NEW r \in Request, NEW g \in DOMAIN Table, NEW addr \in Addr, NEW l \in Lane,
           Holds(Table[g][addr][l], H2(r.key_hash)),
           \A lower \in 0 .. l - 1 : ~Holds(Table[g][addr][lower], H2(r.key_hash))
    PROVE  LowestLane(r, addr, g) = l
  <1> DEFINE group == Table[g][addr]
             byte  == H2Mod + H2(r.key_hash)
             Low(i) == group[i] = byte /\ \A j \in 0 .. i - 1 : group[j] # byte
  <1>1. H2(r.key_hash) \in Fingerprint
    BY H2Type DEF Request
  <1>2. \A i \in Lane : Holds(group[i], H2(r.key_hash)) <=> group[i] = byte
    BY <1>1, HoldsByte, BenchAssumption DEF Group
  <1>3. \A i \in Lane : 0 .. i - 1 \subseteq Lane
    BY ProbeCoreAssumption DEF Lane
  <1>4. Low(l)
    BY <1>2, <1>3
  <1> HIDE DEF group, byte
  <1>5. ASSUME NEW i \in Lane, Low(i) PROVE i = l
    <2>1. ~(i < l)
      BY <1>4, <1>5, ProbeCoreAssumption DEF Lane
    <2>2. ~(l < i)
      BY <1>4, <1>5, ProbeCoreAssumption DEF Lane
    <2> QED
      BY <2>1, <2>2, ProbeCoreAssumption DEF Lane
  <1>6. LowestLane(r, addr, g) = CHOOSE i \in Lane : Low(i)
    BY DEF LowestLane, group, byte
  <1> HIDE DEF Low
  <1> QED
    BY <1>4, <1>5, <1>6

-----------------------------------------------------------------------------
(* The four ways in which a sound answer is the one expected: a gate       *)
(* refuses, the table stalls, every group on the path misses, or one hits. *)
LEMMA RefusalExpected ==
    ASSUME NEW r, NEW a, ~Authorized(r), SoundAnswer(r, a)
    PROVE  ExpectedAnswer(r, a)
  <1>1. PICK g \in DOMAIN Table : TRUE
    BY BenchAssumption
  <1>2. a.status = Refusal(r)
    BY DEF SoundAnswer
  <1>3. Refusal(r) = ExpectedStatus(r, g) /\ Refusal(r) # "OK"
    BY DEF Refusal, ExpectedStatus, Authorized
  <1>4. NothingResolved(a)
    BY <1>2, <1>3 DEF SoundAnswer, NothingResolved
  <1> QED
    BY <1>1, <1>2, <1>3, <1>4 DEF ExpectedAnswer

LEMMA TimeoutExpected ==
    ASSUME NEW r, NEW a, Authorized(r), SoundAnswer(r, a), TableMayStall,
           a.status = "TIMEOUT"
    PROVE  ExpectedAnswer(r, a)
  <1>1. PICK g \in DOMAIN Table : TRUE
    BY BenchAssumption
  <1>2. ExpectedStatus(r, g) \in {"OK", "SEQUENCE_ERROR"}
    BY DEF ExpectedStatus, Authorized
  <1>3. NothingResolved(a)
    BY DEF SoundAnswer, NothingResolved
  <1> QED
    BY <1>1, <1>2, <1>3 DEF ExpectedAnswer

LEMMA MissExpected ==
    ASSUME NEW r \in Request, NEW a, Authorized(r), SoundAnswer(r, a),
           a.status = "SEQUENCE_ERROR", Missed(r, r.probe_limit + 1)
    PROVE  ExpectedAnswer(r, a)
  <1>1. PICK g \in DOMAIN Table : TRUE
    BY BenchAssumption
  <1>2. r.probe_limit \in Nat
    BY AcceleratorAssumption DEF Request, Count
  <1>3. \A k \in 0 .. r.probe_limit : ~HitAt(r, g, k)
    BY <1>1, <1>2 DEF Missed
  <1>4. a.status = ExpectedStatus(r, g)
    BY <1>3 DEF ExpectedStatus, Authorized
  <1>5. NothingResolved(a)
    BY DEF SoundAnswer, NothingResolved
  <1> QED
    BY <1>1, <1>4, <1>5 DEF ExpectedAnswer

LEMMA HitExpected ==
    ASSUME NEW r, NEW a, Authorized(r), NEW g \in DOMAIN Table, NEW k \in 0 .. r.probe_limit,
           HitAt(r, g, k), Missed(r, k),
           a.status = "OK",
           a.match_offset = LowestLane(r, PathOf(r)[k], g),
           a.resolved_id = (PathOf(r)[k] + a.match_offset) % AddrMod,
           a.resolved_generation = g
    PROVE  ExpectedAnswer(r, a)
  <1>1. a.status = ExpectedStatus(r, g)
    BY DEF ExpectedStatus, Authorized
  <1>2. FirstHit(r, g, k)
    BY DEF FirstHit, Missed
  <1>3. LET addr == ProbePath(TableBase[r.registry_id])[k]
        IN  /\ a.match_offset = LowestLane(r, addr, g)
            /\ a.resolved_id = (addr + a.match_offset) % AddrMod
    BY DEF PathOf
  <1> QED
    BY <1>1, <1>2, <1>3 DEF ExpectedAnswer

(* The cycle stamp is no part of what is expected.                         *)
LEMMA StampUnexpected ==
    ASSUME NEW r, NEW a, NEW b, ExpectedAnswer(r, a),
           b.status = a.status, b.resolved_id = a.resolved_id,
           b.resolved_generation = a.resolved_generation, b.match_offset = a.match_offset
    PROVE  ExpectedAnswer(r, b)
  BY Zenon DEF ExpectedAnswer, NothingResolved

-----------------------------------------------------------------------------
(* The lookup starts at the beginning of the path.                         *)
LEMMA AcceptFollows == ReferenceInv /\ Accept => PathFollowed' /\ AnswerExpected'
  <1> SUFFICES ASSUME ReferenceInv, Accept PROVE PathFollowed' /\ AnswerExpected'
    OBVIOUS
  <1>1. PICK r \in Requests : IdleAccept(r, TableBase[r.registry_id]) /\ req' = r
    BY DEF Accept, AcceptEdge
  <1>2. r \in Request /\ r.probe_limit \in Nat /\ TableBase[r.registry_id] \in Addr
    BY BenchAssumption, AcceleratorAssumption DEF Request, Count
  <1>3. /\ state' = "VALIDATE" /\ probe_count' = 0
        /\ probe_addr' = TableBase[r.registry_id] /\ req' = r
    BY <1>1 DEF IdleAccept, IdleOutputs
  <1>4. probe_addr' = PathOf(r)[0]
    BY <1>2, <1>3, PathRecursion DEF PathOf
  <1>5. Missed(r, 0)
    BY DEF Missed
  <1> QED
    BY <1>2, <1>3, <1>4, <1>5 DEF PathFollowed, AnswerExpected

(* A refusal at a gate is the one the reference computes, and a stalled    *)
(* fetch is the timeout it allows; otherwise the lookup stays where it is  *)
(* on the path.                                                            *)
LEMMA GatesFollow ==
    ASSUME ReferenceInv, Inv', ValidateEdge \/ AuthEdge \/ FetchEdge
    PROVE  PathFollowed' /\ AnswerExpected'
  <1>1. req' = req /\ probe_addr' = probe_addr /\ probe_count' = probe_count
    BY DEF ValidateEdge, Validate, AuthEdge, Auth, FetchEdge, Fetch, benchVars
  <1>2. \/ state = "VALIDATE" /\ state' = "AUTH"
        \/ state = "AUTH" /\ state' = "FETCH"
        \/ state = "FETCH" /\ state' = "PROBE"
        \/ state' = "AUDIT"
    BY DEF ValidateEdge, Validate, AuthEdge, Auth, FetchEdge, Fetch
  <1>3. PathFollowed'
    BY <1>1, <1>2 DEF ReferenceInv, PathFollowed
  <1>4. ASSUME state' = "AUDIT" PROVE ExpectedAnswer(req, resp')
    <2>1. SoundAnswer(req, resp')
      BY <1>1, <1>4 DEF Inv, AnswerFinal
    <2>2. CASE ValidateEdge
      <3>1. ~Authorized(req)
        BY <1>4, <2>2 DEF ValidateEdge, Validate, ValidateStatus, Authorized
      <3> QED
        BY <2>1, <3>1, RefusalExpected
    <2>3. CASE AuthEdge
      <3>1. ~Authorized(req)
        BY <1>4, <2>3 DEF AuthEdge, Auth, AuthStatus, Authorized
      <3> QED
        BY <2>1, <3>1, RefusalExpected
    <2>4. CASE FetchEdge
      <3>1. TableMayStall /\ resp' = [resp EXCEPT !.status = "TIMEOUT"]
        BY <1>4, <2>4 DEF FetchEdge, Fetch
      <3>2. resp'.status = "TIMEOUT"
        BY <3>1 DEF ReferenceInv, Inv, TypeOK, BenchTypeOK, AccTypeOK, Response
      <3>3. Authorized(req)
        BY <2>4 DEF FetchEdge, Fetch, ReferenceInv, Inv, GatesPassed
      <3> QED
        BY <2>1, <3>1, <3>2, <3>3, TimeoutExpected
    <2> QED
      BY <2>2, <2>3, <2>4
  <1>5. AnswerExpected'
    BY <1>1, <1>2, <1>4 DEF AnswerExpected
  <1> QED
    BY <1>3, <1>5

(* A hit is the first on the path, and a miss is one in every generation,  *)
(* there being one: it leads on along the path or, at the limit, to its    *)
(* end.  Before the limit the count does not wrap.                         *)
LEMMA ProbeFollows ==
    ASSUME OneGeneration, ReferenceInv, Inv', ProbeEdge
    PROVE  PathFollowed' /\ AnswerExpected'
  <1> DEFINE group  == Table[generation][probe_addr]
             offset == SimdMatchOffset(group, h2_fingerprint)
  <1>1. /\ req \in Request
        /\ generation \in DOMAIN Table
        /\ group \in Group
        /\ probe_addr \in Addr
        /\ h2_fingerprint \in Fingerprint
        /\ resp \in Response
    BY GroupType DEF ReferenceInv, Inv, TypeOK, BenchTypeOK, AccTypeOK
  <1>2. /\ probe_count \in Nat /\ probe_count < CountMod
        /\ req.probe_limit \in Nat /\ req.probe_limit < CountMod
        /\ CountMod \in Nat
    BY <1>1, AcceleratorAssumption
    DEF ReferenceInv, Inv, TypeOK, BenchTypeOK, AccTypeOK, Request, Count
  <1>3. /\ state = "PROBE"
        /\ probe_count <= req.probe_limit
        /\ probe_addr = PathOf(req)[probe_count]
        /\ Missed(req, probe_count)
        /\ h2_fingerprint = H2(req.key_hash)
        /\ Authorized(req)
    BY DEF ProbeEdge, Probe, ReferenceInv, PathFollowed, Inv, FingerprintHeld, GatesPassed
  <1>4. /\ req' = req /\ probe_addr' = probe_addr
        /\ probe_count' = (probe_count + 1) % CountMod
    BY DEF ProbeEdge, Probe, benchVars
  <1>5. HitAt(req, generation, probe_count) <=> SimdHit(group, h2_fingerprint)
    BY <1>1, <1>2, <1>3, HitIsSimdHit
  <1>6. CASE SimdHit(group, h2_fingerprint)
    <2>1. /\ offset \in Lane
          /\ Holds(group[offset], h2_fingerprint)
          /\ \A lower \in 0 .. offset - 1 : ~Holds(group[lower], h2_fingerprint)
      BY <1>1, <1>6, SimdMatchIsLowest, ProbeCoreAssumption
    <2>2. LowestLane(req, probe_addr, generation) = offset
      <3> HIDE DEF offset
      <3> QED
        BY <1>1, <1>3, <2>1, LowestIsReported
    <2>3. /\ resp' = [resp EXCEPT !.status = "OK",
                                  !.match_offset = offset,
                                  !.resolved_id = (probe_addr + offset) % AddrMod,
                                  !.resolved_generation = generation]
          /\ state' = "AUDIT"
      BY <1>6 DEF ProbeEdge, Probe
    <2> HIDE DEF offset
    <2>4. /\ resp'.status = "OK"
          /\ resp'.match_offset = offset
          /\ resp'.resolved_id = (probe_addr + offset) % AddrMod
          /\ resp'.resolved_generation = generation
      BY <1>1, <2>3 DEF Response
    <2>5. probe_count \in 0 .. req.probe_limit
      BY <1>2, <1>3
    <2>6. ExpectedAnswer(req, resp')
      BY <1>1, <1>3, <1>5, <1>6, <2>2, <2>4, <2>5, HitExpected
    <2> QED
      BY <1>4, <2>3, <2>6 DEF PathFollowed, AnswerExpected
  <1>7. CASE ~SimdHit(group, h2_fingerprint)
    <2>1. Missed(req, probe_count + 1)
      <3> SUFFICES ASSUME NEW g \in DOMAIN Table, NEW j \in 0 .. (probe_count + 1) - 1
                   PROVE  ~HitAt(req, g, j)
        BY DEF Missed
      <3>1. g = generation
        BY <1>1 DEF OneGeneration
      <3>2. CASE j = probe_count
        BY <1>5, <1>7, <3>1, <3>2
      <3>3. CASE j # probe_count
        <4>1. j \in 0 .. probe_count - 1
          BY <1>2, <3>3
        <4> QED
          BY <1>3, <4>1 DEF Missed
      <3> QED
        BY <3>2, <3>3
    <2>2. CASE Exhausted(probe_count, req.probe_limit)
      <3>1. state' = "AUDIT" /\ resp' = [resp EXCEPT !.status = "SEQUENCE_ERROR"]
        BY <1>7, <2>2 DEF ProbeEdge, Probe
      <3>2. probe_count = req.probe_limit
        BY <1>2, <1>3, <2>2 DEF Exhausted
      <3>3. SoundAnswer(req, resp')
        BY <1>4, <3>1 DEF Inv, AnswerFinal
      <3>4. resp'.status = "SEQUENCE_ERROR"
        BY <1>1, <3>1 DEF Response
      <3>5. ExpectedAnswer(req, resp')
        BY <1>1, <1>3, <2>1, <3>2, <3>3, <3>4, MissExpected
      <3> QED
        BY <1>4, <3>1, <3>5 DEF PathFollowed, AnswerExpected
    <2>3. CASE ~Exhausted(probe_count, req.probe_limit)
      <3>1. state' = "STEP"
        BY <1>7, <2>3 DEF ProbeEdge, Probe
      <3>2. probe_count < req.probe_limit
        BY <1>2, <2>3 DEF Exhausted
      <3>3. probe_count' = probe_count + 1
        <4>1. probe_count + 1 < CountMod
          BY <1>2, <3>2
        <4> QED
          BY <1>2, <1>4, <4>1
      <3>4. probe_count' \in 1 .. req.probe_limit /\ probe_count' - 1 = probe_count
        BY <1>2, <3>2, <3>3
      <3> QED
        BY <1>3, <1>4, <2>1, <3>1, <3>3, <3>4 DEF PathFollowed, AnswerExpected
    <2> QED
      BY <2>2, <2>3
  <1> QED
    BY <1>6, <1>7

(* The stepper makes the address catch up with the count.                  *)
LEMMA StepFollows ==
    ASSUME ReferenceInv, StepEdge
    PROVE  PathFollowed' /\ AnswerExpected'
  <1>1. /\ state = "STEP" /\ state' = "FETCH"
        /\ probe_addr' = NextBase(probe_addr, probe_count)
        /\ probe_count' = probe_count /\ req' = req
    BY DEF StepEdge, Step, benchVars
  <1>2. /\ probe_count \in 1 .. req.probe_limit
        /\ probe_addr = PathOf(req)[probe_count - 1]
        /\ Missed(req, probe_count)
    BY <1>1 DEF ReferenceInv, PathFollowed
  <1>3. req \in Request /\ TableBase[req.registry_id] \in Addr /\ req.probe_limit \in Nat
    BY GroupType, BenchAssumption, AcceleratorAssumption DEF ReferenceInv, Inv, Request, Count
  <1>4. probe_count - 1 \in Nat /\ (probe_count - 1) + 1 = probe_count
        /\ probe_count <= req.probe_limit
    BY <1>2, <1>3
  <1>5. PathOf(req)[probe_count] = NextBase(PathOf(req)[probe_count - 1], probe_count)
    BY <1>3, <1>4, PathRecursion DEF PathOf
  <1> QED
    BY <1>1, <1>2, <1>4, <1>5 DEF PathFollowed, AnswerExpected

(* Auditing and responding leave the answer alone but for its cycle stamp; *)
(* all other steps are in IDLE or lead there, or touch no register.        *)
LEMMA OthersFollow ==
    ASSUME ReferenceInv, [Next]_vars,
           ~(Accept \/ ValidateEdge \/ AuthEdge \/ FetchEdge \/ ProbeEdge \/ StepEdge)
    PROVE  PathFollowed' /\ AnswerExpected'
  <1>1. CASE \/ AuditWait \/ AuditTake
             \/ \E resp_ready \in BOOLEAN : RespondEdge(resp_ready)
    <2>1. /\ state \in {"AUDIT", "RESPOND"}
          /\ state' \in {"AUDIT", "RESPOND", "IDLE"}
          /\ req' = req
          /\ resp' = resp \/ resp' = [resp EXCEPT !.cycles = cycle_counter]
      BY <1>1 DEF AuditWait, AuditTake, AuditEdge, Audit, RespondEdge, Respond, benchVars
    <2>2. /\ resp'.status = resp.status
          /\ resp'.resolved_id = resp.resolved_id
          /\ resp'.resolved_generation = resp.resolved_generation
          /\ resp'.match_offset = resp.match_offset
      BY <2>1 DEF ReferenceInv, Inv, TypeOK, BenchTypeOK, AccTypeOK, Response
    <2>3. ExpectedAnswer(req, resp)
      BY <2>1 DEF ReferenceInv, AnswerExpected
    <2>4. ExpectedAnswer(req, resp')
      BY <2>2, <2>3, StampUnexpected
    <2> QED
      BY <2>1, <2>4 DEF PathFollowed, AnswerExpected
  <1>2. CASE IdleEdge \/ Reset
    <2>1. state' = "IDLE"
      BY <1>2, Zenon DEF IdleEdge, IdleWait, IdleOutputs, Reset, ResetEdge, AccReset
    <2> QED
      BY <2>1 DEF PathFollowed, AnswerExpected
  <1>3. CASE Update \/ UNCHANGED vars
    BY <1>3
    DEF ReferenceInv, PathFollowed, AnswerExpected, Update, TableUpdate, vars, accVars, benchVars
  <1> QED
    BY <1>1, <1>2, <1>3 DEF Next, ClockEdge, Quiet, QuietEdge

(* While there is one generation every step follows the reference.         *)
LEMMA NextFollows ==
    ASSUME OneGeneration, ReferenceInv, [Next]_vars
    PROVE  ReferenceInv'
  <1>1. Inv'
    BY NextInv DEF ReferenceInv
  <1>2. PathFollowed' /\ AnswerExpected'
    BY <1>1, AcceptFollows, GatesFollow, ProbeFollows, StepFollows, OthersFollow
  <1> QED
    BY <1>1, <1>2 DEF ReferenceInv

LEMMA ReferenceSimulation ==
    ASSUME Inv, AnswerExpected', [Next]_vars
    PROVE  [Reference!ServiceNext]_Reference!serviceVars
  <1>1. Offered => ExpectedAnswer(req, Answer')
    BY DEF Offered, AnswerExpected
  <1> QED
    BY <1>1, VisibleSteps
    DEF Taken, Offered, Finished, Forgotten, Invisible, Reference!ServiceNext,
        Reference!TakeRequest, Reference!Offer, Reference!Finish, Reference!Forget,
        Reference!serviceVars

(* Against a table that does not change, every answer is the one the       *)
(* reference computes from the request and the table: the refusal of the   *)
(* first gate that refuses, else the lowest lane of the first group on the *)
(* path that holds the fingerprint within the probe limit, or a failure if *)
(* there is none; or a timeout, if the table may stall.                    *)
THEOREM ReferenceMatched == OneGeneration => (Spec => MatchesReference)
  <1> SUFFICES ASSUME OneGeneration PROVE Spec => MatchesReference
    OBVIOUS
  <1>1. Init => ReferenceInv
    BY InitInv, Zenon
    DEF Init, BenchInit, AccInit, ReferenceInv, PathFollowed, AnswerExpected
  <1>2. ReferenceInv /\ [Next]_vars => ReferenceInv'
    BY NextFollows
  <1>3. Init => Reference!ServiceInit
    BY Zenon DEF Init, BenchInit, AccInit, Reference!ServiceInit, Phase, Answer
  <1>4. ReferenceInv /\ ReferenceInv' /\ [Next]_vars
            => [Reference!ServiceNext]_Reference!serviceVars
    BY ReferenceSimulation DEF ReferenceInv
  <1> QED
    BY <1>1, <1>2, <1>3, <1>4, PTL
    DEF Spec, MatchesReference, Reference!ServiceSpec

==============================================================================
