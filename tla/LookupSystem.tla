---------------------------- MODULE LookupSystem ----------------------------
(***************************************************************************)
(* The accelerator with an audit sink that takes a record on an edge where *)
(* audit_valid and audit_ready are both high, and that, like the CI bench, *)
(* raises audit_ready only after it has seen audit_valid.                  *)
(***************************************************************************)
EXTENDS AcceleratorBench

VARIABLES
    taken,          \* records taken since the current request was accepted
    record          \* the last record taken

sinkVars == <<taken, record>>
vars     == <<accVars, benchVars, sinkVars>>

Init ==
    /\ BenchInit
    /\ taken = 0
    /\ record = ResetAudit

Accept == AcceptEdge /\ taken' = 0 /\ UNCHANGED record

Quiet == QuietEdge /\ UNCHANGED sinkVars

AuditWait == AuditEdge(FALSE) /\ UNCHANGED sinkVars

AuditTake ==
    /\ audit_valid
    /\ AuditEdge(TRUE)
    /\ taken' = taken + 1
    /\ record' = audit

Reset  == ResetEdge /\ taken' = 0 /\ UNCHANGED record
Update == TableUpdate /\ UNCHANGED sinkVars

ClockEdge == Accept \/ Quiet \/ AuditWait \/ AuditTake

Next == ClockEdge \/ Reset \/ Update

Spec == Init /\ [][Next]_vars

(* The clock runs, the sink takes a record it is offered, and the          *)
(* requester takes an answer it is offered.                                *)
Fairness ==
    /\ WF_vars(Quiet)
    /\ WF_vars(AuditWait /\ ~audit_valid)
    /\ WF_vars(AuditTake)
    /\ WF_vars(RespondEdge(TRUE) /\ UNCHANGED sinkVars)

FairSpec == Spec /\ Fairness

-----------------------------------------------------------------------------
(* Every register, wire and sink variable keeps its type.                  *)
TypeOK ==
    /\ BenchTypeOK
    /\ taken \in 0 .. 1
    /\ record \in AuditRecord

(* "Audit commit precedes successful response": an answer is offered only  *)
(* after the sink has taken exactly one record for it, and that record     *)
(* tells the answer's status and offset, the request's sequence and        *)
(* registry, and how many probes were made.                                *)
AuditPrecedesResponse ==
    resp_valid =>
        /\ taken = 1
        /\ record.sequence = req.sequence
        /\ record.registry_id = req.registry_id
        /\ record.status = resp.status
        /\ record.match_offset = resp.match_offset
        /\ record.probe_count = probe_count

(* An answer that is offered stays on the wires, unchanged, until the      *)
(* requester takes it or the reset line falls.                             *)
ResponseHeld ==
    [][resp_valid =>
          \/ resp_valid' /\ resp' = resp /\ req' = req
          \/ ~resp_valid' /\ state' = "IDLE"]_vars

(* The service the requester sees.                                         *)
Phase ==
    CASE state = "IDLE"                 -> "idle"
      [] state # "IDLE" /\ resp_valid   -> "replying"
      [] state # "IDLE" /\ ~resp_valid  -> "working"

Answer == IF resp_valid THEN resp ELSE "none"

Service ==
    INSTANCE LookupService WITH
        Correct <- SoundAnswer, phase <- Phase, request <- req, answer <- Answer

(* Refinement: to its requester the accelerator is a lookup service that   *)
(* serves one request at a time, answers it at most once and soundly, and  *)
(* holds the answer until it is taken or a reset forgets it.               *)
ImplementsService == Service!ServiceSpec

(* Every accepted request is answered, whatever its probe limit, unless a  *)
(* reset forgets it (no other step leads back to STATE_IDLE unanswered, by *)
(* ImplementsService).                                                     *)
EveryRequestAnswered == (state = "VALIDATE") ~> (resp_valid \/ state = "IDLE")

(* The accelerator always comes back to accepting requests.                *)
AlwaysReadyAgain == []<>req_ready

(* What the CI bench checks while it holds audit_ready low: a record that  *)
(* is offered stays offered and does not change ("audit payload changed    *)
(* under backpressure").                                                   *)
AuditHeldUnderBackpressure ==
    [][audit_valid /\ audit_valid' => audit' = audit]_vars

==============================================================================
