---------------------------- MODULE SystemWrapper ----------------------------
(***************************************************************************)
(* rtl/atarix/atx_spec_020_system_wrapper.v: the accelerator with its      *)
(* audit_ready tied to 1 and its audit_valid wired to the write enable of  *)
(* the audit window.  Both registers sample the same edge, so the window   *)
(* sees the audit registers as they were before it.                        *)
(***************************************************************************)
EXTENDS AcceleratorBench, AuditWindow, Bitwise
LOCAL INSTANCE SequencesExt

wrapperVars == <<accVars, benchVars, windowVars>>

(* The wire encoding of resp_status and audit_status.                      *)
StatusCode == [OK |-> 0, INVALID_HEADER |-> 2, CRC_MISMATCH |-> 4,
               SEQUENCE_ERROR |-> 5, RING_DENIED |-> 9, POLICY_DENIED |-> 10,
               CAP_DENIED |-> 11, TIMEOUT |-> 14]

RECURSIVE Parity(_)
Parity(n) == IF n = 0 THEN 0 ELSE ((n % 2) + Parity(n \div 2)) % 2

Bit(b) == IF b THEN 1 ELSE 0

(* audit_projection_byte *)
ProjectionByte ==
    FoldLeft(LAMBDA x, y : x ^^ y, 0,
        <<StatusCode[audit.status], Parity(audit.sequence), Parity(audit.registry_id),
          Parity(audit.generation), audit.probe_count, audit.match_offset,
          Parity(probe_addr), Parity(NextBase(probe_addr, probe_count)),
          Bit(probe_valid), head_pointer, Bit(wrapped)>>)

WrapperInit == BenchInit /\ WindowInit

WrapperEdge ==
    /\ AcceptEdge \/ QuietEdge \/ AuditEdge(TRUE)
    /\ WindowEdge(audit_valid, ProjectionByte)

WrapperReset  == ResetEdge /\ WindowReset
WrapperUpdate == TableUpdate /\ UNCHANGED windowVars

WrapperNext == WrapperEdge \/ WrapperReset \/ WrapperUpdate

WrapperSpec == WrapperInit /\ [][WrapperNext]_wrapperVars

(* "Audit commit precedes successful response": by the time the wrapper    *)
(* offers an answer, the audit window has been written at least once since *)
(* the last reset.                                                         *)
AuditCommitPrecedesResponse ==
    resp_valid /\ resp.status = "OK" => head_pointer # 0 \/ wrapped

==============================================================================
