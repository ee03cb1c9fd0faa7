----------------------------- MODULE MCAuthority -----------------------------
(***************************************************************************)
(* The three uses of the rings: relayed messages, chains of delegation and *)
(* the evaluator's table.  They share the checks and no state, so one of   *)
(* them runs in a behaviour while the others stay as they start.           *)
(***************************************************************************)
EXTENDS RingRelay, CapabilityChain, CapabilityEvaluator

CONSTANTS super, fab, kern, app1, app2

VARIABLE part   \* the one that runs

(* Two applications (peers), a kernel, the fabric and a supervisor.        *)
MCPrincipals == {super, fab, kern, app1, app2}

MCHomeRing ==
    [p \in MCPrincipals |->
        CASE p = super -> Supervisor
          [] p = fab   -> Fabric
          [] p = kern  -> Kernel
          [] OTHER     -> Application]

Cap(operation, target, issuer, range, flags, expiration, requirement) ==
    [capability_id |-> 1, operation_id |-> operation, target_handle |-> target,
     minimum_ring |-> range[1], maximum_ring |-> range[2], flags |-> flags,
     expiration |-> expiration, issuer_handle |-> issuer,
     trust_requirement |-> requirement]

(* Chain: ranges of every kind, the last three of which a record may not   *)
(* have; the flags that a chain can lose; one other target, operation and  *)
(* issuer to be refused.                                                   *)
ChainRanges ==
    {<<WireSupervisor, WireSupervisor>>, <<WireFabric, WireFabric>>, <<WireFabric, 3>>,
     <<0, 3>>, <<0, 0>>, <<3, 3>>, <<0, 4>>, <<0, WireSupervisor>>, <<3, 0>>}

FlagSets ==
    {{"READ_ALLOWED", "DELEGATION_ALLOWED"}, {"DELEGATION_ALLOWED"}, {"READ_ALLOWED"},
     {"READ_ALLOWED", "DELEGATION_ALLOWED", "TIME_LIMITED"}}

MCCandidates ==
    {Cap("READ", 1, 1, range, flags, 1, 0) : range \in ChainRanges, flags \in FlagSets}
    \cup {Cap("READ", 1, 1, <<0, 3>>, {"READ_ALLOWED", "TIME_LIMITED"}, 0, 0),
          Cap("MONITOR", 1, 1, <<0, 3>>, {"DELEGATION_ALLOWED"}, 0, 0),
          Cap("READ", 2, 1, <<0, 3>>, {"READ_ALLOWED"}, 0, 0),
          Cap("READ", 1, 0, <<0, 3>>, {"READ_ALLOWED"}, 0, 0),
          Cap("INVALID", 1, 1, <<0, 3>>, {"READ_ALLOWED"}, 0, 0)}

Ask(caller, level, r, target, operation) ==
    [caller |-> caller, owner |-> 1, issuer_trust |-> level, owner_trust |-> level,
     ring |-> r, target_handle |-> target, operation_id |-> operation, revoked |-> FALSE]

(* Ring 5 is outside the enum.                                             *)
AskingRings == {Supervisor, Fabric, Kernel, Application, Quarantined, 5}

MCRequests ==
    {Ask(1, 3, r, 1, "READ") : r \in AskingRings}
    \cup {Ask(1, 3, Kernel, 1, "MONITOR"), Ask(2, 3, Kernel, 1, "READ"),
          Ask(1, Revoked, Kernel, 1, "READ"), Ask(1, 3, Kernel, 2, "READ")}

(* Evaluator: records for two targets with two trust requirements.         *)
RecordRanges ==
    {<<WireSupervisor, WireSupervisor>>, <<WireFabric, 3>>, <<0, 2>>, <<3, 3>>, <<0, 4>>}

MCRecords ==
    {Cap("READ", target, 1, range, kind[1], 0, kind[2]) :
        target \in 1 .. 2, range \in RecordRanges, kind \in {<<{}, 1>>, <<{"RECOVERY_ONLY"}, 3>>}}

MCAsks ==
    {[ring |-> r, target_handle |-> target, operation_id |-> operation] :
        r \in AskingRings, target \in 1 .. 2, operation \in {"READ", "WRITE"}}

AuthorityInit ==
    /\ RelayInit /\ ChainInit /\ EvaluatorInit
    /\ \/ part = "relay"
       \/ part \in {"chain", "evaluator"} /\ origin = app1

AuthorityNext ==
    \/ part = "relay" /\ RelayNext /\ UNCHANGED <<part, chainVars, evaluatorVars>>
    \/ part = "chain" /\ ChainNext /\ UNCHANGED <<part, relayVars, evaluatorVars>>
    \/ part = "evaluator" /\ EvaluatorNext /\ UNCHANGED <<part, relayVars, chainVars>>

AuthoritySpec ==
    AuthorityInit /\ [][AuthorityNext]_<<part, relayVars, chainVars, evaluatorVars>>

==============================================================================
