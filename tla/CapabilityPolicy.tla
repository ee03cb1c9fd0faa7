-------------------------- MODULE CapabilityPolicy --------------------------
(***************************************************************************)
(* src/capability/capability_policy.c: validating a capability record,     *)
(* validating a delegation, and deciding a request.  A status is named     *)
(* after its ATARIX_POLICY_STATUS_ constant.  Handles, identifiers and     *)
(* principals are naturals of which 0 is the null one; flags are a set.    *)
(* delegation_mask and reserved are left out: no function reads them.      *)
(***************************************************************************)
EXTENDS Rings

Untrusted == 0
Revoked   == 7
TrustLevels == Untrusted .. Revoked

Flags == {"READ_ALLOWED", "WRITE_ALLOWED", "CONTROL_ALLOWED", "DELEGATION_ALLOWED",
          "REVOCATION_SUPPORTED", "TIME_LIMITED", "DEVELOPMENT_ONLY", "RECOVERY_ONLY",
          "DESTRUCTIVE_OPERATION", "REQUIRES_SUPERVISOR_APPROVAL"}

Wires == 0 .. 65535

(* The operations with a flag of their own, one without, and the null one. *)
Operations == {"INVALID", "READ", "WRITE", "CONTROL", "MONITOR"}

CapabilityRecord ==
    [capability_id : Nat, operation_id : Operations, target_handle : Nat,
     minimum_ring : Wires, maximum_ring : Wires, flags : SUBSET Flags,
     expiration : Nat, issuer_handle : Nat, trust_requirement : Nat]

(* A caller may present any value as its ring.                             *)
PolicyRequest ==
    [caller : Nat, owner : Nat, issuer_trust : TrustLevels, owner_trust : TrustLevels,
     ring : Int, target_handle : Nat, operation_id : Operations, revoked : BOOLEAN]

TrustIsUsable(trust) == trust # Untrusted /\ trust # Revoked

RingRangeValid(cap) ==
    IF cap.minimum_ring = WireSupervisor THEN cap.maximum_ring = WireSupervisor
    ELSE IF cap.minimum_ring = WireFabric
    THEN cap.maximum_ring = WireFabric \/ cap.maximum_ring <= Application
    ELSE cap.minimum_ring <= cap.maximum_ring /\ cap.maximum_ring <= Application

(* The fabric minimum admits the fabric alone, whatever the maximum.       *)
RingInRange(ring, cap) ==
    IF cap.minimum_ring \in {WireSupervisor, WireFabric}
    THEN RingToWire(ring) = cap.minimum_ring
    ELSE RingToWire(ring) \in cap.minimum_ring .. cap.maximum_ring

UsesSupervisorAuthority(cap) ==
    WireSupervisor \in {cap.minimum_ring, cap.maximum_ring}

ExpiredWhenEqual(cap, now) ==
    "TIME_LIMITED" \in cap.flags /\ (cap.expiration = 0 \/ now = cap.expiration)

Expired(cap, now) ==
    "TIME_LIMITED" \in cap.flags /\ (cap.expiration = 0 \/ now > cap.expiration)

RecordValidate(cap) ==
    IF \/ cap.capability_id = 0
       \/ cap.operation_id = "INVALID"
       \/ ~RingRangeValid(cap)
       \/ cap.target_handle = 0
       \/ cap.issuer_handle = 0
    THEN "INVALID_CAPABILITY"
    ELSE "OK"

AllowsOperation(cap, operation) ==
    /\ cap.operation_id = operation
    /\ operation = "READ"    => "READ_ALLOWED" \in cap.flags
    /\ operation = "WRITE"   => "WRITE_ALLOWED" \in cap.flags
    /\ operation = "CONTROL" => "CONTROL_ALLOWED" \in cap.flags

(* The last checks of a delegation, made on wire numbers: the range of the *)
(* child against the range of the parent.                                  *)
DelegatedRangeUnchecked(parent, child) ==
    child.minimum_ring >= parent.minimum_ring

DelegatedRange(parent, child) ==
    /\ child.minimum_ring >= parent.minimum_ring
    /\ child.maximum_ring >= parent.minimum_ring
    /\ child.maximum_ring <= parent.maximum_ring

DelegationValidate(parent, child) ==
    IF RecordValidate(parent) # "OK" THEN RecordValidate(parent)
    ELSE IF RecordValidate(child) # "OK" THEN RecordValidate(child)
    ELSE IF "DELEGATION_ALLOWED" \notin parent.flags THEN "DELEGATION_DENIED"
    ELSE IF UsesSupervisorAuthority(parent) \/ UsesSupervisorAuthority(child)
    THEN "DELEGATION_DENIED"
    ELSE IF parent.target_handle # child.target_handle THEN "RESOURCE_DENIED"
    ELSE IF parent.operation_id # child.operation_id THEN "OPERATION_DENIED"
    ELSE IF ~(child.flags \subseteq parent.flags) THEN "DELEGATION_DENIED"
    ELSE IF ~DelegatedRange(parent, child) THEN "DELEGATION_DENIED"
    ELSE "OK"

(* The status of atarix_policy_evaluate; the decision is ALLOW for OK and  *)
(* DENY for every other status.                                            *)
PolicyEvaluate(cap, request, now) ==
    IF RecordValidate(cap) # "OK" THEN RecordValidate(cap)
    ELSE IF request.revoked THEN "REVOKED"
    ELSE IF Expired(cap, now) THEN "EXPIRED"
    ELSE IF ~TrustIsUsable(request.issuer_trust) THEN "UNTRUSTED_ISSUER"
    ELSE IF ~TrustIsUsable(request.owner_trust) THEN "UNTRUSTED_OWNER"
    ELSE IF request.caller # request.owner THEN "OWNER_MISMATCH"
    ELSE IF ~RingInRange(request.ring, cap) THEN "RING_DENIED"
    ELSE IF request.target_handle # cap.target_handle THEN "RESOURCE_DENIED"
    ELSE IF ~AllowsOperation(cap, request.operation_id) THEN "OPERATION_DENIED"
    ELSE "OK"

==============================================================================
