-------------------------------- MODULE Rings --------------------------------
(***************************************************************************)
(* The privilege rings: include/atarix/rings.h, src/ring/ring.c and the    *)
(* ring check of a mailbox message in src/mailbox/mailbox.c.  A ring is    *)
(* its enum value, the smaller the more privileged; in records a ring is   *)
(* a 16-bit "wire" number, where the two negative rings become the two     *)
(* largest numbers.                                                        *)
(***************************************************************************)
EXTENDS Integers

Supervisor  == -2
Fabric      == -1
Kernel      == 0
Application == 3
Quarantined == 4

Rings == Supervisor .. Quarantined

WireSupervisor == 65534
WireFabric     == 65535

(* A value outside the enum becomes an application.                        *)
RingToWire(ring) ==
    CASE ring = Supervisor -> WireSupervisor
      [] ring = Fabric     -> WireFabric
      [] ring \in Kernel .. Quarantined -> ring
      [] OTHER             -> Application

RingOperations == {"OBSERVE", "REQUEST", "MANAGE", "QUARANTINE", "RECOVER"}

RingIsValid(ring) == ring \in Rings

(* A quarantined requester reaches nobody, and only the supervisor reaches *)
(* a quarantined target.                                                   *)
QuarantineDenies(requester, target) ==
    requester = Quarantined \/ (target = Quarantined /\ requester # Supervisor)

UpwardByTwo(requester, target) == requester > target + 1

Upward(requester, target) == requester > target

CanAccessEqualFirst(requester, target, operation) ==
    IF requester = target THEN "ALLOW"
    ELSE IF QuarantineDenies(requester, target) \/ Upward(requester, target) THEN "DENY"
    ELSE IF operation \in {"MANAGE", "QUARANTINE", "RECOVER"} /\ requester # Supervisor
    THEN "DENY"
    ELSE "ALLOW"

(* The checks of atarix_ring_can_access, in its order.                     *)
CanAccess(requester, target, operation) ==
    IF ~RingIsValid(requester) \/ ~RingIsValid(target) THEN "INVALID_RING"
    ELSE IF operation \notin RingOperations THEN "INVALID_OPERATION"
    ELSE IF QuarantineDenies(requester, target) THEN "DENY"
    ELSE IF requester = target THEN "ALLOW"
    ELSE IF Upward(requester, target) THEN "DENY"
    ELSE IF operation \in {"MANAGE", "QUARANTINE", "RECOVER"} /\ requester # Supervisor
    THEN "DENY"
    ELSE "ALLOW"

RingAuthorize(source, target, typeKnown) ==
    IF ~typeKnown THEN "UNKNOWN_TYPE"
    ELSE IF CanAccess(source, target, "REQUEST") # "ALLOW" THEN "RING_DENIED"
    ELSE "OK"

==============================================================================
