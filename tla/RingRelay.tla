------------------------------ MODULE RingRelay ------------------------------
(***************************************************************************)
(* What the ring checks add up to when principals pass a message on.  One  *)
(* principal sends; whoever holds the message may pass it to any principal *)
(* atarix_mailbox_ring_authorize lets it address, and meanwhile principals *)
(* are put into quarantine and recovered by whoever                        *)
(* atarix_ring_can_access allows to.  The checks take the rings as they    *)
(* are at the call; each is made against a state others keep changing.     *)
(***************************************************************************)
EXTENDS Rings

CONSTANTS
    Principals,
    HomeRing        \* principal -> the ring it was attached in

ASSUME RelayAssumption ==
    HomeRing \in [Principals -> Rings \ {Quarantined}]

VARIABLES
    ring,       \* principal -> its ring now
    origin,     \* the sender
    informed,   \* principals that hold the message
    by          \* the principal that acted last

relayVars == <<ring, origin, informed, by>>

RelayInit ==
    /\ ring = HomeRing
    /\ origin \in Principals
    /\ informed = {origin}
    /\ by = origin

Relay(p, q, typeKnown) ==
    /\ p \in informed
    /\ q \notin informed
    /\ RingAuthorize(ring[p], ring[q], typeKnown) = "OK"
    /\ informed' = informed \cup {q}
    /\ by' = p
    /\ UNCHANGED <<ring, origin>>

PutInQuarantine(p, q) ==
    /\ CanAccess(ring[p], ring[q], "QUARANTINE") = "ALLOW"
    /\ ring' = [ring EXCEPT ![q] = Quarantined]
    /\ by' = p
    /\ UNCHANGED <<origin, informed>>

Recover(p, q) ==
    /\ CanAccess(ring[p], ring[q], "RECOVER") = "ALLOW"
    /\ ring' = [ring EXCEPT ![q] = HomeRing[q]]
    /\ by' = p
    /\ UNCHANGED <<origin, informed>>

RelayNext ==
    \E p, q \in Principals :
        \/ \E typeKnown \in BOOLEAN : Relay(p, q, typeKnown)
        \/ PutInQuarantine(p, q)
        \/ Recover(p, q)

RelaySpec == RelayInit /\ [][RelayNext]_relayVars

RelayTypeOK ==
    /\ ring \in [Principals -> Rings]
    /\ origin \in Principals
    /\ informed \in SUBSET Principals
    /\ by \in Principals

(* Passing a message on gains nothing: however many principals relay it,   *)
(* and whatever quarantines and recoveries happen in between, it never     *)
(* arrives at a principal more privileged than its sender (the comparison  *)
(* requester > target of atarix_ring_can_access composes).                 *)
NeverUpward == \A p \in informed : HomeRing[p] >= HomeRing[origin]

(* Quarantine isolates: while a principal is quarantined it informs        *)
(* nobody, only a supervisor informs it, and only a supervisor lets it     *)
(* out.                                                                    *)
QuarantineIsolates ==
    [][ /\ informed' # informed => ring[by'] # Quarantined
        /\ \A q \in informed' \ informed :
               ring[q] = Quarantined => ring[by'] = Supervisor
        /\ \A q \in Principals :
               ring[q] = Quarantined /\ ring'[q] # Quarantined => ring[by'] = Supervisor
      ]_relayVars

==============================================================================
