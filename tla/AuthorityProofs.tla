--------------------------- MODULE AuthorityProofs ---------------------------
(***************************************************************************)
(* The results about the rings and the capabilities, for any principals,   *)
(* records and requests.  Relays: NeverUpward compares home rings, while   *)
(* the checks look at the rings of the moment; what connects them is that  *)
(* a principal is in its home ring or in quarantine.  Chains: the policy   *)
(* compares neighbours, so the invariant is the comparison of every pair.  *)
(* Table: the evaluator's reading of a range is compared with the policy's *)
(* on the record it served by.                                             *)
(***************************************************************************)
EXTENDS RingRelay, CapabilityChain, CapabilityEvaluator, SharedLemmas

HomeOrQuarantine == \A p \in Principals : ring[p] \in {HomeRing[p], Quarantined}

RelayInv == RelayTypeOK /\ HomeOrQuarantine /\ NeverUpward

(* What an allowed access says of the two rings, whatever the operation.   *)
LEMMA AllowedIsDownward ==
    ASSUME NEW requester \in Int, NEW target \in Int, NEW operation,
           CanAccess(requester, target, operation) = "ALLOW"
    PROVE  /\ requester # Quarantined
           /\ target = Quarantined => requester = Supervisor
           /\ requester <= target
  BY DEF CanAccess, QuarantineDenies, Upward, RingIsValid, Rings, Supervisor, Quarantined

(* A message the mailbox authorizes is one atarix_ring_can_access allows.  *)
LEMMA AuthorizedIsAllowed ==
    ASSUME NEW source, NEW target, NEW typeKnown,
           RingAuthorize(source, target, typeKnown) = "OK"
    PROVE  CanAccess(source, target, "REQUEST") = "ALLOW"
  BY DEF RingAuthorize

LEMMA RelayInvInit == RelayInit => RelayInv
  BY RelayAssumption
  DEF RelayInit, RelayInv, RelayTypeOK, HomeOrQuarantine, NeverUpward, Rings, Supervisor, Quarantined

(* Passing the message on, the one step NeverUpward could break at.        *)
LEMMA RelayKeeps ==
    ASSUME RelayInv, NEW p \in Principals, NEW q \in Principals, NEW typeKnown \in BOOLEAN,
           Relay(p, q, typeKnown)
    PROVE  RelayInv'
  <1>1. /\ ring[p] \in Int /\ ring[q] \in Int
        /\ HomeRing[p] \in Int /\ HomeRing[q] \in Int /\ HomeRing[origin] \in Int
        /\ HomeRing[q] >= Supervisor
    BY RelayAssumption DEF RelayInv, RelayTypeOK, Rings, Supervisor, Quarantined
  <1>2. CanAccess(ring[p], ring[q], "REQUEST") = "ALLOW"
    BY AuthorizedIsAllowed DEF Relay
  <1>3. /\ ring[p] = HomeRing[p]
        /\ \/ ring[q] = HomeRing[q]
           \/ ring[p] = Supervisor
    BY <1>1, <1>2, AllowedIsDownward DEF RelayInv, HomeOrQuarantine
  <1>4. HomeRing[p] <= HomeRing[q]
    BY <1>1, <1>2, <1>3, AllowedIsDownward
  <1>5. HomeRing[p] >= HomeRing[origin]
    BY DEF RelayInv, NeverUpward, Relay
  <1>6. NeverUpward'
    BY <1>1, <1>4, <1>5 DEF RelayInv, NeverUpward, Relay
  <1>7. RelayTypeOK' /\ HomeOrQuarantine'
    BY DEF RelayInv, RelayTypeOK, HomeOrQuarantine, Relay
  <1> QED
    BY <1>6, <1>7 DEF RelayInv

LEMMA QuarantineKeeps ==
    ASSUME RelayInv, NEW p \in Principals, NEW q \in Principals, PutInQuarantine(p, q)
    PROVE  RelayInv'
  BY DEF RelayInv, RelayTypeOK, HomeOrQuarantine, NeverUpward, PutInQuarantine,
         Rings, Supervisor, Quarantined

LEMMA RecoverKeeps ==
    ASSUME RelayInv, NEW p \in Principals, NEW q \in Principals, Recover(p, q)
    PROVE  RelayInv'
  BY RelayAssumption
  DEF RelayInv, RelayTypeOK, HomeOrQuarantine, NeverUpward, Recover

LEMMA RelayInvNext == RelayInv /\ [RelayNext]_relayVars => RelayInv'
  <1> SUFFICES ASSUME RelayInv, [RelayNext]_relayVars PROVE RelayInv'
    OBVIOUS
  <1>1. CASE \E p, q \in Principals, typeKnown \in BOOLEAN : Relay(p, q, typeKnown)
    BY <1>1, RelayKeeps
  <1>2. CASE \E p, q \in Principals : PutInQuarantine(p, q)
    BY <1>2, QuarantineKeeps
  <1>3. CASE \E p, q \in Principals : Recover(p, q)
    BY <1>3, RecoverKeeps
  <1>4. CASE UNCHANGED relayVars
    BY <1>4 DEF RelayInv, RelayTypeOK, HomeOrQuarantine, NeverUpward, relayVars
  <1> QED
    BY <1>1, <1>2, <1>3, <1>4 DEF RelayNext

LEMMA RelayInvariance == RelaySpec => []RelayInv
  BY RelayInvInit, RelayInvNext, PTL DEF RelaySpec

(* A message is never relayed to a principal more privileged than its      *)
(* sender, by any number of relays, quarantines and recoveries.            *)
THEOREM RelayNeverUpward == RelaySpec => []NeverUpward
  <1>1. RelayInv => NeverUpward
    BY DEF RelayInv
  <1> QED
    BY RelayInvariance, <1>1, PTL

(* A quarantined principal informs nobody, and only a supervisor informs   *)
(* or releases one.                                                        *)
THEOREM QuarantineHolds == RelaySpec => QuarantineIsolates
  <1> DEFINE Isolated ==
         /\ informed' # informed => ring[by'] # Quarantined
         /\ \A q \in informed' \ informed : ring[q] = Quarantined => ring[by'] = Supervisor
         /\ \A q \in Principals :
               ring[q] = Quarantined /\ ring'[q] # Quarantined => ring[by'] = Supervisor
  <1>1. ASSUME RelayInv, [RelayNext]_relayVars PROVE [Isolated]_relayVars
    <2>1. ASSUME NEW p \in Principals, NEW q \in Principals, NEW typeKnown \in BOOLEAN,
                 Relay(p, q, typeKnown)
          PROVE  Isolated
      <3>1. ring[p] \in Int /\ ring[q] \in Int
        BY <1>1 DEF RelayInv, RelayTypeOK, Rings, Supervisor, Quarantined
      <3>2. CanAccess(ring[p], ring[q], "REQUEST") = "ALLOW"
        BY <2>1, AuthorizedIsAllowed DEF Relay
      <3>3. ring[p] # Quarantined /\ (ring[q] = Quarantined => ring[p] = Supervisor)
        BY <3>1, <3>2, AllowedIsDownward
      <3> QED
        BY <2>1, <3>3 DEF Relay
    <2>2. ASSUME NEW p \in Principals, NEW q \in Principals, PutInQuarantine(p, q)
          PROVE  Isolated
      BY <1>1, <2>2 DEF PutInQuarantine, RelayInv, RelayTypeOK
    <2>3. ASSUME NEW p \in Principals, NEW q \in Principals, Recover(p, q)
          PROVE  Isolated
      <3>1. ring[p] \in Int /\ ring[q] \in Int
        BY <1>1 DEF RelayInv, RelayTypeOK, Rings, Supervisor, Quarantined
      <3>2. ring[q] = Quarantined => ring[p] = Supervisor
        BY <2>3, <3>1, AllowedIsDownward DEF Recover
      <3> QED
        BY <1>1, <2>3, <3>2 DEF Recover, RelayInv, RelayTypeOK
    <2> QED
      BY <1>1, <2>1, <2>2, <2>3 DEF RelayNext
  <1> QED
    BY RelayInvariance, <1>1, PTL DEF RelaySpec, QuarantineIsolates

------------------------------------------------------------------------------
(***************************************************************************)
(* Chains of delegation.                                                   *)
(***************************************************************************)

ChainTypeOK ==
    /\ chain \in Seq(Candidates)
    /\ now \in Nat
    /\ answer.ring \in Int

ChainValid == \A i \in DOMAIN chain : RingRangeValid(chain[i])

(* What one record passes on to a record delegated from it, directly or    *)
(* through others.                                                         *)
Narrower(parent, child) ==
    /\ child.target_handle = parent.target_handle
    /\ child.operation_id = parent.operation_id
    /\ child.flags \subseteq parent.flags
    /\ child.minimum_ring >= parent.minimum_ring
    /\ child.maximum_ring <= parent.maximum_ring

ChainNarrows ==
    \A i, j \in DOMAIN chain : i < j =>
        /\ ~UsesSupervisorAuthority(chain[i]) /\ ~UsesSupervisorAuthority(chain[j])
        /\ Narrower(chain[i], chain[j])

AnswerFollows ==
    Allowed =>
        /\ answer.link \in DOMAIN chain
        /\ RingInRange(answer.ring, chain[answer.link])
        /\ chain[answer.link].target_handle = answer.target_handle
        /\ AllowsOperation(chain[answer.link], answer.operation_id)

ChainInv == ChainTypeOK /\ ChainValid /\ ChainNarrows /\ AnswerFollows

(* What atarix_capability_delegation_validate establishes of a pair.       *)
LEMMA DelegationIsNarrower ==
    ASSUME NEW parent \in CapabilityRecord, NEW child \in CapabilityRecord,
           DelegationValidate(parent, child) = "OK"
    PROVE  /\ Narrower(parent, child)
           /\ ~UsesSupervisorAuthority(parent) /\ ~UsesSupervisorAuthority(child)
           /\ RingRangeValid(child)
  BY DEF DelegationValidate, RecordValidate, DelegatedRange, Narrower

(* What atarix_policy_evaluate establishes when it answers OK.             *)
LEMMA OkIsServed ==
    ASSUME NEW cap, NEW request, NEW t, PolicyEvaluate(cap, request, t) = "OK"
    PROVE  /\ ~request.revoked
           /\ ~Expired(cap, t)
           /\ RingInRange(request.ring, cap)
           /\ request.target_handle = cap.target_handle
           /\ AllowsOperation(cap, request.operation_id)
  BY DEF PolicyEvaluate, RecordValidate

(* The wire numbers of the two negative rings are the largest.             *)
LEMMA WireNumbers ==
    /\ WireSupervisor \in Nat /\ WireFabric \in Nat
    /\ Quarantined < WireSupervisor /\ WireSupervisor < WireFabric
    /\ \A w \in Wires : w \in Nat /\ w <= WireFabric
  BY SMT DEF WireSupervisor, WireFabric, Wires, Quarantined

(* Only the fabric has the fabric's wire number.                           *)
LEMMA OnlyFabricIsWireFabric ==
    ASSUME NEW r \in Int, r # Fabric
    PROVE  RingToWire(r) \in Nat /\ RingToWire(r) < WireFabric
  BY WireNumbers, SMT
  DEF RingToWire, Fabric, Supervisor, Kernel, Quarantined, Application

LEMMA RecordWires ==
    ASSUME NEW cap \in CapabilityRecord
    PROVE  /\ cap.minimum_ring \in Nat /\ cap.minimum_ring <= WireFabric
           /\ cap.maximum_ring \in Nat /\ cap.maximum_ring <= WireFabric
  <1>1. cap.minimum_ring \in Wires /\ cap.maximum_ring \in Wires
    BY DEF CapabilityRecord
  <1> QED
    BY <1>1, WireNumbers

(* A ring other than the fabric's in the range of a valid record is in the *)
(* range of every record it narrows that claims no supervisor authority.   *)
LEMMA RangeWidensUpTheChain ==
    ASSUME NEW parent \in CapabilityRecord, NEW child \in CapabilityRecord,
           Narrower(parent, child), ~UsesSupervisorAuthority(parent),
           ~UsesSupervisorAuthority(child),
           NEW r \in Int, r # Fabric, RingInRange(r, child)
    PROVE  RingInRange(r, parent)
  <1>1. /\ parent.minimum_ring \in Nat /\ parent.maximum_ring \in Nat
        /\ child.minimum_ring \in Nat /\ child.maximum_ring \in Nat
        /\ child.minimum_ring <= WireFabric
    BY RecordWires
  <1>2. RingToWire(r) \in Nat /\ RingToWire(r) < WireFabric
    BY OnlyFabricIsWireFabric
  <1>3. child.minimum_ring # WireSupervisor /\ child.minimum_ring # WireFabric
    BY <1>2, WireNumbers DEF RingInRange, UsesSupervisorAuthority
  <1>4. parent.minimum_ring # WireSupervisor /\ parent.minimum_ring # WireFabric
    BY <1>1, <1>3, WireNumbers DEF Narrower, UsesSupervisorAuthority
  <1>5. RingToWire(r) \in parent.minimum_ring .. parent.maximum_ring
    BY <1>1, <1>2, <1>3 DEF RingInRange, Narrower
  <1> QED
    BY <1>4, <1>5 DEF RingInRange

(* The fabric is in the range of a record that ends with it only if it is  *)
(* in the range of every valid record the record narrows.                  *)
LEMMA FabricComesFromFabric ==
    ASSUME NEW parent \in CapabilityRecord, NEW child \in CapabilityRecord,
           Narrower(parent, child), RingRangeValid(parent), RingRangeValid(child),
           ~UsesSupervisorAuthority(parent), ~UsesSupervisorAuthority(child),
           RingInRange(Fabric, child), ~(child.maximum_ring <= Application)
    PROVE  RingInRange(Fabric, parent)
  <1>1. /\ parent.minimum_ring \in Nat /\ parent.maximum_ring \in Nat
        /\ child.minimum_ring \in Nat /\ child.maximum_ring \in Nat
        /\ parent.maximum_ring <= WireFabric
    BY RecordWires
  <1>2. RingToWire(Fabric) = WireFabric
    BY SMT DEF RingToWire, Fabric, Supervisor, Kernel, Quarantined
  <1>3. child.maximum_ring = WireFabric
    BY <1>1 DEF RingRangeValid, UsesSupervisorAuthority
  <1>4. parent.maximum_ring = WireFabric
    BY <1>1, <1>3, WireNumbers DEF Narrower
  <1>5. parent.minimum_ring = WireFabric
    BY <1>1, <1>4, WireNumbers
    DEF RingRangeValid, UsesSupervisorAuthority, Application, Quarantined
  <1> QED
    BY <1>2, <1>5 DEF RingInRange

LEMMA ChainInvInit == ChainInit => ChainInv
  BY DEF ChainInit, ChainInv, ChainTypeOK, ChainValid, ChainNarrows, AnswerFollows, Allowed, NoAnswer, Kernel

LEMMA IssueKeeps ==
    ASSUME ChainInv, NEW cap \in Candidates, Issue(cap)
    PROVE  ChainInv'
  <1>1. chain' = <<cap>> /\ chain' \in Seq(Candidates) /\ DOMAIN chain' = {1}
    BY DEF Issue
  <1> QED
    BY <1>1
    DEF Issue, RecordValidate, ChainInv, ChainTypeOK, ChainValid, ChainNarrows, AnswerFollows,
        Allowed, NoAnswer, Kernel

(* Appending a record: the pairs it is the last of.                        *)
LEMMA DelegateKeeps ==
    ASSUME ChainInv, NEW cap \in Candidates, Delegate(cap)
    PROVE  ChainInv'
  <1> DEFINE n == Len(chain)
  <1>1. /\ n \in Nat \ {0} /\ DOMAIN chain = 1 .. n
        /\ \A i \in 1 .. n : chain[i] \in CapabilityRecord
        /\ cap \in CapabilityRecord
    BY ChainAssumption DEF ChainInv, ChainTypeOK, Delegate
  <1>2. /\ chain' \in Seq(Candidates) /\ DOMAIN chain' = 1 .. n + 1
        /\ \A i \in 1 .. n : chain'[i] = chain[i]
        /\ chain'[n + 1] = cap
    BY <1>1 DEF ChainInv, ChainTypeOK, Delegate
  <1>3. /\ Narrower(chain[n], cap)
        /\ ~UsesSupervisorAuthority(chain[n]) /\ ~UsesSupervisorAuthority(cap)
        /\ RingRangeValid(cap)
    BY <1>1, DelegationIsNarrower DEF Delegate
  <1>4. ASSUME NEW i \in 1 .. n
        PROVE  Narrower(chain[i], cap) /\ ~UsesSupervisorAuthority(chain[i])
    <2>1. CASE i = n
      BY <1>3, <2>1
    <2>2. CASE i # n
      <3>1. i < n /\ n \in 1 .. n
        <4> HIDE DEF n
        <4> QED
          BY <1>1, <1>4, <2>2
      <3>2. Narrower(chain[i], chain[n]) /\ ~UsesSupervisorAuthority(chain[i])
        BY <1>1, <3>1 DEF ChainInv, ChainNarrows
      <3>3. /\ chain[i].minimum_ring \in Nat /\ chain[i].maximum_ring \in Nat
            /\ chain[n].minimum_ring \in Nat /\ chain[n].maximum_ring \in Nat
            /\ cap.minimum_ring \in Nat /\ cap.maximum_ring \in Nat
        BY <1>1, RecordWires
      <3> QED
        BY <1>3, <3>2, <3>3 DEF Narrower
    <2> QED
      BY <2>1, <2>2
  <1>5. ChainNarrows'
    <2> SUFFICES ASSUME NEW i \in 1 .. n + 1, NEW j \in 1 .. n + 1, i < j
                 PROVE  /\ ~UsesSupervisorAuthority(chain'[i])
                        /\ ~UsesSupervisorAuthority(chain'[j])
                        /\ Narrower(chain'[i], chain'[j])
      BY <1>2 DEF ChainNarrows
    <2>1. i \in 1 .. n
      BY <1>1
    <2>2. CASE j = n + 1
      BY <1>2, <1>3, <1>4, <2>1, <2>2
    <2>3. CASE j # n + 1
      <3>1. j \in 1 .. n
        BY <1>1, <2>3
      <3> QED
        BY <1>1, <1>2, <2>1, <3>1 DEF ChainInv, ChainNarrows
    <2> QED
      BY <2>2, <2>3
  <1>6. answer' = NoAnswer /\ now' = now
    BY DEF Delegate
  <1>7. ChainValid'
    <2> SUFFICES ASSUME NEW i \in 1 .. n + 1 PROVE RingRangeValid(chain'[i])
      BY <1>2 DEF ChainValid
    <2>1. i \in 1 .. n \/ i = n + 1
      BY <1>1
    <2> QED
      BY <1>1, <1>2, <1>3, <2>1 DEF ChainInv, ChainValid
  <1> QED
    BY <1>2, <1>5, <1>6, <1>7 DEF ChainInv, ChainTypeOK, AnswerFollows, Allowed, NoAnswer, Kernel

LEMMA EvaluateKeeps ==
    ASSUME ChainInv, NEW link \in DOMAIN chain, NEW request \in Requests, Evaluate(link, request)
    PROVE  ChainInv'
  <1> DEFINE asked == [request EXCEPT !.revoked = link \in revoked]
  <1>1. request \in PolicyRequest
    BY ChainAssumption
  <1>2. /\ asked.ring = request.ring /\ asked.target_handle = request.target_handle
        /\ asked.operation_id = request.operation_id
    BY <1>1 DEF PolicyRequest
  <1>3. /\ answer'.link = link /\ answer'.ring = request.ring
        /\ answer'.target_handle = request.target_handle
        /\ answer'.operation_id = request.operation_id
        /\ answer'.status = PolicyEvaluate(chain[link], asked, now)
        /\ chain' = chain /\ now' = now
    BY DEF Evaluate
  <1>4. AnswerFollows'
    <2> SUFFICES ASSUME Allowed' PROVE
                   /\ link \in DOMAIN chain
                   /\ RingInRange(request.ring, chain[link])
                   /\ chain[link].target_handle = request.target_handle
                   /\ AllowsOperation(chain[link], request.operation_id)
      BY <1>3 DEF AnswerFollows
    <2>1. PolicyEvaluate(chain[link], asked, now) = "OK"
      BY <1>3 DEF Allowed
    <2> HIDE DEF asked
    <2> QED
      BY <1>2, <2>1, OkIsServed
  <1>5. answer'.ring \in Int
    BY <1>1, <1>3 DEF PolicyRequest
  <1> QED
    BY <1>3, <1>4, <1>5 DEF ChainInv, ChainTypeOK, ChainValid, ChainNarrows

LEMMA ChainInvNext == ChainInv /\ [ChainNext]_chainVars => ChainInv'
  <1> SUFFICES ASSUME ChainInv, [ChainNext]_chainVars PROVE ChainInv'
    OBVIOUS
  <1> USE DEF ChainInv, ChainTypeOK, ChainValid, ChainNarrows, AnswerFollows, Allowed
  <1>1. CASE \E cap \in Candidates : Issue(cap)
    BY <1>1, IssueKeeps
  <1>2. CASE \E cap \in Candidates : Delegate(cap)
    BY <1>2, DelegateKeeps
  <1>3. CASE \E link \in DOMAIN chain : Revoke(link)
    BY <1>3 DEF Revoke, NoAnswer, Kernel
  <1>4. CASE Tick
    BY <1>4 DEF Tick, NoAnswer, Kernel
  <1>5. CASE \E link \in DOMAIN chain, request \in Requests : Evaluate(link, request)
    BY <1>5, EvaluateKeeps
  <1>6. CASE UNCHANGED chainVars
    BY <1>6 DEF chainVars
  <1> QED
    BY <1>1, <1>2, <1>3, <1>4, <1>5, <1>6 DEF ChainNext

LEMMA ChainInvariance == ChainSpec => []ChainInv
  BY ChainInvInit, ChainInvNext, PTL DEF ChainSpec

(* However long the chain, what a link serves every link before it could   *)
(* have served, except to the fabric by a range that starts with it and    *)
(* ends with an ordinary ring.                                             *)
THEOREM DelegationOnlyNarrows == ChainSpec => []DelegationNarrows
  <1>1. ASSUME ChainInv PROVE DelegationNarrows
    <2> DEFINE StartsWithFabric ==
                 answer.ring = Fabric /\ chain[answer.link].maximum_ring <= Application
    <2> SUFFICES ASSUME Allowed, NEW link \in 1 .. answer.link
                 PROVE  /\ RingInRange(answer.ring, chain[link]) \/ StartsWithFabric
                        /\ chain[link].target_handle = answer.target_handle
                        /\ AllowsOperation(chain[link], answer.operation_id)
      BY DEF DelegationNarrows
    <2> DEFINE last == answer.link
    <2>1. /\ last \in DOMAIN chain
          /\ RingInRange(answer.ring, chain[last])
          /\ chain[last].target_handle = answer.target_handle
          /\ AllowsOperation(chain[last], answer.operation_id)
      BY <1>1 DEF ChainInv, AnswerFollows
    <2>2. CASE link = last
      BY <2>1, <2>2
    <2>3. CASE link # last
      <3>1. /\ DOMAIN chain = 1 .. Len(chain) /\ Len(chain) \in Nat
            /\ \A i \in DOMAIN chain : chain[i] \in CapabilityRecord
            /\ answer.ring \in Int
        BY <1>1, ChainAssumption DEF ChainInv, ChainTypeOK
      <3>2. link \in DOMAIN chain /\ link < last
        BY <2>1, <2>3, <3>1
      <3>3. /\ Narrower(chain[link], chain[last])
            /\ ~UsesSupervisorAuthority(chain[link]) /\ ~UsesSupervisorAuthority(chain[last])
            /\ RingRangeValid(chain[link]) /\ RingRangeValid(chain[last])
        BY <1>1, <2>1, <3>2 DEF ChainInv, ChainNarrows, ChainValid
      <3>4. RingInRange(answer.ring, chain[link]) \/ StartsWithFabric
        <4>1. CASE answer.ring # Fabric
          BY <2>1, <3>1, <3>2, <3>3, <4>1, RangeWidensUpTheChain
        <4>2. CASE answer.ring = Fabric
          BY <2>1, <3>1, <3>2, <3>3, <4>2, FabricComesFromFabric
        <4> QED
          BY <4>1, <4>2
      <3>5. AllowsOperation(chain[link], answer.operation_id)
        BY <2>1, <3>3 DEF Narrower, AllowsOperation
      <3> QED
        BY <2>1, <3>3, <3>4, <3>5 DEF Narrower
    <2> QED
      BY <2>2, <2>3
  <1> QED
    BY ChainInvariance, <1>1, PTL

LEMMA DenialHasReason ==
    ASSUME NEW cap, NEW request, NEW t
    PROVE  /\ PolicyEvaluate(cap, request, t) = "REVOKED" => request.revoked
           /\ PolicyEvaluate(cap, request, t) = "EXPIRED" => Expired(cap, t)
  BY DEF PolicyEvaluate, RecordValidate

(* Revocation and expiry are final, along every behaviour: the set of      *)
(* revoked links and the clock only grow.                                  *)
THEOREM DenialStays == ChainSpec => DenialIsFinal
  <1> DEFINE Status(link, request, r, t) ==
                 PolicyEvaluate(chain[link], [request EXCEPT !.revoked = link \in r], t)
             Final ==
                 \A link \in DOMAIN chain, request \in Requests :
                     Status(link, request, revoked, now) \in {"REVOKED", "EXPIRED"}
                         => Status(link, request, revoked', now') # "OK"
  <1>1. ASSUME ChainInv, [ChainNext]_chainVars PROVE [Final]_<<revoked, now>>
    <2>1. revoked \subseteq revoked' /\ now \in Nat /\ now' \in Nat /\ now <= now'
      <3>1. ASSUME NEW link, NEW request, Evaluate(link, request)
            PROVE  revoked' = revoked /\ now' = now
        BY <3>1, Zenon DEF Evaluate
      <3>2. now \in Nat
        BY <1>1 DEF ChainInv, ChainTypeOK
      <3> QED
        BY <1>1, <3>1, <3>2 DEF ChainNext, chainVars, Issue, Delegate, Revoke, Tick
    <2>2. ASSUME NEW link \in DOMAIN chain, NEW request \in Requests,
                 Status(link, request, revoked, now) \in {"REVOKED", "EXPIRED"},
                 Status(link, request, revoked', now') = "OK"
          PROVE  FALSE
      <3> DEFINE before == [request EXCEPT !.revoked = link \in revoked]
                 after  == [request EXCEPT !.revoked = link \in revoked']
      <3>1. before.revoked = (link \in revoked) /\ after.revoked = (link \in revoked')
        BY <2>2, ChainAssumption DEF PolicyRequest
      <3>2. chain[link].expiration \in Nat
        BY <1>1, <2>2, ChainAssumption DEF ChainInv, ChainTypeOK, CapabilityRecord
      <3>3. before.revoked \/ Expired(chain[link], now)
        <4> HIDE DEF before
        <4>1. PolicyEvaluate(chain[link], before, now) \in {"REVOKED", "EXPIRED"}
          BY <2>2 DEF before
        <4> QED
          BY <4>1, DenialHasReason
      <3>4. ~after.revoked /\ ~Expired(chain[link], now')
        <4> HIDE DEF after
        <4>1. PolicyEvaluate(chain[link], after, now') = "OK"
          BY <2>2 DEF after
        <4> QED
          BY <4>1, OkIsServed
      <3>5. Expired(chain[link], now) => Expired(chain[link], now')
        BY <2>1, <3>2 DEF Expired
      <3> QED
        BY <2>1, <3>1, <3>3, <3>4, <3>5
    <2> QED
      BY <2>2
  <1> QED
    BY ChainInvariance, <1>1, PTL DEF ChainSpec, DenialIsFinal

------------------------------------------------------------------------------
(***************************************************************************)
(* The evaluator's table.                                                  *)
(***************************************************************************)

EvaluatorTypeOK ==
    /\ table \in Seq(Records)
    /\ decided.ring \in Int

ServedThroughRecord ==
    Served =>
        /\ decided.outcome.matched \in DOMAIN table
        /\ RingAllows(decided.ring, table[decided.outcome.matched])

EvaluatorInv == EvaluatorTypeOK /\ ServedThroughRecord

(* The search returns the index of a record, or 0.                         *)
LEMMA FirstMatchIsAnIndex ==
    ASSUME NEW records \in Seq(CapabilityRecord), NEW ask, FirstMatch(records, ask) # 0
    PROVE  FirstMatch(records, ask) \in DOMAIN records
  <1> DEFINE I == {i \in 1 .. Len(records) : Matches(records[i], ask)}
  <1>1. FirstMatch(records, ask) = IF I # {} THEN Min(I) ELSE 0
    BY DEF FirstMatch, SelectInSeq
  <1>2. I \in SUBSET Nat /\ I # {}
    BY <1>1
  <1>3. Min(I) \in I
    <2> HIDE DEF I
    <2> QED
      BY <1>2, MinIsLeast
  <1> QED
    BY <1>1, <1>2, <1>3

(* ring_allows and ring_in_capability_range on a record the policy         *)
(* accepts.                                                                *)
LEMMA AllowsIsInRange ==
    ASSUME NEW cap \in CapabilityRecord, RecordValidate(cap) = "OK",
           NEW r \in Int, RingAllows(r, cap)
    PROVE  \/ RingInRange(r, cap) /\ r # Quarantined
           \/ r = Supervisor /\ cap.minimum_ring = WireFabric
  <1>1. /\ cap.minimum_ring \in Nat /\ cap.maximum_ring \in Nat
        /\ RingRangeValid(cap)
    BY RecordWires DEF RecordValidate
  <1>2. r # Supervisor => RingToWire(r) # WireSupervisor
    BY WireNumbers, SMT DEF RingToWire, Supervisor, Fabric, Kernel, Quarantined, Application
  <1>3. RingToWire(Quarantined) = Quarantined
    BY DEF RingToWire, Supervisor, Fabric, Kernel, Quarantined
  <1>4. Quarantined > Application
    BY DEF Quarantined, Application
  <1>5. CASE cap.minimum_ring = WireSupervisor
    BY <1>2, <1>3, <1>4, <1>5, WireNumbers DEF RingAllows, RingInRange, Quarantined
  <1>6. CASE cap.minimum_ring = WireFabric
    BY <1>2, <1>3, <1>4, <1>6, WireNumbers DEF RingAllows, RingInRange, Quarantined
  <1>7. CASE cap.minimum_ring \notin {WireSupervisor, WireFabric}
    <2>1. RingInRange(r, cap)
      BY <1>7 DEF RingAllows, RingInRange
    <2>2. RingToWire(r) <= Application
      BY <1>1, <1>7 DEF RingAllows, RingRangeValid, Application
    <2> QED
      BY <1>3, <1>4, <2>1, <2>2 DEF Quarantined, Application
  <1> QED
    BY <1>5, <1>6, <1>7

LEMMA DecideKeeps ==
    ASSUME EvaluatorInv, NEW ask \in Asks, Decide(ask)
    PROVE  EvaluatorInv'
  <1> DEFINE outcome == EvaluateTable(table, ask, trust)
             matched == FirstMatch(table, ask)
  <1>1. /\ decided'.ring = ask.ring /\ decided'.outcome = outcome
        /\ table' = table /\ ask.ring \in Int
    BY EvaluatorAssumption DEF Decide
  <1>2. ASSUME outcome.decision \in {"ALLOW", "RECOVERY_ONLY"}
        PROVE  matched # 0 /\ outcome.matched = matched /\ RingAllows(ask.ring, table[matched])
    BY <1>2 DEF EvaluateTable, Outcome
  <1>3. table \in Seq(CapabilityRecord)
    BY EvaluatorAssumption DEF EvaluatorInv, EvaluatorTypeOK
  <1>4. matched # 0 => matched \in DOMAIN table
    BY <1>3, FirstMatchIsAnIndex
  <1> HIDE DEF outcome, matched
  <1> QED
    BY <1>1, <1>2, <1>4 DEF EvaluatorInv, EvaluatorTypeOK, ServedThroughRecord, Served

LEMMA EvaluatorInvariance == EvaluatorSpec => []EvaluatorInv
  <1> USE DEF EvaluatorInv, EvaluatorTypeOK, ServedThroughRecord, Served
  <1>1. EvaluatorInit => EvaluatorInv
    BY DEF EvaluatorInit, Undecided, Outcome, Kernel
  <1>2. EvaluatorInv /\ [EvaluatorNext]_evaluatorVars => EvaluatorInv'
    <2> SUFFICES ASSUME EvaluatorInv, [EvaluatorNext]_evaluatorVars PROVE EvaluatorInv'
      OBVIOUS
    <2>1. CASE \E cap \in Records : Publish(cap)
      BY <2>1 DEF Publish, Undecided, Outcome, Kernel
    <2>2. CASE \E level \in TrustLevels : SetTrust(level)
      BY <2>2 DEF SetTrust, Undecided, Outcome, Kernel
    <2>3. CASE \E ask \in Asks : Decide(ask)
      BY <2>3, DecideKeeps
    <2>4. CASE UNCHANGED evaluatorVars
      BY <2>4 DEF evaluatorVars
    <2> QED
      BY <2>1, <2>2, <2>3, <2>4 DEF EvaluatorNext
  <1> QED
    BY <1>1, <1>2, PTL DEF EvaluatorSpec

(* Whoever the evaluator serves through a record the policy accepts is in  *)
(* the policy's range, for any table and any request.                      *)
THEOREM EvaluatorStaysWithinPolicy == EvaluatorSpec => []EvaluatorWithinPolicyRange
  <1>1. ASSUME EvaluatorInv PROVE EvaluatorWithinPolicyRange
    <2> SUFFICES ASSUME Served, RecordValidate(table[decided.outcome.matched]) = "OK"
                 PROVE  LET cap == table[decided.outcome.matched]
                        IN  \/ RingInRange(decided.ring, cap) /\ decided.ring # Quarantined
                            \/ decided.ring = Supervisor /\ cap.minimum_ring = WireFabric
      BY DEF EvaluatorWithinPolicyRange
    <2>1. /\ table[decided.outcome.matched] \in CapabilityRecord
          /\ RingAllows(decided.ring, table[decided.outcome.matched])
          /\ decided.ring \in Int
      BY <1>1, EvaluatorAssumption DEF EvaluatorInv, EvaluatorTypeOK, ServedThroughRecord
    <2> QED
      BY <2>1, AllowsIsInRange
  <1> QED
    BY EvaluatorInvariance, <1>1, PTL

==============================================================================
