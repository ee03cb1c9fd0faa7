--------------------------- MODULE ProbeCoreProofs ---------------------------
(***************************************************************************)
(* What the comparator and the stepper compute, for any number of lanes,   *)
(* fingerprints and addresses.                                             *)
(***************************************************************************)
EXTENDS ProbeCore, SharedLemmas

(* The priority encoder of atx_simd_probe_core.v: on a hit it reports a    *)
(* lane that holds the fingerprint, and no lower lane does.                *)
LEMMA SimdMatchIsLowest ==
    ASSUME ProbeCoreAssumption, NEW group \in Group, NEW h2 \in Fingerprint
    PROVE  /\ SimdMatchOffset(group, h2) \in Lane
           /\ SimdHit(group, h2) =>
                /\ Holds(group[SimdMatchOffset(group, h2)], h2)
                /\ \A lower \in 0 .. SimdMatchOffset(group, h2) - 1 :
                      ~Holds(group[lower], h2)
  <1>1. CASE ~SimdHit(group, h2)
    BY <1>1, ProbeCoreAssumption DEF SimdMatchOffset, Lane
  <1>2. CASE SimdHit(group, h2)
    <2> DEFINE M == LaneMatches(group, h2)
    <2>1. M \in SUBSET Nat /\ M # {} /\ M \in SUBSET Lane
      BY <1>2 DEF LaneMatches, SimdHit, Lane
    <2>2. \E i \in M : \A j \in M : i <= j
      BY <2>1, LeastNatural
    <2>3. /\ SimdMatchOffset(group, h2) \in M
          /\ \A j \in M : SimdMatchOffset(group, h2) <= j
      BY <1>2, <2>2 DEF SimdMatchOffset
    <2>4. Holds(group[SimdMatchOffset(group, h2)], h2)
      BY <2>3 DEF LaneMatches
    <2>5. ASSUME NEW lower \in 0 .. SimdMatchOffset(group, h2) - 1
          PROVE  ~Holds(group[lower], h2)
      <3>1. lower \in Lane /\ ~(SimdMatchOffset(group, h2) <= lower)
        BY <2>1, <2>3, <2>5, ProbeCoreAssumption DEF Lane
      <3>2. lower \notin M
        BY <2>3, <3>1
      <3> QED
        BY <3>1, <3>2 DEF LaneMatches
    <2> QED
      BY <2>1, <2>3, <2>4, <2>5
  <1> QED
    BY <1>1, <1>2

(* A lane that holds the fingerprint while no lower one does is the lane   *)
(* the priority encoder reports.                                           *)
LEMMA LowestIsSimdMatch ==
    ASSUME ProbeCoreAssumption, NEW group \in Group, NEW h2 \in Fingerprint,
           NEW l \in Lane, Holds(group[l], h2),
           \A lower \in 0 .. l - 1 : ~Holds(group[lower], h2)
    PROVE  SimdHit(group, h2) /\ SimdMatchOffset(group, h2) = l
  <1>1. SimdHit(group, h2)
    BY DEF SimdHit, LaneMatches
  <1> DEFINE m == SimdMatchOffset(group, h2)
  <1>2. /\ m \in Lane
        /\ Holds(group[m], h2)
        /\ \A lower \in 0 .. m - 1 : ~Holds(group[lower], h2)
    BY <1>1, SimdMatchIsLowest
  <1> HIDE DEF m
  <1>3. ~(m < l) /\ ~(l < m)
    BY <1>2, ProbeCoreAssumption DEF Lane
  <1>4. m = l
    BY <1>2, <1>3, ProbeCoreAssumption DEF Lane
  <1> QED
    BY <1>1, <1>4 DEF m

(* A remainder is below its modulus.                                       *)
LEMMA RemainderInRange ==
    ASSUME NEW n \in Nat, NEW m \in Nat \ {0}
    PROVE  n % m \in 0 .. m - 1
  OBVIOUS

(* The triangular step is a natural number, so the stepper stays within    *)
(* the address space.                                                      *)
LEMMA NextBaseIsAddr ==
    ASSUME ProbeCoreAssumption, NEW base \in Addr, NEW attempt \in Nat
    PROVE  NextBase(base, attempt) \in Addr
  <1>1. attempt * attempt \in Nat
    OBVIOUS
  <1> DEFINE square == attempt * attempt
  <1>2. square \in Nat
    BY <1>1
  <1> HIDE DEF square
  <1>3. (square + attempt) \div 2 \in Nat
    BY <1>2
  <1>4. NonLinearOffset(attempt) \in Nat
    BY <1>3 DEF NonLinearOffset, square
  <1>5. base + NonLinearOffset(attempt) \in Nat
    BY <1>4, ProbeCoreAssumption DEF Addr
  <1> QED
    BY <1>5, RemainderInRange, ProbeCoreAssumption DEF NextBase, Addr

==============================================================================
