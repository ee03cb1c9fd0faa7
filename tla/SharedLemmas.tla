----------------------------- MODULE SharedLemmas -----------------------------
(***************************************************************************)
(* Facts the proofs of several components rest on: what a search for the   *)
(* first index returns, induction over an initial segment of the naturals  *)
(* stated for sets, running totals of lengths, which is how the records of *)
(* a block or an image are laid out one behind the other, and that         *)
(* functions defined by recursion over the naturals exist.                 *)
(***************************************************************************)
EXTENDS Integers, Sequences, SequencesExt, FiniteSetsExt, TLAPS, WellFoundedInduction

(* A nonempty set of naturals has a least element.                         *)
LEMMA LeastNatural ==
    ASSUME NEW S \in SUBSET Nat, S # {}
    PROVE  \E least \in S : \A n \in S : least <= n
  <1>1. PICK least \in S : \A n \in S : ~(<<n, least>> \in OpToRel(<, Nat))
    BY NatLessThanWellFounded, WFMin
  <1>2. \A n \in S : ~(n < least)
    BY <1>1 DEF OpToRel
  <1>3. \A n \in S : least <= n
    BY <1>2
  <1> QED
    BY <1>3

(* Min is that element.                                                    *)
LEMMA MinIsLeast ==
    ASSUME NEW S \in SUBSET Nat, S # {}
    PROVE  Min(S) \in S /\ \A n \in S : Min(S) <= n
  BY LeastNatural DEF Min

(* A set that has 0 and with every number below n the next has 0 .. n.     *)
LEMMA SetInduction ==
    ASSUME NEW n \in Nat, NEW S, 0 \in S, \A k \in 0 .. n - 1 : k \in S => k + 1 \in S
    PROVE  \A k \in 0 .. n : k \in S
  <1> DEFINE Missing == {k \in 0 .. n : k \notin S}
  <1> SUFFICES ASSUME Missing # {} PROVE FALSE
    OBVIOUS
  <1>1. Missing \in SUBSET Nat
    OBVIOUS
  <1>2. PICK least \in Missing : \A k \in Missing : least <= k
    BY <1>1, LeastNatural
  <1>3. least # 0 /\ least \in 0 .. n /\ least \notin S
    BY <1>2
  <1>4. least - 1 \in 0 .. n - 1 /\ least - 1 \notin Missing
    BY <1>2, <1>3
  <1>5. least - 1 \in S /\ (least - 1) + 1 = least
    BY <1>3, <1>4
  <1> QED
    BY <1>3, <1>4, <1>5

(* f is the running total of the lengths L, from start on.                 *)
IsTotal(f, n, start, L) ==
    f = [i \in 0 .. n |-> IF i = 0 THEN start ELSE f[i - 1] + L[i]]

LEMMA TotalExists ==
    ASSUME NEW n \in Nat, NEW start, NEW L
    PROVE  \E f : IsTotal(f, n, start, L)
  <1> DEFINE S == {k \in 0 .. n : \E f : IsTotal(f, k, start, L)}
  <1>1. 0 \in S
    <2> DEFINE f == [i \in 0 .. 0 |-> start]
    <2>1. IsTotal(f, 0, start, L)
      BY DEF IsTotal
    <2> QED
      BY <2>1
  <1>2. ASSUME NEW k \in 0 .. n - 1, k \in S PROVE k + 1 \in S
    <2>1. PICK g : IsTotal(g, k, start, L)
      BY <1>2
    <2> DEFINE f == [i \in 0 .. k + 1 |-> IF i = k + 1 THEN g[k] + L[k + 1] ELSE g[i]]
               h == [i \in 0 .. k + 1 |-> IF i = 0 THEN start ELSE f[i - 1] + L[i]]
    <2>2. \A i \in 0 .. k : g[i] = IF i = 0 THEN start ELSE g[i - 1] + L[i]
      BY <2>1, Zenon DEF IsTotal
    <2>3. ASSUME NEW i \in 0 .. k + 1 PROVE f[i] = h[i]
      <3>1. CASE i = k + 1
        <4>1. i # 0 /\ i - 1 = k /\ k \in 0 .. k + 1 /\ k # k + 1
          BY <1>2, <3>1
        <4>2. f[k] = g[k]
          BY <4>1
        <4> QED
          BY <3>1, <4>1, <4>2
      <3>2. CASE i = 0
        <4>1. 0 # k + 1 /\ 0 \in 0 .. k
          BY <1>2
        <4> QED
          BY <2>2, <3>2, <4>1
      <3>3. CASE i # 0 /\ i # k + 1
        <4>1. i \in 0 .. k /\ i - 1 \in 0 .. k + 1 /\ i - 1 # k + 1
          BY <1>2, <2>3, <3>3
        <4>2. f[i - 1] = g[i - 1] /\ f[i] = g[i]
          BY <3>3, <4>1
        <4> QED
          BY <2>2, <3>3, <4>1, <4>2
      <3> QED
        BY <3>1, <3>2, <3>3
    <2>4. f = h
      BY <2>3
    <2>5. IsTotal(f, k + 1, start, L)
      BY <2>4 DEF IsTotal
    <2>6. k + 1 \in 0 .. n
      BY <1>2
    <2> HIDE DEF f
    <2> QED
      BY <2>5, <2>6
  <1> HIDE DEF S
  <1>3. \A k \in 0 .. n : k \in S
    BY <1>1, <1>2, SetInduction
  <1> QED
    BY <1>3 DEF S

(* Totals of natural lengths are naturals and grow.                        *)
LEMMA TotalSteps ==
    ASSUME NEW n \in Nat, NEW start \in Nat, NEW L, \A i \in 1 .. n : L[i] \in Nat,
           NEW f, IsTotal(f, n, start, L)
    PROVE  /\ f[0] = start
           /\ \A i \in 0 .. n : f[i] \in Nat
           /\ \A i \in 1 .. n : f[i] = f[i - 1] + L[i]
  <1> DEFINE S == {k \in 0 .. n : f[k] \in Nat}
  <1>1. \A i \in 0 .. n : f[i] = IF i = 0 THEN start ELSE f[i - 1] + L[i]
    BY Zenon DEF IsTotal
  <1>2. 0 \in S /\ f[0] = start
    BY <1>1
  <1>3. \A i \in 1 .. n : f[i] = f[i - 1] + L[i]
    BY <1>1
  <1>4. ASSUME NEW k \in 0 .. n - 1, k \in S PROVE k + 1 \in S
    BY <1>3, <1>4
  <1> HIDE DEF S
  <1>5. \A k \in 0 .. n : k \in S
    BY <1>2, <1>4, SetInduction
  <1> QED
    BY <1>2, <1>3, <1>5 DEF S

LEMMA TotalGrows ==
    ASSUME NEW n \in Nat, NEW start \in Nat, NEW L, \A i \in 1 .. n : L[i] \in Nat,
           NEW f, IsTotal(f, n, start, L), NEW i \in 0 .. n, NEW j \in i .. n
    PROVE  f[i] <= f[j]
  <1> DEFINE S == {k \in 0 .. n : i <= k => f[i] <= f[k]}
  <1>1. /\ \A k \in 0 .. n : f[k] \in Nat
        /\ \A k \in 1 .. n : f[k] = f[k - 1] + L[k]
    BY TotalSteps
  <1>2. 0 \in S
    BY <1>1
  <1>3. ASSUME NEW k \in 0 .. n - 1, k \in S PROVE k + 1 \in S
    <2>1. k \in 0 .. n /\ k + 1 \in 1 .. n /\ (k + 1) - 1 = k
      BY <1>3
    <2>2. f[k + 1] = f[k] + L[k + 1] /\ L[k + 1] \in Nat /\ f[k] \in Nat /\ f[i] \in Nat
      BY <1>1, <2>1
    <2> QED
      BY <1>3, <2>1, <2>2
  <1> HIDE DEF S
  <1>4. \A k \in 0 .. n : k \in S
    BY <1>2, <1>3, SetInduction
  <1> QED
    BY <1>4 DEF S

(* f starts with start and gets its values one from the other by G.        *)
Iterates(f, D, start, G) == f = [i \in D |-> IF i = 0 THEN start ELSE G[i][f[i - 1]]]

LEMMA SegmentIterates ==
    ASSUME NEW n \in Nat, NEW start, NEW G
    PROVE  \E f : Iterates(f, 0 .. n, start, G)
  <1> DEFINE S == {k \in 0 .. n : \E f : Iterates(f, 0 .. k, start, G)}
  <1>1. 0 \in S
    <2> DEFINE f == [i \in 0 .. 0 |-> start]
    <2>1. Iterates(f, 0 .. 0, start, G)
      BY DEF Iterates
    <2> QED
      BY <2>1
  <1>2. ASSUME NEW k \in 0 .. n - 1, k \in S PROVE k + 1 \in S
    <2>1. PICK g : Iterates(g, 0 .. k, start, G)
      BY <1>2
    <2> DEFINE f == [i \in 0 .. k + 1 |-> IF i = k + 1 THEN G[k + 1][g[k]] ELSE g[i]]
               h == [i \in 0 .. k + 1 |-> IF i = 0 THEN start ELSE G[i][f[i - 1]]]
    <2>2. \A i \in 0 .. k : g[i] = IF i = 0 THEN start ELSE G[i][g[i - 1]]
      BY <2>1, Zenon DEF Iterates
    <2>3. ASSUME NEW i \in 0 .. k + 1 PROVE f[i] = h[i]
      <3>1. CASE i = k + 1
        <4>1. i # 0 /\ i - 1 = k /\ k \in 0 .. k + 1 /\ k # k + 1
          BY <1>2, <3>1
        <4>2. f[k] = g[k]
          BY <4>1
        <4> QED
          BY <3>1, <4>1, <4>2
      <3>2. CASE i = 0
        <4>1. 0 # k + 1 /\ 0 \in 0 .. k
          BY <1>2
        <4> QED
          BY <2>2, <3>2, <4>1
      <3>3. CASE i # 0 /\ i # k + 1
        <4>1. i \in 0 .. k /\ i - 1 \in 0 .. k + 1 /\ i - 1 # k + 1
          BY <1>2, <2>3, <3>3
        <4>2. f[i - 1] = g[i - 1] /\ f[i] = g[i]
          BY <3>3, <4>1
        <4> QED
          BY <2>2, <3>3, <4>1, <4>2
      <3> QED
        BY <3>1, <3>2, <3>3
    <2>4. f = h
      BY <2>3
    <2>5. Iterates(f, 0 .. k + 1, start, G)
      BY <2>4 DEF Iterates
    <2>6. k + 1 \in 0 .. n
      BY <1>2
    <2> HIDE DEF f
    <2> QED
      BY <2>5, <2>6
  <1> HIDE DEF S
  <1>3. \A k \in 0 .. n : k \in S
    BY <1>1, <1>2, SetInduction
  <1>4. n \in S
    BY <1>3
  <1> QED
    BY <1>4 DEF S

LEMMA SegmentsAgree ==
    ASSUME NEW start, NEW G, NEW n \in Nat, NEW m \in Nat, n <= m,
           NEW f, Iterates(f, 0 .. n, start, G), NEW g, Iterates(g, 0 .. m, start, G)
    PROVE  f[n] = g[n]
  <1> DEFINE S == {k \in 0 .. n : f[k] = g[k]}
  <1>1. /\ \A i \in 0 .. n : f[i] = IF i = 0 THEN start ELSE G[i][f[i - 1]]
        /\ \A i \in 0 .. m : g[i] = IF i = 0 THEN start ELSE G[i][g[i - 1]]
    BY Zenon DEF Iterates
  <1>2. 0 \in S
    BY <1>1
  <1>3. ASSUME NEW k \in 0 .. n - 1, k \in S PROVE k + 1 \in S
    <2>1. k + 1 \in 0 .. n /\ k + 1 \in 0 .. m /\ k + 1 # 0 /\ (k + 1) - 1 = k
      BY <1>3
    <2> QED
      BY <1>1, <1>3, <2>1
  <1> HIDE DEF S
  <1>4. \A k \in 0 .. n : k \in S
    BY <1>2, <1>3, SetInduction
  <1>5. n \in S
    BY <1>4
  <1> QED
    BY <1>5 DEF S

(* A function defined by recursion over the naturals exists.               *)
LEMMA IterationExists ==
    ASSUME NEW start, NEW G
    PROVE  \E f : Iterates(f, Nat, start, G)
  <1> DEFINE Segment(n) == CHOOSE f : Iterates(f, 0 .. n, start, G)
             F == [n \in Nat |-> Segment(n)[n]]
             H == [n \in Nat |-> IF n = 0 THEN start ELSE G[n][F[n - 1]]]
  <1>1. \A n \in Nat : Iterates(Segment(n), 0 .. n, start, G)
    BY SegmentIterates
  <1> HIDE DEF Segment
  <1>2. ASSUME NEW n \in Nat PROVE F[n] = H[n]
    <2> DEFINE f == Segment(n)
    <2>1. Iterates(f, 0 .. n, start, G)
      BY <1>1
    <2>2. \A i \in 0 .. n : f[i] = IF i = 0 THEN start ELSE G[i][f[i - 1]]
      BY <2>1, Zenon DEF Iterates
    <2>3. CASE n = 0
      BY <2>2, <2>3
    <2>4. CASE n # 0
      <3>1. n - 1 \in Nat /\ n - 1 <= n
        BY <2>4
      <3>2. Iterates(Segment(n - 1), 0 .. n - 1, start, G)
        BY <1>1, <3>1
      <3>3. Segment(n - 1)[n - 1] = f[n - 1]
        BY <2>1, <3>1, <3>2, SegmentsAgree
      <3>4. F[n - 1] = f[n - 1] /\ F[n] = f[n]
        BY <3>1, <3>3
      <3> QED
        BY <2>2, <2>4, <3>4
    <2> QED
      BY <2>3, <2>4
  <1>3. F = H
    BY <1>2
  <1>4. Iterates(F, Nat, start, G)
    BY <1>3 DEF Iterates
  <1> HIDE DEF F
  <1> QED
    BY <1>4
==============================================================================
