--------------------------- MODULE DiscoveryProofs ---------------------------
(***************************************************************************)
(* The results about discovery, for any cards, table capacities and limit  *)
(* of the validator's copy.  The database keeps its handles apart          *)
(* (DatabaseInv); what is known of the last card scanned is what a parse   *)
(* leaves behind (ScanInv).                                                *)
(***************************************************************************)
EXTENDS DiscoveryScan, SharedLemmas

------------------------------------------------------------------------------
(***************************************************************************)
(* Offsets of records.                                                     *)
(***************************************************************************)

Records == Seq(DiscoveryRecord)

Lengths(records) == [i \in 1 .. Len(records) |-> records[i].length]

LEMMA RecordFields ==
    ASSUME NEW records \in Records
    PROVE  /\ Len(records) \in Nat /\ DOMAIN records = 1 .. Len(records)
           /\ \A i \in 1 .. Len(records) : records[i] \in DiscoveryRecord
           /\ \A i \in 1 .. Len(records) :
                  Lengths(records)[i] = records[i].length /\ records[i].length \in Nat
  <1>1. /\ Len(records) \in Nat /\ DOMAIN records = 1 .. Len(records)
        /\ \A i \in 1 .. Len(records) : records[i] \in DiscoveryRecord
    BY DEF Records
  <1>2. \A i \in 1 .. Len(records) : records[i].length \in Nat
    BY <1>1 DEF DiscoveryRecord
  <1> QED
    BY <1>1, <1>2 DEF Lengths

LEMMA OffsetIsTotal ==
    ASSUME NEW records \in Records
    PROVE  IsTotal(OffsetOf(records), Len(records), HeaderSize, Lengths(records))
  <1> DEFINE n == Len(records)
             Rule(f) == [i \in 0 .. n |-> IF i = 0 THEN HeaderSize ELSE f[i - 1] + records[i].length]
  <1>1. n \in Nat /\ \A i \in 1 .. n : Lengths(records)[i] = records[i].length
    BY RecordFields
  <1>2. ASSUME NEW f
        PROVE  Rule(f) = [i \in 0 .. n |-> IF i = 0 THEN HeaderSize ELSE f[i - 1] + Lengths(records)[i]]
    <2>1. \A i \in 0 .. n : i # 0 => i \in 1 .. n
      BY <1>1
    <2> HIDE DEF n
    <2> QED
      BY <1>1, <2>1
  <1>3. \E f : f = Rule(f)
    <2>1. PICK f : IsTotal(f, n, HeaderSize, Lengths(records))
      BY <1>1, TotalExists
    <2>2. f = Rule(f)
      BY <1>2, <2>1 DEF IsTotal
    <2> QED
      BY <2>2
  <1>4. OffsetOf(records) = CHOOSE f : f = Rule(f)
    BY DEF OffsetOf
  <1>5. OffsetOf(records) = Rule(OffsetOf(records))
    <2> HIDE DEF Rule
    <2> QED
      BY <1>3, <1>4
  <1> QED
    BY <1>2, <1>5 DEF IsTotal

LEMMA OffsetFacts ==
    ASSUME NEW records \in Records
    PROVE  /\ OffsetOf(records)[0] = HeaderSize
           /\ \A i \in 0 .. Len(records) : OffsetOf(records)[i] \in Nat
           /\ \A i \in 1 .. Len(records) :
                 OffsetOf(records)[i] = OffsetOf(records)[i - 1] + records[i].length
           /\ \A i \in 0 .. Len(records) : \A j \in i .. Len(records) :
                 OffsetOf(records)[i] <= OffsetOf(records)[j]
  <1> DEFINE n == Len(records)
             L == Lengths(records)
             o == OffsetOf(records)
  <1>1. n \in Nat /\ (\A i \in 1 .. n : L[i] = records[i].length) /\ \A i \in 1 .. n : L[i] \in Nat
    BY RecordFields
  <1>2. IsTotal(o, n, HeaderSize, L) /\ HeaderSize \in Nat
    BY OffsetIsTotal DEF HeaderSize
  <1> HIDE DEF n, L, o
  <1>3. /\ o[0] = HeaderSize
        /\ \A i \in 0 .. n : o[i] \in Nat
        /\ \A i \in 1 .. n : o[i] = o[i - 1] + L[i]
    BY <1>1, <1>2, TotalSteps
  <1>4. \A i \in 0 .. n : \A j \in i .. n : o[i] <= o[j]
    BY <1>1, <1>2, TotalGrows
  <1> QED
    BY <1>1, <1>3, <1>4 DEF n, o

LEMMA AlignedSum ==
    ASSUME NEW x \in Nat, NEW y \in Nat, Aligned(x), Aligned(y)
    PROVE  Aligned(x + y)
  BY DEF Aligned

------------------------------------------------------------------------------
(***************************************************************************)
(* The database.                                                           *)
(***************************************************************************)

Entry    == [handle : Handles, other : Handles]
Database == [Tables -> Seq(Entry)]

Names(d, table, handle) == \E i \in 1 .. Len(d[table]) : d[table][i].handle = handle

(* HandlesUnique of any database.                                          *)
Unique(d) ==
    \A s, t \in Owners : \A i \in DOMAIN d[s], j \in DOMAIN d[t] :
        d[s][i].handle = d[t][j].handle => s = t /\ i = j

Grows(d, e) ==
    \A table \in Tables :
        /\ Len(d[table]) <= Len(e[table])
        /\ \A i \in 1 .. Len(d[table]) : e[table][i] = d[table][i]

DatabaseInv(d) == d \in Database /\ Unique(d)

LEMMA DatabaseFields ==
    ASSUME NEW d \in Database, NEW table \in Tables
    PROVE  /\ d[table] \in Seq(Entry) /\ Len(d[table]) \in Nat
           /\ DOMAIN d[table] = 1 .. Len(d[table])
  BY DEF Database

(* The look-ups find a handle where there is one.                          *)
LEMMA FindFacts ==
    ASSUME NEW d \in Database, NEW table \in Tables, NEW handle
    PROVE  Find(d[table], handle) # 0 <=> Names(d, table, handle)
  <1> DEFINE s == d[table]
             I == {i \in 1 .. Len(s) : s[i].handle = handle}
  <1>1. Find(s, handle) = IF I # {} THEN Min(I) ELSE 0
    BY DEF Find, SelectInSeq
  <1>2. I \in SUBSET Nat /\ 0 \notin I
    BY DatabaseFields
  <1>3. I # {} => Min(I) \in I
    BY <1>2, MinIsLeast
  <1>4. Find(s, handle) # 0 <=> I # {}
    BY <1>1, <1>2, <1>3
  <1> QED
    BY <1>4 DEF Names

LEMMA ContainsFacts ==
    ASSUME NEW d \in Database, NEW handle
    PROVE  ContainsHandle(d, handle) <=> \E table \in Owners : Names(d, table, handle)
  BY FindFacts DEF ContainsHandle, Owners

LEMMA GrowsIsTransitive ==
    ASSUME NEW d \in Database, NEW e \in Database, NEW f \in Database, Grows(d, e), Grows(e, f)
    PROVE  Grows(d, f)
  <1> SUFFICES ASSUME NEW table \in Tables
               PROVE  /\ Len(d[table]) <= Len(f[table])
                      /\ \A i \in 1 .. Len(d[table]) : f[table][i] = d[table][i]
    BY DEF Grows
  <1>1. Len(d[table]) \in Nat /\ Len(e[table]) \in Nat /\ Len(f[table]) \in Nat
    BY DatabaseFields
  <1>2. /\ Len(d[table]) <= Len(e[table]) /\ Len(e[table]) <= Len(f[table])
        /\ \A i \in 1 .. Len(d[table]) : e[table][i] = d[table][i]
        /\ \A i \in 1 .. Len(e[table]) : f[table][i] = e[table][i]
    BY DEF Grows
  <1> QED
    BY <1>1, <1>2

LEMMA GrowsKeepsNames ==
    ASSUME NEW d \in Database, NEW e \in Database, Grows(d, e), NEW table \in Tables, NEW handle,
           Names(d, table, handle)
    PROVE  Names(e, table, handle)
  <1>1. PICK i \in 1 .. Len(d[table]) : d[table][i].handle = handle
    BY DEF Names
  <1>2. Len(d[table]) \in Nat /\ Len(e[table]) \in Nat
    BY DatabaseFields
  <1>3. i \in 1 .. Len(e[table]) /\ e[table][i] = d[table][i]
    BY <1>1, <1>2 DEF Grows
  <1> QED
    BY <1>1, <1>3 DEF Names

LEMMA GrowsIsPrefix ==
    ASSUME NEW d \in Database, NEW e \in Database, Grows(d, e), NEW table \in Tables
    PROVE  IsPrefix(d[table], e[table])
  <1> DEFINE s == d[table]
             t == e[table]
  <1>1. s \in Seq(Entry) /\ t \in Seq(Entry) /\ Len(s) \in Nat
    BY DatabaseFields
  <1>2. Len(s) <= Len(t) /\ \A i \in 1 .. Len(s) : t[i] = s[i]
    BY DEF Grows
  <1> HIDE DEF s, t
  <1>3. SubSeq(s, 1, Len(s)) = SubSeq(t, 1, Len(s))
    BY <1>1, <1>2
  <1> QED
    BY <1>2, <1>3 DEF IsPrefix, s, t

(* An entry behind the others, with a handle no owner has.                 *)
LEMMA AppendKeeps ==
    ASSUME NEW d, DatabaseInv(d), NEW table \in Tables, NEW entry \in Entry,
           table \in Owners => \A s \in Owners : ~Names(d, s, entry.handle)
    PROVE  LET e == [d EXCEPT ![table] = Append(@, entry)]
           IN  DatabaseInv(e) /\ Grows(d, e) /\ Names(e, table, entry.handle)
  <1> DEFINE e == [d EXCEPT ![table] = Append(@, entry)]
             n == Len(d[table])
  <1>1. d \in Database /\ Unique(d)
    BY DEF DatabaseInv
  <1>2. d[table] \in Seq(Entry) /\ n \in Nat
    BY <1>1, DatabaseFields
  <1>3. e \in Database /\ e[table] = Append(d[table], entry)
        /\ \A s \in Tables : s # table => e[s] = d[s]
    BY <1>1, <1>2 DEF Database
  <1>4. /\ Len(e[table]) = n + 1 /\ e[table][n + 1] = entry
        /\ \A i \in 1 .. n : e[table][i] = d[table][i]
    BY <1>2, <1>3
  <1> HIDE DEF e, n
  <1>5. Grows(d, e)
    <2> SUFFICES ASSUME NEW s \in Tables
                 PROVE  /\ Len(d[s]) <= Len(e[s])
                        /\ \A i \in 1 .. Len(d[s]) : e[s][i] = d[s][i]
      BY DEF Grows
    <2>1. CASE s = table
      BY <1>2, <1>4, <2>1 DEF n
    <2>2. CASE s # table
      BY <1>1, <1>3, <2>2, DatabaseFields
    <2> QED
      BY <2>1, <2>2
  <1>6. Names(e, table, entry.handle)
    <2>1. n + 1 \in 1 .. Len(e[table])
      BY <1>2, <1>4
    <2> QED
      BY <1>4, <2>1 DEF Names
  <1>7. ASSUME NEW s \in Owners, NEW i \in DOMAIN e[s]
        PROVE  \/ i \in DOMAIN d[s] /\ e[s][i] = d[s][i]
               \/ s = table /\ i = n + 1 /\ e[s][i] = entry
    <2>1. s \in Tables
      BY DEF Owners
    <2>2. CASE s = table
      <3>1. DOMAIN e[s] = 1 .. n + 1 /\ DOMAIN d[s] = 1 .. n
        BY <1>1, <1>3, <1>4, <2>1, <2>2, DatabaseFields DEF n
      <3> QED
        BY <1>2, <1>4, <1>7, <2>2, <3>1
    <2>3. CASE s # table
      BY <1>3, <1>7, <2>1, <2>3
    <2> QED
      BY <2>2, <2>3
  <1>8. ASSUME NEW s \in Owners, NEW i \in DOMAIN d[s], table \in Owners
        PROVE  d[s][i].handle # entry.handle
    <2>1. s \in Tables /\ ~Names(d, s, entry.handle)
      BY <1>8 DEF Owners
    <2> QED
      BY <1>1, <1>8, <2>1, DatabaseFields DEF Names
  <1>9. Unique(e)
    <2> SUFFICES ASSUME NEW s \in Owners, NEW t \in Owners,
                        NEW i \in DOMAIN e[s], NEW j \in DOMAIN e[t],
                        e[s][i].handle = e[t][j].handle
                 PROVE  s = t /\ i = j
      BY DEF Unique
    <2>1. \/ i \in DOMAIN d[s] /\ e[s][i] = d[s][i]
          \/ s = table /\ i = n + 1 /\ e[s][i] = entry
      BY <1>7
    <2>2. \/ j \in DOMAIN d[t] /\ e[t][j] = d[t][j]
          \/ t = table /\ j = n + 1 /\ e[t][j] = entry
      BY <1>7
    <2>3. CASE i \in DOMAIN d[s] /\ e[s][i] = d[s][i] /\ j \in DOMAIN d[t] /\ e[t][j] = d[t][j]
      BY <1>1, <2>3 DEF Unique
    <2> QED
      BY <1>8, <2>1, <2>2, <2>3
  <1> QED
    BY <1>3, <1>5, <1>6, <1>9 DEF DatabaseInv, e

ParseResults == {"OK", "DUPLICATE_HANDLE", "CAPACITY"}

(* What a parse of some records leaves behind, from the database d on.     *)
ParseInv(d, parse, records, k) ==
    /\ DatabaseInv(parse.db) /\ Grows(d, parse.db) /\ parse.result \in ParseResults
    /\ parse.result = "OK" =>
           \A i \in 1 .. k : records[i].type \in EntryTypes =>
               Names(parse.db, TableOf(records[i].type), records[i].handle)

LEMMA TableFacts ==
    ASSUME NEW type \in EntryTypes
    PROVE  TableOf(type) \in Tables
  BY DEF EntryTypes, TableOf, Tables

LEMMA GrowsIsReflexive == ASSUME NEW d \in Database PROVE Grows(d, d)
  BY DatabaseFields DEF Grows

(* Whatever the result, the handles stay apart and nothing is disturbed;   *)
(* if it is OK the record's handle is there.                               *)
LEMMA AddFacts ==
    ASSUME NEW d, DatabaseInv(d), NEW record \in DiscoveryRecord, record.type \in EntryTypes
    PROVE  LET p == Add(d, record)
           IN  /\ DatabaseInv(p.db) /\ Grows(d, p.db) /\ p.result \in ParseResults
               /\ p.result = "OK" => Names(p.db, TableOf(record.type), record.handle)
  <1> DEFINE table == TableOf(record.type)
             entry == [handle |-> record.handle, other |-> record.other]
             p == Add(d, record)
             taken == table # "dependencies" /\ ContainsHandle(d, record.handle)
             full == Len(d[table]) >= Capacity[table]
  <1>1. table \in Tables /\ entry \in Entry /\ entry.handle = record.handle
    BY TableFacts DEF Entry, DiscoveryRecord
  <1>2. d \in Database
    BY DEF DatabaseInv
  <1>3. CASE taken \/ full
    <2>1. p.db = d /\ p.result \in ParseResults /\ p.result # "OK"
      BY <1>3 DEF Add, ParseResults
    <2> HIDE DEF p, table
    <2> QED
      BY <1>2, <2>1, GrowsIsReflexive DEF p
  <1>4. CASE ~(taken \/ full)
    <2>1. p = [db |-> [d EXCEPT ![table] = Append(@, entry)], result |-> "OK"]
      BY <1>4, Zenon DEF Add
    <2>2. table \in Owners => \A s \in Owners : ~Names(d, s, entry.handle)
      <3> HIDE DEF table
      <3> QED
        BY <1>1, <1>2, <1>4, ContainsFacts DEF Owners
    <2> HIDE DEF table, entry
    <2>3. /\ DatabaseInv(p.db) /\ Grows(d, p.db) /\ Names(p.db, table, entry.handle)
      <3> DEFINE e == [d EXCEPT ![table] = Append(@, entry)]
      <3>1. DatabaseInv(e) /\ Grows(d, e) /\ Names(e, table, entry.handle)
        BY <1>1, <2>2, AppendKeeps
      <3> HIDE DEF e
      <3>2. p.db = e
        BY <2>1 DEF e
      <3> QED
        BY <3>1, <3>2
    <2> QED
      BY <1>1, <2>1, <2>3 DEF ParseResults, table
  <1> QED
    BY <1>3, <1>4

LEMMA AddNextKeeps ==
    ASSUME NEW d, DatabaseInv(d), NEW records \in Records, NEW parse, NEW k \in Nat,
           ParseInv(d, parse, records, k), k + 1 \in 1 .. Len(records)
    PROVE  ParseInv(d, AddNext(parse, records[k + 1]), records, k + 1)
  <1> DEFINE record == records[k + 1]
             next == AddNext(parse, record)
  <1>1. record \in DiscoveryRecord /\ \A i \in 1 .. k + 1 : i \in 1 .. k \/ i = k + 1
    BY RecordFields
  <1>2. d \in Database /\ parse.db \in Database /\ DatabaseInv(parse.db) /\ Grows(d, parse.db)
    BY DEF ParseInv, DatabaseInv
  <1> HIDE DEF record
  <1>3. CASE parse.result # "OK"
    BY <1>3, Zenon DEF AddNext, ParseInv, record
  <1>4. CASE parse.result = "OK" /\ record.type \in EntryTypes
    <2>1. next = Add(parse.db, record)
      BY <1>4 DEF AddNext
    <2>2. /\ DatabaseInv(next.db) /\ Grows(parse.db, next.db) /\ next.result \in ParseResults
          /\ next.result = "OK" => Names(next.db, TableOf(record.type), record.handle)
      BY <1>1, <1>2, <1>4, <2>1, AddFacts
    <2> HIDE DEF next
    <2>3. next.db \in Database /\ Grows(d, next.db)
      BY <1>2, <2>2, GrowsIsTransitive DEF DatabaseInv
    <2>4. ASSUME next.result = "OK", NEW i \in 1 .. k + 1, records[i].type \in EntryTypes
          PROVE  Names(next.db, TableOf(records[i].type), records[i].handle)
      <3>1. CASE i = k + 1
        BY <2>2, <2>4, <3>1 DEF record
      <3>2. CASE i \in 1 .. k
        <4>1. Names(parse.db, TableOf(records[i].type), records[i].handle)
          BY <1>4, <2>4, <3>2 DEF ParseInv
        <4> QED
          BY <1>2, <2>2, <2>3, <2>4, <4>1, TableFacts, GrowsKeepsNames
      <3> QED
        BY <1>1, <3>1, <3>2
    <2> QED
      BY <2>2, <2>3, <2>4 DEF ParseInv, next, record
  <1>5. CASE parse.result = "OK" /\ record.type \notin EntryTypes
    <2>1. next = parse
      BY <1>5 DEF AddNext
    <2> QED
      BY <1>1, <1>5, <2>1 DEF ParseInv, record
  <1> QED
    BY <1>3, <1>4, <1>5

------------------------------------------------------------------------------
(***************************************************************************)
(* The parse of a sequence of records.                                     *)
(***************************************************************************)

(* f is the parse after each of the first n records.                       *)
IsParse(f, d, records, n) ==
    f = [i \in 0 .. n |->
            IF i = 0 THEN [db |-> d, result |-> "OK"] ELSE AddNext(f[i - 1], records[i])]

LEMMA ParseExists ==
    ASSUME NEW n \in Nat, NEW d, NEW records
    PROVE  \E f : IsParse(f, d, records, n)
  <1> DEFINE S == {k \in 0 .. n : \E f : IsParse(f, d, records, k)}
             start == [db |-> d, result |-> "OK"]
  <1> HIDE DEF start
  <1>1. 0 \in S
    <2> DEFINE f == [i \in 0 .. 0 |-> start]
    <2>1. IsParse(f, d, records, 0)
      BY DEF IsParse, start
    <2> QED
      BY <2>1
  <1>2. ASSUME NEW k \in 0 .. n - 1, k \in S PROVE k + 1 \in S
    <2>1. PICK g : IsParse(g, d, records, k)
      BY <1>2
    <2> DEFINE f == [i \in 0 .. k + 1 |-> IF i = k + 1 THEN AddNext(g[k], records[k + 1]) ELSE g[i]]
               h == [i \in 0 .. k + 1 |-> IF i = 0 THEN start ELSE AddNext(f[i - 1], records[i])]
    <2>2. \A i \in 0 .. k : g[i] = IF i = 0 THEN start ELSE AddNext(g[i - 1], records[i])
      BY <2>1, Zenon DEF IsParse, start
    <2>3. ASSUME NEW i \in 0 .. k + 1 PROVE f[i] = h[i]
      <3>1. CASE i = k + 1
        <4>1. i # 0 /\ i - 1 = k /\ k \in 0 .. k + 1 /\ k # k + 1
          BY <1>2, <3>1
        <4>2. f[k] = g[k]
          BY <4>1
        <4> QED
          BY <3>1, <4>1, <4>2
      <3>2. CASE i = 0
        <4>1. 0 # k + 1 /\ 0 \in 0 .. k
          BY <1>2
        <4> QED
          BY <2>2, <3>2, <4>1
      <3>3. CASE i # 0 /\ i # k + 1
        <4>1. i \in 0 .. k /\ i - 1 \in 0 .. k + 1 /\ i - 1 # k + 1
          BY <1>2, <2>3, <3>3
        <4>2. f[i - 1] = g[i - 1] /\ f[i] = g[i]
          BY <3>3, <4>1
        <4> QED
          BY <2>2, <3>3, <4>1, <4>2
      <3> QED
        BY <3>1, <3>2, <3>3
    <2>4. f = h
      BY <2>3
    <2>5. IsParse(f, d, records, k + 1)
      BY <2>4 DEF IsParse, start
    <2>6. k + 1 \in 0 .. n
      BY <1>2
    <2> HIDE DEF f
    <2> QED
      BY <2>5, <2>6
  <1> HIDE DEF S
  <1>3. \A k \in 0 .. n : k \in S
    BY <1>1, <1>2, SetInduction
  <1> QED
    BY <1>3 DEF S

LEMMA ParseOfFacts ==
    ASSUME NEW d, DatabaseInv(d), NEW records \in Records
    PROVE  ParseInv(d, ParseOf(d, records)[Len(records)], records, Len(records))
  <1> DEFINE n == Len(records)
             f == ParseOf(d, records)
             S == {k \in 0 .. n : ParseInv(d, f[k], records, k)}
  <1>1. n \in Nat
    BY RecordFields
  <1>2. IsParse(f, d, records, n)
    <2> DEFINE Rule(g) == [i \in 0 .. n |-> IF i = 0 THEN [db |-> d, result |-> "OK"]
                                            ELSE AddNext(g[i - 1], records[i])]
    <2>1. \E g : g = Rule(g)
      <3>1. PICK g : IsParse(g, d, records, n)
        BY <1>1, ParseExists
      <3>2. g = Rule(g)
        BY <3>1, Zenon DEF IsParse
      <3> QED
        BY <3>2
    <2>2. f = CHOOSE g : g = Rule(g)
      BY DEF ParseOf
    <2>3. f = Rule(f)
      <3> HIDE DEF Rule
      <3> QED
        BY <2>1, <2>2
    <2> QED
      BY <2>3 DEF IsParse
  <1> HIDE DEF f, n
  <1>3. /\ f[0] = [db |-> d, result |-> "OK"]
        /\ \A k \in 0 .. n - 1 : f[k + 1] = AddNext(f[k], records[k + 1])
    <2>1. \A i \in 0 .. n : f[i] = IF i = 0 THEN [db |-> d, result |-> "OK"]
                                   ELSE AddNext(f[i - 1], records[i])
      BY <1>2, Zenon DEF IsParse
    <2>2. f[0] = [db |-> d, result |-> "OK"]
      BY <1>1, <2>1
    <2>3. ASSUME NEW k \in 0 .. n - 1 PROVE f[k + 1] = AddNext(f[k], records[k + 1])
      <3>1. k + 1 \in 0 .. n /\ k + 1 # 0 /\ (k + 1) - 1 = k
        BY <1>1, <2>3
      <3> QED
        BY <2>1, <3>1
    <2> QED
      BY <2>2, <2>3
  <1>4. 0 \in S
    <2>1. f[0].db = d /\ f[0].result = "OK"
      BY <1>3
    <2>2. Grows(d, d)
      BY GrowsIsReflexive DEF DatabaseInv
    <2> QED
      BY <1>1, <2>1, <2>2 DEF ParseInv, ParseResults
  <1>5. ASSUME NEW k \in 0 .. n - 1, k \in S PROVE k + 1 \in S
    <2>1. k \in Nat /\ k + 1 \in 1 .. Len(records) /\ k + 1 \in 0 .. n
      BY <1>1, <1>5 DEF n
    <2>2. ParseInv(d, AddNext(f[k], records[k + 1]), records, k + 1)
      BY <1>5, <2>1, AddNextKeeps
    <2> QED
      BY <1>3, <1>5, <2>1, <2>2
  <1>6. \A k \in 0 .. n : k \in S
    <2> HIDE DEF S
    <2> QED
      BY <1>1, <1>4, <1>5, SetInduction
  <1> QED
    BY <1>1, <1>6 DEF n, f

------------------------------------------------------------------------------
(***************************************************************************)
(* Validation and the walk.                                                *)
(***************************************************************************)

(* The validator leaves its loop at the i-th turn.                         *)
Leaves(image, i) ==
    \/ i > Len(image.records)
    \/ OffsetOf(image.records)[i - 1] >= image.header.total_length
    \/ CheckRecord(image, i) # "OK"
    \/ image.records[i].type = "END"

LEMMA LastTurnFacts ==
    ASSUME NEW image, image.records \in Records
    PROVE  /\ LastTurn(image) \in 1 .. Len(image.records) + 1
           /\ Leaves(image, LastTurn(image))
           /\ \A i \in 1 .. LastTurn(image) - 1 : ~Leaves(image, i)
  <1> DEFINE n == Len(image.records)
             S == {i \in 1 .. n + 1 : Leaves(image, i)}
  <1>1. n \in Nat
    BY RecordFields
  <1>2. S \in SUBSET Nat /\ n + 1 \in S
    BY <1>1 DEF Leaves
  <1>3. LastTurn(image) = Min(S)
    BY DEF LastTurn, Leaves
  <1>4. Min(S) \in S /\ \A i \in S : Min(S) <= i
    BY <1>2, MinIsLeast
  <1> DEFINE last == Min(S)
  <1>5. last \in 1 .. n + 1 /\ Leaves(image, last) /\ \A i \in S : last <= i
    BY <1>4
  <1> HIDE DEF last
  <1>6. ASSUME NEW i \in 1 .. last - 1 PROVE ~Leaves(image, i)
    <2>1. i \in 1 .. n + 1 /\ ~(last <= i)
      BY <1>1, <1>5, <1>6
    <2> QED
      BY <1>5, <2>1
  <1> QED
    BY <1>3, <1>5, <1>6 DEF last, n

(* A record that passes is whole and starts where records may.             *)
LEMMA CheckFacts ==
    ASSUME NEW image, image.records \in Records, NEW i, CheckRecord(image, i) = "OK"
    PROVE  /\ ~(i > Len(image.records)) /\ Aligned(OffsetOf(image.records)[i - 1])
           /\ ~(image.records[i].length < RecordHeaderSize)
  BY Zenon DEF CheckRecord

(* A validated image ends with END inside its total length, and the walk   *)
(* stops there and nowhere before.                                         *)
LEMMA ValidatedFacts ==
    ASSUME NEW image, image.records \in Records, image.header.total_length \in Nat,
           NEW size \in Nat, Validate(image, size) = "OK"
    PROVE  /\ LastTurn(image) \in 1 .. Len(image.records)
           /\ Walk(image, size).records = SubSeq(image.records, 1, LastTurn(image) - 1)
           /\ Walk(image, size).ended
  <1> DEFINE records == image.records
             n == Len(records)
             o == OffsetOf(records)
             total == image.header.total_length
             last == LastTurn(image)
  <1>1. EndStatus(image, last) = "OK" /\ ~(total > size)
    BY Zenon DEF Validate
  <1>2. ~(o[last - 1] >= total) /\ CheckRecord(image, last) = "OK"
    BY <1>1, Zenon DEF EndStatus
  <1>3. /\ last \in 1 .. n + 1 /\ Leaves(image, last)
        /\ \A i \in 1 .. last - 1 : ~Leaves(image, i)
    BY LastTurnFacts
  <1>4. n \in Nat /\ ~(last > n)
    BY <1>2, CheckFacts, RecordFields
  <1>5. records[last].type = "END"
    BY <1>2, <1>3, <1>4, Zenon DEF Leaves
  <1>6. ASSUME NEW i \in 1 .. last - 1
        PROVE  /\ ~(o[i - 1] >= total) /\ CheckRecord(image, i) = "OK" /\ records[i].type # "END"
    BY <1>3, <1>6, Zenon DEF Leaves
  <1> DEFINE Stops(i) == \/ i > n
                         \/ records[i].type = "END"
                         \/ i > 1 /\ \/ records[i - 1].length < RecordHeaderSize
                                     \/ o[i - 1] >= size
                                     \/ ~Aligned(o[i - 1])
             S == {i \in 1 .. n + 1 : Stops(i)}
  <1>7. last \in 1 .. n
    <2> HIDE DEF last, n
    <2> QED
      BY <1>3, <1>4
  <1>8. last \in S
    <2> HIDE DEF last, n
    <2>1. last \in 1 .. n + 1
      BY <1>3
    <2> QED
      BY <1>5, <2>1
  <1>9. ASSUME NEW i \in 1 .. last - 1 PROVE ~Stops(i)
    <2>1. i \in 1 .. n /\ ~(i > n) /\ i - 1 \in 0 .. n
      <3> HIDE DEF n, last
      <3> QED
        BY <1>4, <1>7, <1>9
    <2>2. records[i].type # "END" /\ ~(o[i - 1] >= total) /\ Aligned(o[i - 1])
      BY <1>6, <1>9, CheckFacts
    <2>3. ~(o[i - 1] >= size)
      <3>1. o[i - 1] \in Nat
        BY <2>1, OffsetFacts
      <3> HIDE DEF o, total
      <3> QED
        BY <1>1, <2>2, <3>1 DEF total
    <2>4. i > 1 => ~(records[i - 1].length < RecordHeaderSize)
      <3> SUFFICES ASSUME i > 1 PROVE ~(records[i - 1].length < RecordHeaderSize)
        OBVIOUS
      <3>1. i - 1 \in 1 .. last - 1
        <4> HIDE DEF last
        <4> QED
          BY <1>7, <1>9
      <3> QED
        BY <1>6, <3>1, CheckFacts
    <2> QED
      BY <2>1, <2>2, <2>3, <2>4, Zenon
  <1>10. Min(S) = last
    <2>1. S \in SUBSET Nat
      BY <1>4
    <2>2. Min(S) \in S /\ \A i \in S : Min(S) <= i
      BY <1>8, <2>1, MinIsLeast
    <2>3. \A i \in 1 .. last - 1 : i \notin S
      BY <1>9
    <2>4. Min(S) \in 1 .. n + 1 /\ Min(S) <= last /\ Min(S) \notin 1 .. last - 1
      BY <1>8, <2>2, <2>3
    <2> HIDE DEF S, last, n
    <2> QED
      BY <1>4, <1>7, <2>4
  <1>11. Walk(image, size) = [records |-> SubSeq(records, 1, Min(S) - 1),
                              ended |-> Min(S) <= n /\ records[Min(S)].type = "END"]
    BY DEF Walk
  <1>12. last <= n
    BY <1>4, <1>7
  <1> HIDE DEF S, last, n
  <1> DEFINE walked == SubSeq(records, 1, last - 1)
             ended == last <= n /\ records[last].type = "END"
  <1>13. Walk(image, size) = [records |-> walked, ended |-> ended]
    BY <1>10, <1>11
  <1>14. ended
    BY <1>5, <1>12
  <1> HIDE DEF walked, ended
  <1>15. Walk(image, size).records = walked /\ Walk(image, size).ended
    BY <1>13, <1>14
  <1> QED
    BY <1>7, <1>15 DEF walked, last, n

------------------------------------------------------------------------------
(***************************************************************************)
(* The scan.                                                               *)
(***************************************************************************)

CardTyped(card) ==
    /\ card.image.records \in Records /\ card.image.header.total_length \in Nat
    /\ card.size \in Nat

(* What the parser returns for a card.                                     *)
Outcome(card, d, status) ==
    /\ Validate(card.image, card.size) = "OK" =>
           /\ status \in ParseResults
           /\ status = "OK" =>
                  \A i \in 1 .. LastTurn(card.image) - 1 :
                      card.image.records[i].type \in EntryTypes =>
                          Names(d, TableOf(card.image.records[i].type), card.image.records[i].handle)
    /\ Validate(card.image, card.size) # "OK" => status = Validate(card.image, card.size)

LEMMA ParseFacts ==
    ASSUME NEW d, DatabaseInv(d), NEW card, CardTyped(card)
    PROVE  LET p == Parse(card.image, card.size, d)
           IN  /\ DatabaseInv(p.db) /\ Grows(d, p.db) /\ Outcome(card, p.db, p.result)
               /\ Validate(card.image, card.size) # "OK" => p.db = d
  <1> DEFINE image == card.image
             size == card.size
             p == Parse(image, size, d)
  <1>1. CASE Validate(image, size) # "OK"
    <2>1. p.db = d /\ p.result = Validate(image, size)
      BY <1>1 DEF Parse
    <2>2. Grows(d, d)
      BY GrowsIsReflexive DEF DatabaseInv
    <2> HIDE DEF p
    <2>3. DatabaseInv(p.db) /\ Grows(d, p.db) /\ Outcome(card, p.db, p.result) /\ p.db = d
      BY <1>1, <2>1, <2>2 DEF Outcome
    <2> QED
      BY <2>3 DEF p
  <1>2. CASE Validate(image, size) = "OK"
    <2> DEFINE last == LastTurn(image)
               walked == SubSeq(image.records, 1, last - 1)
               parse == ParseOf(d, walked)[Len(walked)]
    <2>1. /\ last \in 1 .. Len(image.records) /\ Walk(image, size).records = walked
          /\ Walk(image, size).ended
      BY <1>2, ValidatedFacts DEF CardTyped
    <2>2. p = parse
      BY <1>2, <2>1 DEF Parse
    <2>3. image.records \in Records /\ Len(image.records) \in Nat
      BY RecordFields DEF CardTyped
    <2>4. /\ walked \in Records /\ Len(walked) = last - 1
          /\ \A i \in 1 .. last - 1 : walked[i] = image.records[i]
      <3> HIDE DEF last
      <3> QED
        BY <2>1, <2>3 DEF Records
    <2> HIDE DEF walked, last
    <2>5. ParseInv(d, parse, walked, last - 1)
      BY <2>4, ParseOfFacts
    <2> HIDE DEF parse, p
    <2>6. DatabaseInv(p.db) /\ Grows(d, p.db) /\ p.result \in ParseResults
      BY <2>2, <2>5 DEF ParseInv
    <2>7. p.result = "OK" =>
              \A i \in 1 .. last - 1 : image.records[i].type \in EntryTypes =>
                  Names(p.db, TableOf(image.records[i].type), image.records[i].handle)
      BY <2>2, <2>4, <2>5 DEF ParseInv
    <2>8. Outcome(card, p.db, p.result)
      BY <1>2, <2>6, <2>7 DEF Outcome, last
    <2> QED
      BY <1>2, <2>6, <2>8 DEF p
  <1> QED
    BY <1>1, <1>2

------------------------------------------------------------------------------
(***************************************************************************)
(* The images of mkdiscovery.                                              *)
(***************************************************************************)

HeaderOf(magic, version, length, count, x, y) ==
    [magic |-> magic, version_major |-> version, total_length |-> length,
     record_count |-> count, header_crc32 |-> x, image_crc32 |-> y]

PutHeaderCrc(header, crc) == [header EXCEPT !.header_crc32 = crc]
PutImageCrc(header, crc)  == [header EXCEPT !.image_crc32 = crc]

(* Writing one of the CRC fields, and clearing both.                       *)
LEMMA HeaderUpdates ==
    ASSUME NEW m, NEW v, NEW l, NEW k, NEW x, NEW y
    PROVE  /\ \A z : PutHeaderCrc(HeaderOf(m, v, l, k, x, y), z) = HeaderOf(m, v, l, k, z, y)
           /\ \A z : PutImageCrc(HeaderOf(m, v, l, k, x, y), z) = HeaderOf(m, v, l, k, x, z)
           /\ WithoutCrcs(HeaderOf(m, v, l, k, x, y)) = HeaderOf(m, v, l, k, << >>, << >>)
  <1>1. \A u, w, z : PutHeaderCrc(HeaderOf(m, v, l, k, u, w), z) = HeaderOf(m, v, l, k, z, w)
    BY DEF HeaderOf, PutHeaderCrc
  <1>2. \A u, w, z : PutImageCrc(HeaderOf(m, v, l, k, u, w), z) = HeaderOf(m, v, l, k, u, z)
    BY DEF HeaderOf, PutImageCrc
  <1>3. \A h : WithoutCrcs(h) = PutImageCrc(PutHeaderCrc(h, << >>), << >>)
    BY DEF WithoutCrcs, PutHeaderCrc, PutImageCrc
  <1>4. WithoutCrcs(HeaderOf(m, v, l, k, x, y)) = HeaderOf(m, v, l, k, << >>, << >>)
    BY <1>1, <1>2, <1>3
  <1> QED
    BY <1>1, <1>2, <1>4

LEMMA ImageUpdates ==
    ASSUME NEW header, NEW records, NEW z
    PROVE  /\ [Image(header, records) EXCEPT !.header = z] = Image(z, records)
           /\ [Image(header, records) EXCEPT !.header.header_crc32 = z]
                 = Image(PutHeaderCrc(header, z), records)
           /\ [Image(header, records) EXCEPT !.header.image_crc32 = z]
                 = Image(PutImageCrc(header, z), records)
           /\ Image(header, records).header = header /\ Image(header, records).records = records
  BY DEF Image, PutHeaderCrc, PutImageCrc

(* PatchCrc in terms of the two fields it writes.                          *)
LEMMA PatchUpdates ==
    ASSUME NEW header, NEW records
    PROVE  /\ HeaderCrc(Image(header, records)) = <<WithoutCrcs(header)>>
           /\ ImageCrc(Image(header, records)) = <<Image(PutImageCrc(header, << >>), records)>>
           /\ PatchCrc(Image(header, records)) =
                 LET headed == PutHeaderCrc(WithoutCrcs(header),
                                   HeaderCrc(Image(WithoutCrcs(header), records)))
                 IN  Image(PutImageCrc(headed, ImageCrc(Image(headed, records))), records)
  <1>1. HeaderCrc(Image(header, records)) = <<WithoutCrcs(header)>>
    BY ImageUpdates, Zenon DEF HeaderCrc
  <1>2. ImageCrc(Image(header, records)) = <<Image(PutImageCrc(header, << >>), records)>>
    <2>1. [Image(header, records) EXCEPT !.header.image_crc32 = << >>]
            = Image(PutImageCrc(header, << >>), records)
      BY DEF Image, PutImageCrc
    <2> QED
      BY <2>1, Zenon DEF ImageCrc
  <1> DEFINE bare == WithoutCrcs(header)
             cleared == Image(bare, records)
             x == HeaderCrc(cleared)
             headed == PutHeaderCrc(bare, x)
             y == ImageCrc(Image(headed, records))
  <1>3. [Image(header, records) EXCEPT !.header = WithoutCrcs(@)] = cleared
    BY DEF Image
  <1> HIDE DEF bare, x, y
  <1>4. [cleared EXCEPT !.header.header_crc32 = x] = Image(headed, records)
    BY DEF Image, PutHeaderCrc
  <1> HIDE DEF headed
  <1>5. [Image(headed, records) EXCEPT !.header.image_crc32 = y]
          = Image(PutImageCrc(headed, y), records)
    BY DEF Image, PutImageCrc
  <1>6. PatchCrc(Image(header, records))
          = Image(PutImageCrc(headed, ImageCrc(Image(headed, records))), records)
    BY <1>3, <1>4, <1>5, Zenon DEF PatchCrc, x, y
  <1> QED
    BY <1>1, <1>2, <1>6 DEF bare, headed, x

(* The CRCs patched in are those the validator computes.                   *)
LEMMA PatchFacts ==
    ASSUME NEW length, NEW count, NEW records
    PROVE  LET image == PatchCrc(Image(Header(length, count), records))
           IN  /\ image.records = records /\ image.header.magic
               /\ image.header.version_major = Major
               /\ image.header.total_length = length /\ image.header.record_count = count
               /\ image.header.header_crc32 = HeaderCrc(image)
               /\ image.header.image_crc32 = ImageCrc(image)
  <1> DEFINE magic == TRUE
             H(x, y) == HeaderOf(magic, Major, length, count, x, y)
             h0 == H(<< >>, << >>)
             x0 == <<h0>>
             y0 == <<Image(H(x0, << >>), records)>>
             image == Image(H(x0, y0), records)
  <1>1. Header(length, count) = h0
    BY DEF Header, HeaderOf
  <1> HIDE DEF magic
  <1>2. /\ \A x, y : WithoutCrcs(H(x, y)) = h0
        /\ \A x, y, z : PutHeaderCrc(H(x, y), z) = H(z, y) /\ PutImageCrc(H(x, y), z) = H(x, z)
    BY HeaderUpdates
  <1>3. \A x, y : HeaderCrc(Image(H(x, y), records)) = x0
    BY <1>2, PatchUpdates
  <1>4. \A y : ImageCrc(Image(H(x0, y), records)) = y0
    BY <1>2, PatchUpdates
  <1>5. PatchCrc(Image(h0, records)) = image
    <2> HIDE DEF H, x0, y0
    <2> QED
      BY <1>2, <1>3, <1>4, PatchUpdates
  <1>6. image.header = H(x0, y0) /\ image.records = records
    BY DEF Image
  <1>7. HeaderCrc(image) = x0 /\ ImageCrc(image) = y0
    BY <1>3, <1>4
  <1> HIDE DEF image, h0, x0, y0
  <1>8. /\ image.header.magic /\ image.header.version_major = Major
        /\ image.header.total_length = length /\ image.header.record_count = count
        /\ image.header.header_crc32 = x0 /\ image.header.image_crc32 = y0
    BY <1>6 DEF HeaderOf, magic
  <1> QED
    BY <1>1, <1>5, <1>6, <1>7, <1>8

(* Whole records and END, with the count and the length they have: the     *)
(* validator passes such an image.                                         *)
LEMMA BuiltValidates ==
    ASSUME NEW records \in Records, Len(records) >= 1, records[Len(records)] = End,
           \A i \in 1 .. Len(records) - 1 :
               records[i].type # "END" /\ records[i].length = RecordSize,
           NEW image, image.records = records, image.header.magic,
           image.header.version_major = Major,
           image.header.total_length = OffsetOf(records)[Len(records)],
           image.header.record_count = Len(records),
           image.header.header_crc32 = HeaderCrc(image),
           image.header.image_crc32 = ImageCrc(image)
    PROVE  Validate(image, image.header.total_length) = "OK"
  <1> DEFINE n == Len(records)
             o == OffsetOf(records)
             total == o[n]
             S == {k \in 0 .. n : Aligned(o[k])}
  <1>1. n \in Nat /\ n \in 1 .. n /\ HeaderSize \in Nat /\ RecordHeaderSize \in Nat
    BY RecordFields DEF HeaderSize, RecordHeaderSize
  <1>2. \A i \in 1 .. n : /\ records[i].length \in Nat /\ Aligned(records[i].length)
                          /\ records[i].length >= RecordHeaderSize
    <2>1. records[n].length = RecordHeaderSize /\ \A i \in 1 .. n : i \in 1 .. n - 1 \/ i = n
      BY <1>1 DEF End, Record
    <2> QED
      BY <2>1 DEF RecordSize, RecordHeaderSize, Aligned
  <1>3. /\ o[0] = HeaderSize /\ (\A i \in 0 .. n : o[i] \in Nat)
        /\ (\A i \in 1 .. n : o[i] = o[i - 1] + records[i].length)
        /\ \A i \in 0 .. n : \A j \in i .. n : o[i] <= o[j]
    BY OffsetFacts
  <1> HIDE DEF o, n
  <1>4. \A k \in 0 .. n : Aligned(o[k])
    <2>1. 0 \in S
      BY <1>1, <1>3 DEF Aligned, HeaderSize
    <2>2. ASSUME NEW k \in 0 .. n - 1, k \in S PROVE k + 1 \in S
      <3>1. k + 1 \in 1 .. n /\ (k + 1) - 1 = k /\ k + 1 \in 0 .. n
        BY <1>1, <2>2
      <3>2. /\ o[k + 1] = o[k] + records[k + 1].length /\ o[k] \in Nat
            /\ records[k + 1].length \in Nat
        BY <1>2, <1>3, <2>2, <3>1
      <3>3. Aligned(o[k]) /\ Aligned(records[k + 1].length)
        BY <1>2, <2>2, <3>1
      <3>4. Aligned(o[k + 1])
        BY <3>2, <3>3, AlignedSum
      <3> QED
        BY <3>1, <3>4
    <2>3. \A k \in 0 .. n : k \in S
      <3> HIDE DEF S
      <3> QED
        BY <1>1, <2>1, <2>2, SetInduction
    <2> QED
      BY <2>3
  <1>5. ASSUME NEW i \in 1 .. n
        PROVE  ~(o[i - 1] >= total) /\ CheckRecord(image, i) = "OK"
    <2>1. i - 1 \in 0 .. n /\ i \in 0 .. n /\ n \in i .. n /\ n \in 0 .. n /\ ~(i > n)
      BY <1>1, <1>5
    <2>2. /\ o[i - 1] \in Nat /\ o[i] = o[i - 1] + records[i].length /\ o[i] <= o[n] /\ o[n] \in Nat
      BY <1>3, <1>5, <2>1
    <2>3. /\ records[i].length \in Nat /\ records[i].length >= RecordHeaderSize
          /\ Aligned(records[i].length) /\ Aligned(o[i - 1])
      BY <1>2, <1>4, <1>5, <2>1
    <2>4. /\ ~(o[i - 1] >= total) /\ ~(total - o[i - 1] < RecordHeaderSize)
          /\ ~(records[i].length < RecordHeaderSize) /\ ~(records[i].length > total - o[i - 1])
      BY <2>2, <2>3 DEF RecordHeaderSize
    <2>5. CheckRecord(image, i) = "OK"
      BY <2>1, <2>3, <2>4, Zenon DEF CheckRecord, o, n
    <2> QED
      BY <2>4, <2>5
  <1>6. LastTurn(image) = n
    <2> DEFINE last == LastTurn(image)
    <2>1. /\ last \in 1 .. n + 1 /\ \A i \in 1 .. last - 1 : ~Leaves(image, i)
          /\ Leaves(image, last)
      BY LastTurnFacts DEF n
    <2>2. Leaves(image, n)
      BY DEF Leaves, End, Record, n
    <2>3. \A i \in 1 .. n - 1 : ~Leaves(image, i)
      <3> SUFFICES ASSUME NEW i \in 1 .. n - 1 PROVE ~Leaves(image, i)
        OBVIOUS
      <3>1. i \in 1 .. n /\ ~(i > n) /\ records[i].type # "END"
        BY <1>1 DEF n
      <3>2. ~(o[i - 1] >= total) /\ CheckRecord(image, i) = "OK"
        BY <1>5, <3>1
      <3> QED
        BY <3>1, <3>2, Zenon DEF Leaves, o, n
    <2> HIDE DEF last
    <2>4. n \notin 1 .. last - 1 /\ last \notin 1 .. n - 1
      BY <2>1, <2>2, <2>3
    <2> QED
      BY <1>1, <2>1, <2>4 DEF last
  <1>7. EndStatus(image, n) = "OK"
    <2>1. ~(o[n - 1] >= total) /\ CheckRecord(image, n) = "OK"
      BY <1>1, <1>5
    <2> QED
      BY <2>1, Zenon DEF EndStatus, o, n
  <1>8. /\ total \in Nat /\ ~(total < HeaderSize) /\ ~(total > total) /\ Aligned(total)
    <2>1. 0 \in 0 .. n /\ n \in 0 .. n
      BY <1>1
    <2>2. total \in Nat /\ HeaderSize <= total /\ Aligned(total)
      BY <1>3, <1>4, <2>1
    <2> QED
      BY <1>1, <2>2
  <1>9. CrcValid(image, total)
    BY Zenon DEF CrcValid
  <1> HIDE DEF total
  <1>10. image.header.total_length = total
    BY DEF total, o, n
  <1> QED
    BY <1>6, <1>7, <1>8, <1>9, <1>10, Zenon DEF Validate

(* What mkdiscovery appends before END.                                    *)
Declarations == {r \in DiscoveryRecord : r.type # "END" /\ r.length = RecordSize}

LEMMA AppendedFacts ==
    ASSUME NEW type \in Nat, NEW provider \in Nat
    PROVE  /\ AppendResource(type, provider) \in Declarations
           /\ AppendService(type, provider) \in Declarations
  <1>1. MakeHandle(provider, type, 1) \in Handles /\ << >> \in Handles
    BY DEF MakeHandle, Handles
  <1>2. RecordSize \in Nat
    BY DEF RecordSize
  <1> DEFINE handle == MakeHandle(provider, type, 1)
             none == << >>
  <1> HIDE DEF handle, none
  <1>3. \A t \in {"RESOURCE", "SERVICE"} : Record(t, RecordSize, handle, none) \in Declarations
    BY <1>1, <1>2 DEF handle, none, Record, Declarations, DiscoveryRecord, EntryTypes
  <1> QED
    BY <1>3 DEF AppendResource, AppendService, handle, none

LEMMA ProfileFacts ==
    ASSUME NEW profile \in Profiles
    PROVE  ProfileRecords(profile) \in Seq(Declarations)
  <1> DEFINE p == ProviderId(profile)
  <1>1. p \in Nat
    BY DEF ProviderId
  <1> HIDE DEF p
  <1>2. CASE profile = "minimal"
    BY <1>2 DEF ProfileRecords
  <1>3. CASE profile = "cpu-card"
    <2>1. ProfileRecords(profile) =
            <<AppendResource(ResourceCpu, p), AppendResource(ResourceCpuHealth, p),
              AppendService(ServiceCpuDiagnostics, p), AppendService(ServiceCpuHealth, p)>>
      BY <1>3 DEF ProfileRecords, p
    <2>2. /\ AppendResource(ResourceCpu, p) \in Declarations
          /\ AppendResource(ResourceCpuHealth, p) \in Declarations
          /\ AppendService(ServiceCpuDiagnostics, p) \in Declarations
          /\ AppendService(ServiceCpuHealth, p) \in Declarations
      BY <1>1, AppendedFacts
         DEF ResourceCpu, ResourceCpuHealth, ServiceCpuDiagnostics, ServiceCpuHealth
    <2> QED
      BY <2>1, <2>2
  <1>4. CASE profile = "supervisor"
    <2>1. ProfileRecords(profile) =
            <<AppendResource(ResourceSupervisor, p), AppendService(ServiceHealth, p)>>
      BY <1>4 DEF ProfileRecords, p
    <2>2. /\ AppendResource(ResourceSupervisor, p) \in Declarations
          /\ AppendService(ServiceHealth, p) \in Declarations
      BY <1>1, AppendedFacts DEF ResourceSupervisor, ServiceHealth
    <2> QED
      BY <2>1, <2>2
  <1>5. CASE profile = "instrumentation"
    <2>1. ProfileRecords(profile) =
            <<AppendResource(ResourceLogicAnalyzer, p), AppendService(ServiceInstrumentation, p)>>
      BY <1>5 DEF ProfileRecords, p
    <2>2. /\ AppendResource(ResourceLogicAnalyzer, p) \in Declarations
          /\ AppendService(ServiceInstrumentation, p) \in Declarations
      BY <1>1, AppendedFacts DEF ResourceLogicAnalyzer, ServiceInstrumentation
    <2> QED
      BY <2>1, <2>2
  <1> QED
    BY <1>2, <1>3, <1>4, <1>5 DEF Profiles

(* A profile's card is one that validates.                                 *)
LEMMA ProfileCards ==
    ASSUME NEW profile \in Profiles, NEW card \in Profile(profile)
    PROVE  CardTyped(card) /\ Validate(card.image, card.size) = "OK"
  <1> DEFINE declared == ProfileRecords(profile)
             records == Append(declared, End)
             length == OffsetOf(records)[Len(records)]
             image == PatchCrc(Image(Header(length, Len(records)), records))
  <1>1. declared \in Seq(Declarations)
    BY ProfileFacts
  <1>2. card = [image |-> image, size |-> image.header.total_length]
    <2>1. BuildProfile(profile) \in {<< >>, <<image>>}
      BY Zenon DEF BuildProfile
    <2> HIDE DEF image
    <2>2. BuildProfile(profile) # << >>
      BY DEF Profile
    <2>3. BuildProfile(profile) = <<image>>
      BY <2>1, <2>2
    <2>4. BuildProfile(profile)[1] = image
      BY <2>3
    <2> QED
      BY <2>2, <2>4 DEF Profile
  <1>3. End \in DiscoveryRecord
    BY DEF End, Record, DiscoveryRecord, RecordHeaderSize, Handles
  <1> HIDE DEF declared
  <1>4. /\ records \in Records /\ Len(records) = Len(declared) + 1 /\ Len(declared) \in Nat
        /\ records[Len(records)] = End
        /\ \A i \in 1 .. Len(records) - 1 : records[i] \in Declarations
    <2>1. declared \in Seq(DiscoveryRecord)
      BY <1>1 DEF Declarations
    <2>2. /\ records \in Seq(DiscoveryRecord) /\ Len(records) = Len(declared) + 1
          /\ Len(declared) \in Nat /\ records[Len(declared) + 1] = End
          /\ \A i \in 1 .. Len(declared) : records[i] = declared[i]
      BY <1>3, <2>1
    <2> HIDE DEF records
    <2>3. \A i \in 1 .. Len(declared) : declared[i] \in Declarations
      BY <1>1
    <2>4. Len(records) - 1 = Len(declared)
      BY <2>2
    <2> QED
      BY <2>2, <2>3, <2>4 DEF Records
  <1>5. Len(records) >= 1 /\ \A i \in 1 .. Len(records) - 1 :
                                 records[i].type # "END" /\ records[i].length = RecordSize
    BY <1>4 DEF Declarations
  <1> HIDE DEF records
  <1>6. length \in Nat
    <2>1. Len(records) \in Nat /\ Len(records) \in 0 .. Len(records)
      BY <1>4
    <2> QED
      BY <1>4, <2>1, OffsetFacts
  <1>7. /\ image.records = records /\ image.header.magic
        /\ image.header.version_major = Major
        /\ image.header.total_length = length /\ image.header.record_count = Len(records)
        /\ image.header.header_crc32 = HeaderCrc(image)
        /\ image.header.image_crc32 = ImageCrc(image)
    BY PatchFacts
  <1> HIDE DEF image
  <1>8. Validate(image, image.header.total_length) = "OK"
    BY <1>4, <1>5, <1>7, BuiltValidates
  <1>9. card.image = image /\ card.size = image.header.total_length
    BY <1>2
  <1> QED
    BY <1>4, <1>6, <1>7, <1>8, <1>9 DEF CardTyped

LEMMA CardsTyped == \A card \in Cards : CardTyped(card)
  <1> SUFFICES ASSUME NEW card \in Cards PROVE CardTyped(card)
    OBVIOUS
  <1>1. CASE card \in Images
    <2>1. card \in [image : DiscoveryImage, size : Nat]
      BY <1>1, ImagesAssumption
    <2>2. card.image \in DiscoveryImage /\ card.size \in Nat
      BY <2>1
    <2> DEFINE image == card.image
    <2> HIDE DEF image
    <2>3. image.records \in Records /\ image.header.total_length \in Nat
      BY <2>2 DEF image, DiscoveryImage, ImageWith, HeaderWith, Records
    <2> QED
      BY <2>2, <2>3 DEF CardTyped, image
  <1>2. CASE \E profile \in Profiles : card \in Profile(profile)
    BY <1>2, ProfileCards
  <1> QED
    BY <1>1, <1>2 DEF Cards

------------------------------------------------------------------------------
(***************************************************************************)
(* The results.                                                            *)
(***************************************************************************)

(* The database keeps its handles apart, and the last result is what the   *)
(* parser returns for the last card.                                       *)
LastScan == scanned = << >> \/ \E card \in Cards : scanned = <<card>> /\ Outcome(card, db, result)

ScanInv == DatabaseInv(db) /\ LastScan

LEMMA EmptyFacts == DatabaseInv(EmptyDatabase)
  <1>1. \A table \in Tables : EmptyDatabase[table] = << >>
    BY DEF EmptyDatabase
  <1>2. EmptyDatabase \in Database
    BY DEF EmptyDatabase, Database
  <1>3. Unique(EmptyDatabase)
    BY <1>1 DEF Unique, Owners
  <1> QED
    BY <1>2, <1>3 DEF DatabaseInv

LEMMA ScanStep ==
    ASSUME ScanInv, NEW card \in Cards, Scan(card)
    PROVE  /\ ScanInv' /\ Grows(db, db')
           /\ Validate(card.image, card.size) # "OK" => db' = db
  <1> DEFINE p == Parse(card.image, card.size, db)
  <1>1. /\ DatabaseInv(p.db) /\ Grows(db, p.db) /\ Outcome(card, p.db, p.result)
        /\ Validate(card.image, card.size) # "OK" => p.db = db
    BY CardsTyped, ParseFacts DEF ScanInv
  <1>2. db' = p.db /\ result' = p.result /\ scanned' = <<card>>
    BY DEF Scan
  <1> HIDE DEF p
  <1>3. DatabaseInv(db') /\ Outcome(card, db', result')
    BY <1>1, <1>2
  <1>4. ScanInv'
    BY <1>2, <1>3 DEF ScanInv, LastScan, DatabaseInv, Unique, Outcome, Names
  <1> QED
    BY <1>1, <1>2, <1>4

LEMMA ScanInvariant == Spec => []ScanInv
  <1>1. Init => ScanInv
    BY EmptyFacts DEF Init, ScanInv, LastScan
  <1>2. ScanInv /\ [Next]_vars => ScanInv'
    <2> SUFFICES ASSUME ScanInv, [Next]_vars PROVE ScanInv'
      OBVIOUS
    <2>1. ASSUME NEW card \in Cards, Scan(card) PROVE ScanInv'
      BY <2>1, ScanStep
    <2>2. CASE DatabaseInit
      <3>1. DatabaseInv(db') /\ scanned' = << >>
        BY <2>2, EmptyFacts DEF DatabaseInit
      <3> QED
        BY <3>1 DEF ScanInv, LastScan, DatabaseInv, Unique
    <2>3. CASE UNCHANGED vars
      BY <2>3 DEF vars, ScanInv, LastScan
    <2> QED
      BY <2>1, <2>2, <2>3 DEF Next
  <1> QED
    BY <1>1, <1>2, PTL DEF Spec

(* Whatever is parsed, in whatever order, a handle stays the name of one   *)
(* thing (atarix_discovery_parse, atarix_discovery_contains_handle).       *)
THEOREM HandlesStayUnique == Spec => []HandlesUnique
  <1>1. ScanInv => HandlesUnique
    BY DEF ScanInv, DatabaseInv, Unique, HandlesUnique
  <1> QED
    BY <1>1, ScanInvariant, PTL

(* An image the validator passes has its END where the iterator meets it   *)
(* (discovery_validate.c against discovery_iterator.c).                    *)
THEOREM ValidatedImagesEnd == Spec => []ValidatedEnds
  <1>1. ScanInv => ValidatedEnds
    <2> SUFFICES ASSUME ScanInv, NEW i \in DOMAIN scanned,
                        Validate(scanned[i].image, scanned[i].size) = "OK"
                 PROVE  result # "MISSING_END"
      BY DEF ValidatedEnds
    <2>1. PICK card \in Cards : scanned = <<card>> /\ Outcome(card, db, result)
      BY DEF ScanInv, LastScan
    <2>2. scanned[i] = card
      BY <2>1
    <2>3. result \in ParseResults
      BY <2>1, <2>2 DEF Outcome
    <2> QED
      BY <2>3 DEF ParseResults
  <1> QED
    BY <1>1, ScanInvariant, PTL

(* What an image declares can be looked up once the parser has returned OK *)
(* for it (atarix_discovery_parse, atarix_discovery_find_resource and      *)
(* atarix_discovery_find_service).                                         *)
THEOREM ParsedRecordsAreFound == Spec => []ParsedIsFindable
  <1>1. ScanInv => ParsedIsFindable
    <2> SUFFICES ASSUME ScanInv, scanned # << >>, result = "OK",
                        NEW i \in 1 .. LastTurn(scanned[1].image) - 1,
                        scanned[1].image.records[i].type \in {"RESOURCE", "SERVICE"}
                 PROVE  Find(db[TableOf(scanned[1].image.records[i].type)],
                             scanned[1].image.records[i].handle) # 0
      BY DEF ParsedIsFindable
    <2>1. PICK card \in Cards : scanned = <<card>> /\ Outcome(card, db, result)
      BY DEF ScanInv, LastScan
    <2>2. scanned[1] = card
      BY <2>1
    <2> DEFINE record == card.image.records[i]
    <2>3. Validate(card.image, card.size) = "OK"
      BY <2>1 DEF Outcome
    <2>4. record.type \in EntryTypes /\ i \in 1 .. LastTurn(card.image) - 1
      BY <2>2 DEF EntryTypes
    <2>5. Names(db, TableOf(record.type), record.handle)
      BY <2>1, <2>3, <2>4 DEF Outcome
    <2>6. Find(db[TableOf(record.type)], record.handle) # 0
      BY <2>4, <2>5, TableFacts, FindFacts DEF ScanInv, DatabaseInv
    <2> QED
      BY <2>2, <2>6
  <1> QED
    BY <1>1, ScanInvariant, PTL

(* The validator finds no fault with the images of mkdiscovery, whatever   *)
(* part of them its copy holds (patch_crc, atarix_discovery_validate).     *)
THEOREM EveryProfileValidates == Spec => []ProfilesValidate
  <1>1. ScanInv => ProfilesValidate
    <2> SUFFICES ASSUME ScanInv, NEW profile \in Profiles, NEW card \in Profile(profile),
                        scanned = <<card>>
                 PROVE  result \in {"OK", "DUPLICATE_HANDLE", "CAPACITY"}
      BY DEF ProfilesValidate
    <2>1. PICK other \in Cards : scanned = <<other>> /\ Outcome(other, db, result)
      BY DEF ScanInv, LastScan
    <2>2. other = card
      BY <2>1
    <2>3. Validate(card.image, card.size) = "OK"
      BY ProfileCards
    <2> QED
      BY <2>1, <2>2, <2>3 DEF Outcome, ParseResults
  <1> QED
    BY <1>1, ScanInvariant, PTL

(* A scan, also one that breaks off, only adds behind what the tables      *)
(* hold, and a rejected image adds nothing (atarix_discovery_parse).       *)
THEOREM ScansNeverDisturb == Spec => ScansOnlyAppend
  <1> DEFINE Appends == scanned' # << >> =>
                 /\ \A table \in Tables : IsPrefix(db[table], db'[table])
                 /\ Validate(scanned'[1].image, scanned'[1].size) # "OK" => db' = db
  <1>1. ScanInv /\ ScanInv' /\ [Next]_vars => [Appends]_vars
    <2> SUFFICES ASSUME ScanInv, ScanInv', Next PROVE Appends
      OBVIOUS
    <2>1. ASSUME NEW card \in Cards, Scan(card) PROVE Appends
      <3>1. /\ Grows(db, db') /\ scanned'[1] = card
            /\ Validate(card.image, card.size) # "OK" => db' = db
        BY <2>1, ScanStep DEF Scan
      <3>2. db \in Database /\ db' \in Database
        BY DEF ScanInv, DatabaseInv
      <3>3. \A table \in Tables : IsPrefix(db[table], db'[table])
        BY <3>1, <3>2, GrowsIsPrefix
      <3> QED
        BY <3>1, <3>3
    <2>2. CASE DatabaseInit
      BY <2>2 DEF DatabaseInit
    <2> QED
      BY <2>1, <2>2 DEF Next
  <1> QED
    BY <1>1, ScanInvariant, PTL DEF Spec, ScansOnlyAppend

==============================================================================
