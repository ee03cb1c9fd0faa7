------------------------------ MODULE BibProofs ------------------------------
(***************************************************************************)
(* The results about the boot information block, for any buffers, windows  *)
(* and records, and blocks of any content from another producer.  The      *)
(* builder's calls keep BuilderInv, which says how the running length, the *)
(* records and the header belong together; what is known of a view or a    *)
(* dump is how it was computed.                                            *)
(***************************************************************************)
EXTENDS BibHandoff, SharedLemmas, FiniteSetTheorems

------------------------------------------------------------------------------
(***************************************************************************)
(* Offsets of records.                                                     *)
(***************************************************************************)

Lengths(tlvs) == [i \in 1 .. Len(tlvs) |-> tlvs[i].length]

LEMMA TlvFields ==
    ASSUME NEW tlvs \in TlvArea
    PROVE  /\ Len(tlvs) \in Nat /\ DOMAIN tlvs = 1 .. Len(tlvs)
           /\ \A i \in 1 .. Len(tlvs) : tlvs[i] \in TlvRecord
           /\ \A i \in 1 .. Len(tlvs) : Lengths(tlvs)[i] = tlvs[i].length /\ tlvs[i].length \in Nat
  <1>1. /\ Len(tlvs) \in Nat /\ DOMAIN tlvs = 1 .. Len(tlvs)
        /\ \A i \in 1 .. Len(tlvs) : tlvs[i] \in TlvRecord
    BY DEF TlvArea
  <1>2. \A i \in 1 .. Len(tlvs) : tlvs[i].length \in Nat
    BY <1>1 DEF TlvRecord
  <1> QED
    BY <1>1, <1>2 DEF Lengths

LEMMA OffsetIsTotal ==
    ASSUME NEW tlvs \in TlvArea, NEW start
    PROVE  IsTotal(OffsetOf(tlvs, start), Len(tlvs), start, Lengths(tlvs))
  <1> DEFINE n == Len(tlvs)
             Rule(f) == [i \in 0 .. n |-> IF i = 0 THEN start ELSE f[i - 1] + tlvs[i].length]
  <1>1. n \in Nat /\ \A i \in 1 .. n : Lengths(tlvs)[i] = tlvs[i].length
    BY TlvFields
  <1>2. ASSUME NEW f
        PROVE  Rule(f) = [i \in 0 .. n |-> IF i = 0 THEN start ELSE f[i - 1] + Lengths(tlvs)[i]]
    <2>1. \A i \in 0 .. n : i # 0 => i \in 1 .. n
      BY <1>1
    <2> HIDE DEF n
    <2> QED
      BY <1>1, <2>1
  <1>3. \E f : f = Rule(f)
    <2>1. PICK f : IsTotal(f, n, start, Lengths(tlvs))
      BY <1>1, TotalExists
    <2>2. f = Rule(f)
      BY <1>2, <2>1 DEF IsTotal
    <2> QED
      BY <2>2
  <1>4. OffsetOf(tlvs, start) = CHOOSE f : f = Rule(f)
    BY DEF OffsetOf
  <1>5. OffsetOf(tlvs, start) = Rule(OffsetOf(tlvs, start))
    <2> HIDE DEF Rule
    <2> QED
      BY <1>3, <1>4
  <1> QED
    BY <1>2, <1>5 DEF IsTotal

(* The i-th offset is the start and the lengths of the records before.     *)
LEMMA OffsetFacts ==
    ASSUME NEW tlvs \in TlvArea, NEW start \in Nat
    PROVE  /\ OffsetOf(tlvs, start)[0] = start
           /\ \A i \in 0 .. Len(tlvs) : OffsetOf(tlvs, start)[i] \in Nat
           /\ \A i \in 1 .. Len(tlvs) :
                 OffsetOf(tlvs, start)[i] = OffsetOf(tlvs, start)[i - 1] + tlvs[i].length
           /\ \A i \in 0 .. Len(tlvs) : \A j \in i .. Len(tlvs) :
                 OffsetOf(tlvs, start)[i] <= OffsetOf(tlvs, start)[j]
  <1> DEFINE n == Len(tlvs)
             L == Lengths(tlvs)
             o == OffsetOf(tlvs, start)
  <1>1. n \in Nat /\ (\A i \in 1 .. n : L[i] = tlvs[i].length) /\ \A i \in 1 .. n : L[i] \in Nat
    BY TlvFields
  <1>2. IsTotal(o, n, start, L)
    BY OffsetIsTotal
  <1> HIDE DEF n, L, o
  <1>3. /\ o[0] = start
        /\ \A i \in 0 .. n : o[i] \in Nat
        /\ \A i \in 1 .. n : o[i] = o[i - 1] + L[i]
    BY <1>1, <1>2, TotalSteps
  <1>4. \A i \in 0 .. n : \A j \in i .. n : o[i] <= o[j]
    BY <1>1, <1>2, TotalGrows
  <1> QED
    BY <1>1, <1>3, <1>4 DEF n, o

(* A record written behind the others moves none of them.                  *)
LEMMA OffsetAppend ==
    ASSUME NEW tlvs \in TlvArea, NEW start \in Nat, NEW tlv \in TlvRecord
    PROVE  OffsetOf(Append(tlvs, tlv), start)[Len(tlvs) + 1]
             = OffsetOf(tlvs, start)[Len(tlvs)] + tlv.length
  <1> DEFINE n == Len(tlvs)
             more == Append(tlvs, tlv)
  <1>1. n \in Nat /\ more \in TlvArea /\ Len(more) = n + 1 /\ more[n + 1] = tlv
        /\ \A i \in 1 .. n : more[i] = tlvs[i]
    BY DEF TlvArea
  <1> DEFINE f == OffsetOf(more, start)
             g == OffsetOf(tlvs, start)
             S == {k \in 0 .. n : g[k] = f[k]}
  <1>2. /\ f[0] = start /\ g[0] = start
        /\ \A i \in 1 .. n : f[i] = f[i - 1] + more[i].length /\ g[i] = g[i - 1] + tlvs[i].length
    <2>1. \A i \in 1 .. n : i \in 1 .. Len(more)
      BY <1>1
    <2> QED
      BY <1>1, <2>1, OffsetFacts
  <1> HIDE DEF n, more, f, g
  <1>3. 0 \in S
    BY <1>1, <1>2
  <1>4. ASSUME NEW k \in 0 .. n - 1, k \in S PROVE k + 1 \in S
    <2>1. k + 1 \in 1 .. n /\ (k + 1) - 1 = k /\ k + 1 \in 0 .. n
      BY <1>1, <1>4
    <2> QED
      BY <1>1, <1>2, <1>4, <2>1
  <1>5. \A k \in 0 .. n : k \in S
    <2> HIDE DEF S
    <2> QED
      BY <1>1, <1>3, <1>4, SetInduction
  <1>6. OffsetOf(tlvs, start)[n] = OffsetOf(more, start)[n]
    <2>1. n \in 0 .. n
      BY <1>1
    <2> QED
      BY <1>5, <2>1 DEF f, g
  <1>7. OffsetOf(more, start)[n + 1] = OffsetOf(more, start)[n] + tlv.length
    <2>1. n + 1 \in 1 .. Len(more) /\ (n + 1) - 1 = n
      BY <1>1
    <2> QED
      BY <1>1, <2>1, OffsetFacts
  <1> QED
    BY <1>6, <1>7 DEF n, more

------------------------------------------------------------------------------
(***************************************************************************)
(* The builder.                                                            *)
(***************************************************************************)

(* The header fields the builder writes once.                              *)
HeaderWritten(block) ==
    /\ block.magic /\ block.version_major = Major /\ block.header_length = HeaderSize
    /\ block.flags_known /\ block.tlv_offset = HeaderSize /\ block.reserved = 0

RecordWritten(tlv) ==
    /\ tlv.length = RecordLength(tlv.payload)
    /\ tlv.flags \subseteq TlvFlags
    /\ tlv.reserved = 0

LengthsAgree(c) ==
    /\ c.capacity >= HeaderSize /\ c.length <= c.capacity /\ c.length >= HeaderSize
    /\ Aligned(c.length)
    /\ c.tlv_count = Len(c.mem.tlvs)
    /\ c.length = OffsetOf(c.mem.tlvs, HeaderSize)[Len(c.mem.tlvs)]

SealState(c) ==
    IF c.sealed
    THEN /\ c.mem.total_length = c.length /\ c.mem.tlv_count = c.tlv_count
         /\ c.mem.crc = ContentCrc(c.mem)
    ELSE c.mem.crc = << >>

BuilderInv(c) ==
    /\ c \in Builder
    /\ c.live => /\ HeaderWritten(c.mem)
                 /\ \A i \in DOMAIN c.mem.tlvs : RecordWritten(c.mem.tlvs[i])
                 /\ LengthsAgree(c)
                 /\ SealState(c)

LEMMA AlignFacts ==
    ASSUME NEW x \in Nat
    PROVE  Align8(x) \in Nat /\ Align8(x) >= x /\ Align8(x) % 8 = 0
  BY DEF Align8

(* Nothing of this depends on the result of a call.                        *)
LEMMA ResultIsFree ==
    ASSUME NEW c, BuilderInv(c), NEW status \in BuilderResults
    PROVE  BuilderInv([c EXCEPT !.result = status])
  <1> DEFINE d == [c EXCEPT !.result = status]
  <1>1. /\ d \in Builder /\ d.mem = c.mem /\ d.live = c.live /\ d.capacity = c.capacity
        /\ d.length = c.length /\ d.tlv_count = c.tlv_count /\ d.sealed = c.sealed
    BY DEF BuilderInv, Builder
  <1> HIDE DEF d
  <1>2. BuilderInv(d)
    BY <1>1 DEF BuilderInv, LengthsAgree, SealState
  <1> QED
    BY <1>2 DEF d

LEMMA UnsealedIsBlock == Unsealed(TRUE) \in Block /\ Blank \in Block
  <1>1. << >> \in Crcs /\ << >> \in TlvArea
    BY DEF Crcs, TlvArea
  <1> QED
    BY <1>1 DEF Unsealed, Blank, Block, BlockWith, HeaderSize, Major

LEMMA InitKeeps ==
    ASSUME NEW c, BuilderInv(c), NEW capacity \in Nat, NEW known \in BOOLEAN
    PROVE  BuilderInv(BuilderInit(c, capacity, known))
  <1>1. CASE capacity < HeaderSize \/ capacity > MaxU32 \/ ~known
    <2>1. \/ BuilderInit(c, capacity, known) = [c EXCEPT !.result = "ARGUMENT"]
          \/ BuilderInit(c, capacity, known) = [c EXCEPT !.result = "FLAGS"]
      BY <1>1 DEF BuilderInit
    <2> QED
      BY <2>1, ResultIsFree DEF BuilderResults
  <1>2. CASE ~(capacity < HeaderSize \/ capacity > MaxU32 \/ ~known)
    <2> DEFINE d == BuilderInit(c, capacity, known)
    <2>1. d = [mem |-> Unsealed(TRUE), live |-> TRUE, capacity |-> capacity,
               length |-> HeaderSize, tlv_count |-> 0, sealed |-> FALSE, result |-> "OK"]
      BY <1>2 DEF BuilderInit
    <2>2. d \in Builder
      <3>1. HeaderSize \in Nat /\ 0 \in Nat /\ "OK" \in BuilderResults
        BY DEF HeaderSize, BuilderResults
      <3> HIDE DEF d
      <3> QED
        BY <2>1, <3>1, UnsealedIsBlock, Zenon DEF Builder
    <2>3. HeaderWritten(d.mem) /\ d.mem.crc = << >> /\ d.mem.tlvs = << >>
      BY <2>1 DEF HeaderWritten, Unsealed
    <2>4. /\ d.capacity = capacity /\ d.length = HeaderSize /\ d.tlv_count = 0
          /\ d.sealed = FALSE
      BY <2>1
    <2> HIDE DEF d
    <2>5. OffsetOf(<< >>, HeaderSize)[0] = HeaderSize /\ Len(<< >>) = 0
      <3>1. << >> \in TlvArea /\ HeaderSize \in Nat
        BY DEF TlvArea, HeaderSize
      <3> QED
        BY <3>1, OffsetFacts
    <2>6. LengthsAgree(d)
      <3>1. capacity >= HeaderSize
        BY <1>2 DEF HeaderSize
      <3>2. Aligned(HeaderSize) /\ HeaderSize >= HeaderSize
        BY DEF Aligned, HeaderSize
      <3> QED
        BY <2>3, <2>4, <2>5, <3>1, <3>2 DEF LengthsAgree
    <2>7. DOMAIN d.mem.tlvs = {}
      BY <2>3
    <2>8. BuilderInv(d)
      BY <2>2, <2>3, <2>4, <2>6, <2>7 DEF BuilderInv, SealState
    <2> QED
      BY <2>8 DEF d
  <1> QED
    BY <1>1, <1>2

(* A record that fits: the running length is still the end of the last     *)
(* record.                                                                 *)
LEMMA AddKeeps ==
    ASSUME NEW c, BuilderInv(c), NEW type \in Nat, NEW flags \in SUBSET FlagBits,
           NEW payload \in PayloadRecord
    PROVE  BuilderInv(AddTlv(c, type, flags, payload))
  <1> DEFINE d == AddTlv(c, type, flags, payload)
             size == RecordLength(payload)
             tlv == Tlv(type, flags, size, payload)
             n == Len(c.mem.tlvs)
             Refused == \/ ~c.live \/ c.sealed \/ ~(flags \subseteq TlvFlags)
                        \/ payload.size > MaxU32 - TlvHeaderSize
                        \/ TlvHeaderSize + payload.size > MaxU32 - 7
                        \/ ~Fits(c, size)
  <1>1. CASE Refused
    <2>1. \E status \in {"ARGUMENT", "STATE", "FLAGS", "LENGTH", "CAPACITY"} :
              d = [c EXCEPT !.result = status]
      BY <1>1, Zenon DEF AddTlv
    <2>2. PICK status \in BuilderResults : d = [c EXCEPT !.result = status]
      BY <2>1 DEF BuilderResults
    <2> QED
      BY <2>2, ResultIsFree
  <1>2. CASE ~Refused
    <2>1. d = [c EXCEPT !.mem.tlvs = Append(@, tlv), !.length = @ + size,
                        !.tlv_count = @ + 1, !.result = "OK"]
      BY <1>2, Zenon DEF AddTlv
    <2>2. c \in Builder /\ c.mem \in Block /\ c.mem.tlvs \in TlvArea /\ c.length \in Nat
          /\ c.tlv_count \in Nat /\ c.capacity \in Nat
      BY DEF BuilderInv, Builder, Block, BlockWith
    <2>3. size \in Nat /\ size % 8 = 0
      <3>1. TlvHeaderSize + payload.size \in Nat
        BY DEF PayloadRecord, TlvHeaderSize
      <3> QED
        BY <3>1, AlignFacts DEF RecordLength
    <2>4. tlv \in TlvRecord /\ RecordWritten(tlv) /\ tlv.length = size
      BY <1>2, <2>3 DEF Tlv, TlvRecord, RecordWritten
    <2> HIDE DEF size, tlv, d
    <2>5. /\ d.mem.tlvs = Append(c.mem.tlvs, tlv) /\ d.length = c.length + size
          /\ d.tlv_count = c.tlv_count + 1 /\ d.live = c.live /\ d.sealed = c.sealed
          /\ d.capacity = c.capacity /\ d.result = "OK"
      BY <2>1, <2>2 DEF Builder, Block, BlockWith
    <2>6. /\ d.mem = [c.mem EXCEPT !.tlvs = Append(c.mem.tlvs, tlv)]
      BY <2>1, <2>2 DEF Builder
    <2>7. Append(c.mem.tlvs, tlv) \in TlvArea
      BY <2>2, <2>4 DEF TlvArea
    <2>8. d.mem \in Block
      BY <2>2, <2>6, <2>7 DEF Block, BlockWith
    <2>9. d \in Builder
      <3>1. d = [c EXCEPT !.mem = d.mem, !.length = c.length + size,
                          !.tlv_count = c.tlv_count + 1, !.result = "OK"]
        BY <2>1, <2>2, <2>6 DEF Builder
      <3>2. /\ c.length + size \in Nat /\ c.tlv_count + 1 \in Nat /\ "OK" \in BuilderResults
            /\ d.mem \in Block
        BY <2>2, <2>3, <2>8 DEF BuilderResults
      <3> QED
        BY <2>2, <3>1, <3>2, Zenon DEF Builder
    <2>10. /\ HeaderWritten(d.mem) /\ d.mem.crc = << >>
      BY <1>2, <2>2, <2>6 DEF BuilderInv, HeaderWritten, SealState, Block, BlockWith
    <2>11. \A i \in DOMAIN d.mem.tlvs : RecordWritten(d.mem.tlvs[i])
      <3>1. /\ n \in Nat /\ DOMAIN d.mem.tlvs = 1 .. n + 1 /\ DOMAIN c.mem.tlvs = 1 .. n
            /\ d.mem.tlvs[n + 1] = tlv
            /\ \A i \in 1 .. n : d.mem.tlvs[i] = c.mem.tlvs[i]
        BY <2>2, <2>4, <2>5 DEF TlvArea
      <3>2. \A i \in 1 .. n : RecordWritten(c.mem.tlvs[i])
        BY <1>2, <3>1 DEF BuilderInv
      <3> QED
        BY <2>4, <3>1, <3>2
    <2>12. LengthsAgree(d)
      <3>1. LengthsAgree(c) /\ c.length + size <= c.capacity
        BY <1>2, <2>2, <2>3 DEF BuilderInv, Fits
      <3>2. Len(d.mem.tlvs) = n + 1 /\ n \in Nat
        BY <2>2, <2>5 DEF TlvArea
      <3>3. OffsetOf(d.mem.tlvs, HeaderSize)[n + 1] = OffsetOf(c.mem.tlvs, HeaderSize)[n] + size
        <4>1. HeaderSize \in Nat
          BY DEF HeaderSize
        <4> QED
          BY <2>2, <2>4, <2>5, <4>1, OffsetAppend
      <3>4. Aligned(c.length + size)
        BY <2>2, <2>3, <3>1 DEF LengthsAgree, Aligned
      <3> QED
        BY <2>2, <2>3, <2>5, <3>1, <3>2, <3>3, <3>4 DEF LengthsAgree, HeaderSize
    <2> QED
      BY <1>2, <2>5, <2>9, <2>10, <2>11, <2>12 DEF BuilderInv, SealState, d
  <1> QED
    BY <1>1, <1>2

LEMMA SealKeeps ==
    ASSUME NEW c, BuilderInv(c)
    PROVE  BuilderInv(Seal(c))
  <1>1. CASE ~c.live \/ c.sealed
    <2>1. \E status \in {"ARGUMENT", "STATE"} : Seal(c) = [c EXCEPT !.result = status]
      BY <1>1, Zenon DEF Seal
    <2>2. PICK status \in BuilderResults : Seal(c) = [c EXCEPT !.result = status]
      BY <2>1 DEF BuilderResults
    <2> QED
      BY <2>2, ResultIsFree
  <1>2. CASE c.live /\ ~c.sealed
    <2> DEFINE m == [c.mem EXCEPT !.total_length = c.length, !.tlv_count = c.tlv_count]
               d == Seal(c)
    <2>1. d = [c EXCEPT !.mem = WithCrc(m), !.sealed = TRUE, !.result = "OK"]
      BY <1>2 DEF Seal
    <2>2. c \in Builder /\ c.mem \in Block /\ c.length \in Nat /\ c.tlv_count \in Nat
      BY DEF BuilderInv, Builder
    <2>3. /\ m \in Block /\ m.total_length = c.length /\ m.tlv_count = c.tlv_count
          /\ m.tlvs = c.mem.tlvs
          /\ HeaderWritten(m) <=> HeaderWritten(c.mem)
      BY <2>2 DEF Block, BlockWith, HeaderWritten
    <2> HIDE DEF m, d
    <2>4. ContentCrc(m) \in Crcs
      <3>1. [m EXCEPT !.crc = << >>] \in BlockWith({<< >>})
        BY <2>3 DEF Block, BlockWith
      <3> QED
        BY <3>1 DEF ContentCrc, Crcs
    <2> DEFINE w == WithCrc(m)
    <2>5. /\ w \in Block /\ w.total_length = c.length /\ w.tlv_count = c.tlv_count
          /\ w.tlvs = c.mem.tlvs /\ w.crc = ContentCrc(m)
          /\ HeaderWritten(w) <=> HeaderWritten(c.mem)
      <3> DEFINE x == ContentCrc(m)
      <3> HIDE DEF x
      <3>1. w = [m EXCEPT !.crc = x]
        BY DEF WithCrc, x
      <3>2. x \in Crcs
        BY <2>4 DEF x
      <3> HIDE DEF w
      <3>3. /\ w \in Block /\ w.total_length = m.total_length /\ w.tlv_count = m.tlv_count
            /\ w.tlvs = m.tlvs /\ w.crc = x
            /\ HeaderWritten(w) <=> HeaderWritten(m)
        BY <2>3, <3>1, <3>2 DEF Block, BlockWith, HeaderWritten
      <3> QED
        BY <2>3, <3>3 DEF x
    <2>6. ContentCrc(w) = ContentCrc(m)
      <3> DEFINE x == ContentCrc(m)
      <3> HIDE DEF x
      <3>1. w = [m EXCEPT !.crc = x] /\ x \in Crcs
        BY <2>4 DEF WithCrc, x
      <3> HIDE DEF w
      <3>2. [w EXCEPT !.crc = << >>] = [m EXCEPT !.crc = << >>]
        BY <2>3, <3>1 DEF Block, BlockWith
      <3> QED
        BY <3>2 DEF ContentCrc
    <2> HIDE DEF w
    <2>7. /\ d \in Builder /\ d.mem = w /\ d.live = c.live /\ d.capacity = c.capacity
          /\ d.length = c.length /\ d.tlv_count = c.tlv_count /\ d.sealed = TRUE
      BY <2>1, <2>2, <2>5 DEF Builder, BuilderResults, w
    <2> QED
      BY <1>2, <2>5, <2>6, <2>7 DEF BuilderInv, LengthsAgree, SealState, d
  <1> QED
    BY <1>1, <1>2 DEF BuilderInv, Builder

LEMMA CaptureKeeps ==
    ASSUME NEW c, BuilderInv(c), NEW capacity \in Nat, NEW known \in BOOLEAN,
           NEW service \in [object_id : Nat, address : Nat, length : Nat],
           NEW memory \in [object_id : Nat, address : Nat, length : Nat]
    PROVE  BuilderInv(Capture(c, capacity, known, service, memory))
  <1> DEFINE start  == BuilderInit(c, capacity, known)
             first  == AddReference(start, ServiceDirectory, {"MANDATORY"},
                           service.object_id, service.address, service.length)
             second == AddReference(first, MemoryMap, {"MANDATORY"},
                           memory.object_id, memory.address, memory.length)
  <1>1. /\ {"MANDATORY"} \in SUBSET FlagBits /\ ServiceDirectory \in Nat /\ MemoryMap \in Nat
        /\ Payload(ReferenceSize, service.object_id, service.address, service.length, 0)
             \in PayloadRecord
        /\ Payload(ReferenceSize, memory.object_id, memory.address, memory.length, 0)
             \in PayloadRecord
    BY DEF FlagBits, TlvFlags, ServiceDirectory, MemoryMap, Payload, ReferenceSize, PayloadRecord
  <1>2. BuilderInv(start)
    BY InitKeeps
  <1> HIDE DEF start
  <1>3. BuilderInv(first)
    BY <1>1, <1>2, AddKeeps DEF AddReference
  <1> HIDE DEF first
  <1>4. BuilderInv(second)
    BY <1>1, <1>3, AddKeeps DEF AddReference
  <1> HIDE DEF second
  <1>5. BuilderInv(Seal(second))
    BY <1>4, SealKeeps
  <1>6. Capture(c, capacity, known, service, memory) \in {start, first, second, Seal(second)}
    BY Zenon DEF Capture, start, first, second
  <1> QED
    BY <1>2, <1>3, <1>4, <1>5, <1>6

LEMMA ForeignKeeps ==
    ASSUME NEW block \in Block
    PROVE  BuilderInv(NoBuilder(block))
  <1>1. 0 \in Nat /\ "OK" \in BuilderResults
    BY DEF BuilderResults
  <1>2. NoBuilder(block) \in Builder
    BY <1>1, Zenon DEF NoBuilder, Builder
  <1>3. ~NoBuilder(block).live
    BY DEF NoBuilder
  <1> QED
    BY <1>2, <1>3 DEF BuilderInv

------------------------------------------------------------------------------
(***************************************************************************)
(* The reader.                                                             *)
(***************************************************************************)

(* The loops stop at the first record that is refused, or behind the last. *)
LEMMA FailureFacts ==
    ASSUME NEW last \in Nat, NEW refused \in SUBSET (1 .. last)
    PROVE  /\ FirstFailure(refused, last) \in 1 .. last + 1
           /\ FirstFailure(refused, last) <= last <=> refused # {}
           /\ FirstFailure(refused, last) <= last => FirstFailure(refused, last) \in refused
           /\ \A i \in refused : FirstFailure(refused, last) <= i
  <1> DEFINE S == refused \cup {last + 1}
  <1>1. S \in SUBSET Nat /\ S # {} /\ \A i \in S : i \in 1 .. last + 1
    OBVIOUS
  <1>2. Min(S) \in S /\ \A i \in S : Min(S) <= i
    BY <1>1, MinIsLeast
  <1>3. FirstFailure(refused, last) = Min(S)
    BY DEF FirstFailure
  <1> HIDE DEF S
  <1>4. Min(S) \in 1 .. last + 1
    BY <1>1, <1>2
  <1>5. \A i \in refused : i \in S /\ i <= last
    BY DEF S
  <1>6. Min(S) <= last => Min(S) \in refused
    BY <1>2 DEF S
  <1>7. refused # {} => Min(S) <= last
    <2> SUFFICES ASSUME NEW i \in refused PROVE Min(S) <= last
      OBVIOUS
    <2>1. i \in 1 .. last /\ Min(S) <= i
      BY <1>2, <1>5
    <2> QED
      BY <1>4, <2>1
  <1> QED
    BY <1>2, <1>3, <1>4, <1>5, <1>6, <1>7

(* A record that passes lies inside the length the view was opened with.   *)
LEMMA RecordFacts ==
    ASSUME NEW tlvs \in TlvArea, NEW v, v.tlv_offset \in Nat, v.total_length \in Nat,
           NEW i \in Nat \ {0}, RecordStatus(tlvs, v, i) = "OK"
    PROVE  /\ i \in 1 .. Len(tlvs)
           /\ OffsetOf(tlvs, v.tlv_offset)[i - 1] >= v.tlv_offset
           /\ OffsetOf(tlvs, v.tlv_offset)[i - 1] + TlvHeaderSize + tlvs[i].payload.size
                 <= v.total_length
  <1> DEFINE offset == OffsetOf(tlvs, v.tlv_offset)[i - 1]
             room == v.total_length - offset
  <1>1. /\ ~(i > Len(tlvs)) /\ ~(tlvs[i].length > room)
        /\ ~(tlvs[i].payload.size > tlvs[i].length - TlvHeaderSize)
    BY Zenon DEF RecordStatus
  <1>2. Len(tlvs) \in Nat
    BY TlvFields
  <1>3. i \in 1 .. Len(tlvs)
    BY <1>1, <1>2
  <1>4. tlvs[i].length \in Nat /\ tlvs[i].payload.size \in Nat
    BY <1>3, TlvFields DEF TlvRecord, PayloadRecord
  <1>5. offset \in Nat /\ offset >= v.tlv_offset
    <2>1. i - 1 \in 0 .. Len(tlvs) /\ 0 \in 0 .. Len(tlvs) /\ i - 1 \in 0 .. Len(tlvs)
      BY <1>2, <1>3
    <2> QED
      BY <2>1, OffsetFacts
  <1>6. TlvHeaderSize \in Nat
    BY DEF TlvHeaderSize
  <1> HIDE DEF offset
  <1>7. offset + TlvHeaderSize + tlvs[i].payload.size <= v.total_length
    BY <1>1, <1>4, <1>5, <1>6
  <1> QED
    BY <1>3, <1>5, <1>7 DEF offset

(* Reading a record is looking at every record up to it.                   *)
LEMMA ReadFacts ==
    ASSUME NEW tlvs, NEW v, NEW i \in Nat \ {0}
    PROVE  ReadRecord(tlvs, v, i) = "OK" <=>
               /\ v.open /\ ~(i > v.tlv_count)
               /\ \A j \in 1 .. i : RecordStatus(tlvs, v, j) = "OK"
  <1> DEFINE refused == {j \in 1 .. i : RecordStatus(tlvs, v, j) # "OK"}
             failed  == FirstFailure(refused, i)
  <1>1. ReadRecord(tlvs, v, i) = IF ~v.open \/ i > v.tlv_count THEN "TLV_BOUNDS"
                                 ELSE IF failed <= i THEN RecordStatus(tlvs, v, failed) ELSE "OK"
    BY DEF ReadRecord
  <1>2. /\ failed <= i <=> refused # {}
        /\ failed <= i => failed \in refused
    BY FailureFacts
  <1>3. failed \in refused => RecordStatus(tlvs, v, failed) # "OK"
    OBVIOUS
  <1>4. refused = {} <=> \A j \in 1 .. i : RecordStatus(tlvs, v, j) = "OK"
    OBVIOUS
  <1> HIDE DEF refused, failed
  <1> QED
    BY <1>1, <1>2, <1>3, <1>4, Zenon

(* What was looked up by type is the first record of that type.            *)
LEMMA FoundFacts ==
    ASSUME NEW tlvs, NEW v, v.tlv_count \in Nat, NEW type,
           FindReference(tlvs, v, type).status = "OK"
    PROVE  LET at == FindReference(tlvs, v, type).index
           IN  /\ at \in 1 .. v.tlv_count
               /\ ReadRecord(tlvs, v, at) = "OK"
               /\ tlvs[at].type = type
               /\ \A j \in 1 .. v.tlv_count : tlvs[j].type = type => at <= j
  <1> DEFINE stops == {i \in 1 .. v.tlv_count : ReadRecord(tlvs, v, i) # "OK" \/ tlvs[i].type = type}
             at == FirstFailure(stops, v.tlv_count)
  <1>1. /\ ~(at > v.tlv_count) /\ ReadRecord(tlvs, v, at) = "OK"
        /\ FindReference(tlvs, v, type).index = at
    <2> DEFINE small == tlvs[at].payload.size < ReferenceSize
               broken == tlvs[at].payload.integrity_length > tlvs[at].payload.size - ReferenceSize
    <2>1. FindReference(tlvs, v, type) =
             IF at > v.tlv_count THEN Found("REQUIRED_RECORD", 0)
             ELSE IF ReadRecord(tlvs, v, at) # "OK" THEN Found(ReadRecord(tlvs, v, at), 0)
             ELSE IF small THEN Found("TLV_BOUNDS", 0)
             ELSE IF broken THEN Found("REFERENCE_INTEGRITY", 0)
             ELSE Found("OK", at)
      BY DEF FindReference, FirstFailure
    <2>2. \A s, k : Found(s, k).status = s /\ Found(s, k).index = k
      BY DEF Found
    <2> HIDE DEF small, broken, at
    <2> QED
      BY <2>1, <2>2
  <1>2. /\ at \in 1 .. v.tlv_count + 1 /\ (at <= v.tlv_count => at \in stops)
        /\ \A j \in stops : at <= j
    BY FailureFacts
  <1>3. at \in 1 .. v.tlv_count /\ at \in stops
    <2> HIDE DEF at, stops
    <2> QED
      BY <1>1, <1>2
  <1>4. tlvs[at].type = type
    BY <1>1, <1>3
  <1>5. \A j \in 1 .. v.tlv_count : tlvs[j].type = type => at <= j
    BY <1>2
  <1> QED
    BY <1>1, <1>3, <1>4, <1>5

(* Two records of a type that occurs once are the same record.             *)
LEMMA OneOfAType ==
    ASSUME NEW tlvs \in TlvArea, NEW type, CountOf(tlvs, type) = 1
    PROVE  \E k \in 1 .. Len(tlvs) : \A i \in 1 .. Len(tlvs) : tlvs[i].type = type <=> i = k
  <1> DEFINE S == {i \in DOMAIN tlvs : tlvs[i].type = type}
  <1>1. Len(tlvs) \in Nat /\ DOMAIN tlvs = 1 .. Len(tlvs)
    BY TlvFields
  <1>2. IsFiniteSet(S)
    <2>1. IsFiniteSet(1 .. Len(tlvs))
      BY <1>1, FS_Interval
    <2>2. S \in SUBSET (1 .. Len(tlvs))
      BY <1>1
    <2> QED
      BY <2>1, <2>2, FS_Subset
  <1>3. Cardinality(S) = 1
    BY DEF CountOf
  <1>4. PICK k : S = {k}
    BY <1>2, <1>3, FS_Singleton
  <1>5. k \in 1 .. Len(tlvs) /\ \A i \in 1 .. Len(tlvs) : tlvs[i].type = type <=> i = k
    BY <1>1, <1>4
  <1> QED
    BY <1>5

(* What passes the checks of the header, and of the records behind it.     *)
LEMMA OpenFacts ==
    ASSUME NEW block \in Block, NEW window \in Nat, OpenStatus(block, window) = "OK"
    PROVE  /\ block.crc = ContentCrc(block)
           /\ block.tlv_offset >= HeaderSize
           /\ OpenTlvs(block, OpenedView(block)) = "OK"
  <1>1. /\ block.crc = ContentCrc(block)
        /\ ~(block.tlv_offset < HeaderSize)
        /\ OpenTlvs(block, OpenedView(block)) = "OK"
    BY Zenon DEF OpenStatus
  <1>2. block.tlv_offset \in Nat /\ HeaderSize \in Nat
    BY DEF Block, BlockWith, HeaderSize
  <1> QED
    BY <1>1, <1>2

LEMMA OpenTlvsFacts ==
    ASSUME NEW block \in Block, NEW v, v.tlv_count \in Nat
    PROVE  OpenTlvs(block, v) = "OK" =>
             /\ \A i \in 1 .. v.tlv_count : OpenRecord(block.tlvs, v, i) = "OK"
             /\ \A type \in {ServiceDirectory, MemoryMap} :
                    CountOf(SubSeq(block.tlvs, 1, v.tlv_count), type) = 1
  <1> DEFINE refused == {i \in 1 .. v.tlv_count : OpenRecord(block.tlvs, v, i) # "OK"}
             failed == FirstFailure(refused, v.tlv_count)
             records == SubSeq(block.tlvs, 1, v.tlv_count)
             end == OffsetOf(block.tlvs, v.tlv_offset)[v.tlv_count]
  <1>1. OpenTlvs(block, v) =
          IF failed <= v.tlv_count THEN OpenRecord(block.tlvs, v, failed)
          ELSE IF end # v.total_length THEN "TLV_BOUNDS"
          ELSE IF CountOf(records, ServiceDirectory) # 1 \/ CountOf(records, MemoryMap) # 1
          THEN "REQUIRED_RECORD" ELSE "OK"
    BY DEF OpenTlvs
  <1>2. /\ failed <= v.tlv_count <=> refused # {}
        /\ failed <= v.tlv_count => failed \in refused
    BY FailureFacts
  <1>3. failed \in refused => OpenRecord(block.tlvs, v, failed) # "OK"
    OBVIOUS
  <1>4. refused = {} => \A i \in 1 .. v.tlv_count : OpenRecord(block.tlvs, v, i) = "OK"
    OBVIOUS
  <1> HIDE DEF refused, failed, records, end
  <1>5. OpenTlvs(block, v) = "OK" =>
            /\ ~(failed <= v.tlv_count)
            /\ CountOf(records, ServiceDirectory) = 1 /\ CountOf(records, MemoryMap) = 1
    BY <1>1, <1>2, <1>3, Zenon
  <1> QED
    BY <1>2, <1>4, <1>5, Zenon DEF records

(* Exactly one of the records is of that type.                             *)
OccursOnce(tlvs, count, type) ==
    \E k \in 1 .. count : \A i \in 1 .. count : tlvs[i].type = type <=> i = k

WholeReferences(tlvs, count) ==
    \A i \in 1 .. count : tlvs[i].type \in {ServiceDirectory, MemoryMap} =>
                             ~(tlvs[i].payload.size < ReferenceSize)

(* An opened block: every record is read, the two required types occur     *)
(* once, and as whole references.                                          *)
LEMMA OpenedFacts ==
    ASSUME NEW block \in Block, NEW v, v = OpenedView(block), OpenTlvs(block, v) = "OK"
    PROVE  /\ v.tlv_count <= Len(block.tlvs)
           /\ \A i \in 1 .. v.tlv_count : ReadRecord(block.tlvs, v, i) = "OK"
           /\ WholeReferences(block.tlvs, v.tlv_count)
           /\ \A type \in {ServiceDirectory, MemoryMap} :
                  OccursOnce(block.tlvs, v.tlv_count, type)
  <1> DEFINE tlvs == block.tlvs
             count == v.tlv_count
             records == SubSeq(tlvs, 1, count)
  <1>1. /\ tlvs \in TlvArea /\ count \in Nat /\ v.tlv_offset \in Nat /\ v.total_length \in Nat
        /\ v.open
    BY DEF Block, BlockWith, OpenedView
  <1>2. /\ \A i \in 1 .. count : OpenRecord(tlvs, v, i) = "OK"
        /\ \A type \in {ServiceDirectory, MemoryMap} : CountOf(records, type) = 1
    BY <1>1, OpenTlvsFacts
  <1>3. \A i \in 1 .. count :
            /\ RecordStatus(tlvs, v, i) = "OK"
            /\ tlvs[i].type \in {ServiceDirectory, MemoryMap} =>
                   ~(tlvs[i].payload.size < ReferenceSize)
    <2> SUFFICES ASSUME NEW i \in 1 .. count
                 PROVE  /\ RecordStatus(tlvs, v, i) = "OK"
                        /\ tlvs[i].type \in {ServiceDirectory, MemoryMap} =>
                               ~(tlvs[i].payload.size < ReferenceSize)
      OBVIOUS
    <2>1. OpenRecord(tlvs, v, i) = "OK"
      BY <1>2
    <2> QED
      BY <2>1, Zenon DEF OpenRecord
  <1> HIDE DEF tlvs, count
  <1>4. \A i \in 1 .. count : ReadRecord(tlvs, v, i) = "OK"
    <2> SUFFICES ASSUME NEW i \in 1 .. count PROVE ReadRecord(tlvs, v, i) = "OK"
      OBVIOUS
    <2>1. i \in Nat \ {0} /\ ~(i > count) /\ \A j \in 1 .. i : j \in 1 .. count
      BY <1>1
    <2> QED
      BY <1>1, <1>3, <2>1, ReadFacts DEF count
  <1>5. count <= Len(tlvs)
    <2>1. CASE count = 0
      BY <1>1, <2>1, TlvFields
    <2>2. CASE count # 0
      <3>1. count \in 1 .. count /\ count \in Nat \ {0}
        BY <1>1, <2>2
      <3>2. count \in 1 .. Len(tlvs)
        BY <1>1, <1>3, <3>1, RecordFacts
      <3> QED
        BY <1>1, <3>2, TlvFields
    <2> QED
      BY <2>1, <2>2
  <1>6. ASSUME NEW type \in {ServiceDirectory, MemoryMap}
        PROVE  OccursOnce(tlvs, count, type)
    <2>1. records \in TlvArea /\ Len(records) = count /\ \A i \in 1 .. count : records[i] = tlvs[i]
      BY <1>1, <1>5 DEF TlvArea
    <2>2. CountOf(records, type) = 1
      BY <1>2, <1>6
    <2> HIDE DEF records
    <2>3. PICK k \in 1 .. count : \A i \in 1 .. count : records[i].type = type <=> i = k
      BY <2>1, <2>2, OneOfAType
    <2> QED
      BY <2>1, <2>3 DEF OccursOnce
  <1>7. WholeReferences(tlvs, count)
    BY <1>3 DEF WholeReferences
  <1> QED
    BY <1>4, <1>5, <1>6, <1>7 DEF tlvs, count

------------------------------------------------------------------------------
(***************************************************************************)
(* Producer and consumer.                                                  *)
(***************************************************************************)

(* A view has the bounds of a block that was opened once.                  *)
ViewBounded ==
    /\ view.tlv_count \in Nat
    /\ view.open => /\ view.tlv_offset \in Nat /\ view.tlv_offset >= HeaderSize
                    /\ view.total_length \in Nat

(* The result of an open, and a dump, are of the buffer as it is now.      *)
OpenedHere == opened = "OK" => view = OpenedView(b.mem) /\ OpenTlvs(b.mem, view) = "OK"

DumpedHere == dump = NoDump \/ \E window \in Windows : dump = DumpFile(b.mem, window)

HandoffInv == BuilderInv(b) /\ ViewBounded /\ OpenedHere /\ DumpedHere

LEMMA InitHandoffInv == Init => HandoffInv
  <1> SUFFICES ASSUME Init PROVE HandoffInv
    OBVIOUS
  <1>1. BuilderInv(b)
    BY UnsealedIsBlock, ForeignKeeps DEF Init
  <1>2. ViewBounded
    BY DEF Init, NoView, ViewBounded
  <1> QED
    BY <1>1, <1>2 DEF Init, HandoffInv, OpenedHere, DumpedHere

LEMMA ProduceKeeps ==
    ASSUME HandoffInv, NEW next, BuilderInv(next), Produce(next)
    PROVE  HandoffInv'
  <1>1. BuilderInv(b')
    <2>1. "OK" \in BuilderResults
      BY DEF BuilderResults
    <2> QED
      BY <2>1, ResultIsFree DEF Produce
  <1>2. ViewBounded' /\ OpenedHere' /\ DumpedHere'
    BY DEF HandoffInv, Produce, ViewBounded, OpenedHere, DumpedHere, NoDump
  <1> QED
    BY <1>1, <1>2 DEF HandoffInv, BuilderInv, LengthsAgree, SealState

LEMMA OpenKeeps ==
    ASSUME HandoffInv, NEW window \in Windows, Open(window)
    PROVE  HandoffInv'
  <1>1. b.mem \in Block /\ window \in Nat
    BY HandoffAssumption DEF HandoffInv, BuilderInv, Builder
  <1>2. CASE OpenStatus(b.mem, window) = "OK"
    <2>1. view' = OpenedView(b.mem) /\ opened' = "OK" /\ b' = b /\ dump' = NoDump
      BY <1>2 DEF Open, ViewAfterOpen
    <2>2. /\ OpenTlvs(b.mem, OpenedView(b.mem)) = "OK" /\ b.mem.tlv_offset >= HeaderSize
      BY <1>1, <1>2, OpenFacts
    <2>3. /\ b.mem.tlv_count \in Nat /\ b.mem.tlv_offset \in Nat /\ b.mem.total_length \in Nat
      BY <1>1 DEF Block, BlockWith
    <2>4. /\ view'.tlv_count = b.mem.tlv_count /\ view'.tlv_offset = b.mem.tlv_offset
          /\ view'.total_length = b.mem.total_length
      BY <2>1 DEF OpenedView
    <2>5. ViewBounded'
      BY <2>2, <2>3, <2>4 DEF ViewBounded
    <2> QED
      BY <2>1, <2>2, <2>5 DEF HandoffInv, OpenedHere, DumpedHere
  <1>3. CASE OpenStatus(b.mem, window) # "OK"
    <2>1. /\ view' \in {view, NoView} /\ opened' # "OK" /\ b' = b /\ dump' = NoDump
      BY <1>3 DEF Open, ViewAfterOpen
    <2>2. ViewBounded'
      BY <2>1 DEF HandoffInv, ViewBounded, NoView
    <2> QED
      BY <2>1, <2>2 DEF HandoffInv, OpenedHere, DumpedHere
  <1> QED
    BY <1>2, <1>3

LEMMA NextHandoffInv == HandoffInv /\ [Next]_vars => HandoffInv'
  <1> SUFFICES ASSUME HandoffInv, [Next]_vars PROVE HandoffInv'
    OBVIOUS
  <1> USE DEF HandoffInv
  <1>1. ASSUME NEW capacity \in Capacities, NEW known \in BOOLEAN, Start(capacity, known)
        PROVE  HandoffInv'
    BY <1>1, HandoffAssumption, InitKeeps, ProduceKeeps DEF Start
  <1>2. ASSUME NEW tlv \in Adds, Add(tlv)
        PROVE  HandoffInv'
    <2>1. tlv.type \in Nat /\ tlv.flags \in SUBSET FlagBits /\ tlv.payload \in PayloadRecord
      BY HandoffAssumption
    <2> QED
      BY <1>2, <2>1, AddKeeps, ProduceKeeps DEF Add
  <1>3. CASE SealBlock
    BY <1>3, SealKeeps, ProduceKeeps DEF SealBlock
  <1>4. ASSUME NEW capacity \in Capacities, NEW known \in BOOLEAN, NEW service \in References,
               NEW memory \in References, CaptureBlock(capacity, known, service, memory)
        PROVE  HandoffInv'
    <2>1. BuilderInv(Capture(b, capacity, known, service, memory))
      BY HandoffAssumption, CaptureKeeps
    <2> QED
      BY <1>4, <2>1, ProduceKeeps DEF CaptureBlock
  <1>5. ASSUME NEW block \in ForeignBlocks, Receive(block)
        PROVE  HandoffInv'
    BY <1>5, HandoffAssumption, ForeignKeeps, ProduceKeeps DEF Receive
  <1>6. ASSUME NEW window \in Windows, Open(window)
        PROVE  HandoffInv'
    BY <1>6, OpenKeeps
  <1>7. ASSUME NEW window \in Windows, Dump(window)
        PROVE  HandoffInv'
    BY <1>7 DEF Dump, ViewBounded, OpenedHere, DumpedHere
  <1>8. CASE UNCHANGED vars
    BY <1>8 DEF vars, ViewBounded, OpenedHere, DumpedHere
  <1> QED
    BY <1>1, <1>2, <1>3, <1>4, <1>5, <1>6, <1>7, <1>8 DEF Next

(* The handoff keeps HandoffInv.                                           *)
LEMMA HandoffInvariant == Spec => []HandoffInv
  BY InitHandoffInv, NextHandoffInv, PTL DEF Spec

------------------------------------------------------------------------------
(***************************************************************************)
(* The results.                                                            *)
(***************************************************************************)

(* Whatever calls the producer makes in whatever order, its running length *)
(* is the end of the last record and never beyond the capacity             *)
(* (atarix_bib_builder_add_tlv).                                           *)
THEOREM RunningLengthAccounts == Spec => []LengthAccounts
  <1>1. HandoffInv => LengthAccounts
    <2> SUFFICES ASSUME HandoffInv, b.live PROVE LengthAccounts
      BY DEF LengthAccounts
    <2>1. LengthsAgree(b)
      BY DEF HandoffInv, BuilderInv
    <2> QED
      BY <2>1 DEF LengthsAgree, LengthAccounts
  <1> QED
    BY <1>1, HandoffInvariant, PTL

(* A block that is being built, over whatever was in the buffer before, is *)
(* refused by every open until it is sealed: its CRC field is still zero   *)
(* (atarix_bib_builder_init, atarix_bib_reader_open).                      *)
THEOREM HalfBuiltNeverOpens == Spec => []OnlySealedOpens
  <1>1. HandoffInv => OnlySealedOpens
    <2> SUFFICES ASSUME HandoffInv, b.live, ~b.sealed, NEW window \in Windows,
                        OpenStatus(b.mem, window) = "OK"
                 PROVE  FALSE
      BY DEF OnlySealedOpens
    <2>1. b.mem \in Block /\ window \in Nat /\ b.mem.crc = << >>
      BY HandoffAssumption DEF HandoffInv, BuilderInv, SealState, Builder
    <2>2. << >> = ContentCrc(b.mem)
      BY <2>1, OpenFacts
    <2> QED
      BY <2>2 DEF ContentCrc
  <1> QED
    BY <1>1, HandoffInvariant, PTL

(* A view that outlives its block reads only inside the length it was      *)
(* opened with, whatever is in the buffer by then                          *)
(* (atarix_bib_reader_record, record_at_offset).                           *)
THEOREM ViewReadsStayInside == Spec => []ReadsStayInside
  <1>1. HandoffInv => ReadsStayInside
    <2> SUFFICES ASSUME HandoffInv, NEW i \in 1 .. view.tlv_count,
                        ReadRecord(b.mem.tlvs, view, i) = "OK"
                 PROVE  LET start == OffsetOf(b.mem.tlvs, view.tlv_offset)[i - 1]
                        IN  /\ start >= HeaderSize
                            /\ start + TlvHeaderSize + b.mem.tlvs[i].payload.size
                                 <= view.total_length
      BY DEF ReadsStayInside
    <2>1. b.mem.tlvs \in TlvArea /\ i \in Nat \ {0} /\ i \in 1 .. i
      BY DEF HandoffInv, BuilderInv, Builder, Block, BlockWith, ViewBounded
    <2>2. view.open /\ RecordStatus(b.mem.tlvs, view, i) = "OK"
      BY <2>1, ReadFacts
    <2>3. /\ view.tlv_offset \in Nat /\ view.tlv_offset >= HeaderSize
          /\ view.total_length \in Nat /\ HeaderSize \in Nat
      BY <2>2 DEF HandoffInv, ViewBounded, HeaderSize
    <2> DEFINE start == OffsetOf(b.mem.tlvs, view.tlv_offset)[i - 1]
    <2>4. /\ i \in 1 .. Len(b.mem.tlvs) /\ start >= view.tlv_offset
          /\ start + TlvHeaderSize + b.mem.tlvs[i].payload.size <= view.total_length
      BY <2>1, <2>2, <2>3, RecordFacts
    <2>5. start \in Nat
      <3>1. i - 1 \in 0 .. Len(b.mem.tlvs)
        BY <2>1, <2>4, TlvFields
      <3> QED
        BY <2>1, <2>3, <3>1, OffsetFacts
    <2> HIDE DEF start
    <2>6. start >= HeaderSize
      BY <2>3, <2>4, <2>5
    <2> QED
      BY <2>4, <2>6 DEF start
  <1> QED
    BY <1>1, HandoffInvariant, PTL

(* A block that was opened can be read to the end, and its directory and   *)
(* its map are found (atarix_bib_reader_open checks what                   *)
(* atarix_bib_reader_record and atarix_bib_reader_find_reference need).    *)
THEOREM OpenedBlockIsReadable == Spec => []OpenedIsReadable
  <1>1. HandoffInv => OpenedIsReadable
    <2> SUFFICES ASSUME HandoffInv, opened = "OK" PROVE OpenedIsReadable
      BY DEF OpenedIsReadable
    <2> DEFINE tlvs == b.mem.tlvs
               count == view.tlv_count
    <2>1. b.mem \in Block /\ count \in Nat
      BY DEF HandoffInv, BuilderInv, Builder, ViewBounded
    <2>2. view = OpenedView(b.mem) /\ OpenTlvs(b.mem, view) = "OK"
      BY DEF HandoffInv, OpenedHere
    <2>3. /\ \A i \in 1 .. count : ReadRecord(tlvs, view, i) = "OK"
          /\ WholeReferences(tlvs, count)
          /\ \A type \in {ServiceDirectory, MemoryMap} : OccursOnce(tlvs, count, type)
      BY <2>1, <2>2, OpenedFacts
    <2>4. ASSUME NEW type \in {ServiceDirectory, MemoryMap}
          PROVE  LET found == FindReference(tlvs, view, type)
                 IN  \/ /\ found.status = "OK"
                        /\ \A i \in 1 .. count : tlvs[i].type = type <=> i = found.index
                     \/ found.status = "REFERENCE_INTEGRITY"
      <3>1. PICK k \in 1 .. count : \A i \in 1 .. count : tlvs[i].type = type <=> i = k
        BY <2>3, <2>4 DEF OccursOnce
      <3> DEFINE stops == {i \in 1 .. count : ReadRecord(tlvs, view, i) # "OK" \/ tlvs[i].type = type}
                 at == FirstFailure(stops, count)
                 small == tlvs[at].payload.size < ReferenceSize
                 broken == tlvs[at].payload.integrity_length > tlvs[at].payload.size - ReferenceSize
      <3>2. stops = {k} /\ stops \in SUBSET (1 .. count)
        BY <2>3, <3>1
      <3>3. at <= count /\ at \in stops
        <4> HIDE DEF stops, count
        <4> QED
          BY <2>1, <3>2, FailureFacts
      <3>4. at = k /\ ~(at > count)
        <4> HIDE DEF at, stops, count
        <4>1. at = k
          BY <3>2, <3>3
        <4> QED
          BY <2>1, <3>1, <4>1
      <3>5. FindReference(tlvs, view, type) =
               IF at > count THEN Found("REQUIRED_RECORD", 0)
               ELSE IF ReadRecord(tlvs, view, at) # "OK" THEN Found(ReadRecord(tlvs, view, at), 0)
               ELSE IF small THEN Found("TLV_BOUNDS", 0)
               ELSE IF broken THEN Found("REFERENCE_INTEGRITY", 0)
               ELSE Found("OK", at)
        BY DEF FindReference, FirstFailure
      <3>6. ReadRecord(tlvs, view, at) = "OK" /\ ~small
        BY <2>3, <2>4, <3>1, <3>4 DEF WholeReferences
      <3> HIDE DEF at, small, broken, tlvs, count
      <3>7. FindReference(tlvs, view, type) \in {Found("REFERENCE_INTEGRITY", 0), Found("OK", k)}
        BY <3>4, <3>5, <3>6, Zenon
      <3> QED
        BY <3>1, <3>7 DEF Found
    <2> QED
      BY <2>3, <2>4 DEF OpenedIsReadable
  <1> QED
    BY <1>1, HandoffInvariant, PTL

ShowsFirst(tlvs, i, shown) ==
    /\ shown \in 1 .. i /\ tlvs[shown].type = tlvs[i].type
    /\ \A j \in 1 .. shown - 1 : tlvs[j].type # tlvs[i].type
    /\ tlvs[i].type \in {ServiceDirectory, MemoryMap} => shown = i

(* bibdump shows under a reference the first record of its type, which is  *)
(* the record itself for the directory and the map, and opaque bytes of no *)
(* sensitive record (tools/bibdump looks references up by type).           *)
THEOREM DumpShowsTheRecordItself == Spec => []DumpShowsItsRecord
  <1>1. HandoffInv => DumpShowsItsRecord
    <2> SUFFICES ASSUME HandoffInv, NEW i \in DOMAIN dump.lines
                 PROVE  /\ dump.lines[i][1] = "reference" =>
                              ShowsFirst(b.mem.tlvs, i, dump.lines[i][2])
                        /\ dump.lines[i][1] = "opaque" => "SENSITIVE" \notin b.mem.tlvs[i].flags
      BY DEF DumpShowsItsRecord, ShowsFirst
    <2> DEFINE v == OpenedView(b.mem)
               tlvs == b.mem.tlvs
               count == v.tlv_count
               Status(j) == IF IsReferenceType(tlvs[j].type)
                            THEN FindReference(tlvs, v, tlvs[j].type).status ELSE "OK"
               refused == {j \in 1 .. count : Status(j) # "OK"}
               failed == FirstFailure(refused, count)
    <2>1. PICK window \in Windows : /\ dump = DumpFile(b.mem, window)
                                    /\ ~(window > MaxBlock) /\ OpenStatus(b.mem, window) = "OK"
      <3> DEFINE Opens(w) == ~(w > MaxBlock) /\ OpenStatus(b.mem, w) = "OK"
      <3>1. dump # NoDump /\ dump.lines # << >>
        BY DEF NoDump
      <3>2. PICK w \in Windows : dump = DumpFile(b.mem, w)
        BY <3>1 DEF HandoffInv, DumpedHere
      <3>3. Opens(w) \/ \E code \in {1, 2} : DumpFile(b.mem, w) = [code |-> code, lines |-> << >>]
        BY DEF DumpFile
      <3>4. Opens(w)
        <4> HIDE DEF Opens
        <4> QED
          BY <3>1, <3>2, <3>3
      <3> QED
        BY <3>2, <3>4
    <2>2. dump.lines = [j \in 1 .. failed - 1 |-> Shown(tlvs, v, j)]
      BY <2>1 DEF DumpFile
    <2>3. /\ b.mem \in Block /\ window \in Nat /\ tlvs \in TlvArea /\ count \in Nat
      BY HandoffAssumption DEF HandoffInv, BuilderInv, Builder, Block, BlockWith, OpenedView
    <2>4. /\ count <= Len(tlvs)
          /\ \A type \in {ServiceDirectory, MemoryMap} : OccursOnce(tlvs, count, type)
      <3>1. OpenTlvs(b.mem, v) = "OK"
        BY <2>1, <2>3, OpenFacts
      <3> QED
        BY <2>3, <3>1, OpenedFacts
    <2>5. /\ failed \in 1 .. count + 1 /\ \A j \in refused : failed <= j
      <3> HIDE DEF count
      <3>1. refused \in SUBSET (1 .. count)
        OBVIOUS
      <3> HIDE DEF refused
      <3> QED
        BY <2>3, <3>1, FailureFacts
    <2>6. i \in 1 .. failed - 1 /\ dump.lines[i] = Shown(tlvs, v, i)
      BY <2>2
    <2>7. i \in 1 .. count /\ i \notin refused
      <3> HIDE DEF failed, refused, count
      <3> QED
        BY <2>3, <2>5, <2>6
    <2>8. Status(i) = "OK" /\ i \in 1 .. Len(tlvs)
      <3>1. Status(i) = "OK"
        BY <2>7
      <3>2. i \in 1 .. Len(tlvs)
        <4> HIDE DEF count, tlvs
        <4> QED
          BY <2>3, <2>4, <2>7, TlvFields
      <3> QED
        BY <3>1, <3>2
    <2> HIDE DEF refused, failed, count, tlvs, v
    <2>9. CASE IsReferenceType(tlvs[i].type)
      <3> DEFINE at == FindReference(tlvs, v, tlvs[i].type).index
      <3>1. dump.lines[i][1] = "reference" /\ dump.lines[i][2] = at
        BY <2>6, <2>9 DEF Shown
      <3>2. FindReference(tlvs, v, tlvs[i].type).status = "OK"
        BY <2>8, <2>9
      <3>3. /\ at \in 1 .. count /\ tlvs[at].type = tlvs[i].type
            /\ \A j \in 1 .. count : tlvs[j].type = tlvs[i].type => at <= j
        BY <2>3, <3>2, FoundFacts DEF count
      <3> HIDE DEF at
      <3>4. at \in 1 .. i
        BY <2>3, <2>7, <3>3
      <3>5. \A j \in 1 .. at - 1 : tlvs[j].type # tlvs[i].type
        <4> SUFFICES ASSUME NEW j \in 1 .. at - 1 PROVE j \in 1 .. count /\ ~(at <= j)
          BY <3>3
        <4> QED
          BY <2>3, <3>3
      <3>6. tlvs[i].type \in {ServiceDirectory, MemoryMap} => at = i
        BY <2>4, <2>7, <3>3 DEF OccursOnce
      <3>7. ShowsFirst(tlvs, i, at)
        BY <3>3, <3>4, <3>5, <3>6 DEF ShowsFirst
      <3> QED
        BY <3>1, <3>7 DEF tlvs
    <2>10. CASE ~IsReferenceType(tlvs[i].type)
      <3>1. dump.lines[i][1] = IF "SENSITIVE" \in tlvs[i].flags THEN "redacted" ELSE "opaque"
        BY <2>6, <2>10 DEF Shown
      <3> QED
        BY <3>1 DEF tlvs
    <2> QED
      BY <2>9, <2>10
  <1> QED
    BY <1>1, HandoffInvariant, PTL

(* What a refusal of the loop over the records can come from, when each of *)
(* them is written as the builder writes it.                               *)
CallersFault(tlvs, status) ==
    \/ status \in {"OK", "UNKNOWN_MANDATORY", "REFERENCE_OVERFLOW", "REQUIRED_RECORD"}
    \/ status = "TLV_BOUNDS" /\ \E i \in DOMAIN tlvs :
           tlvs[i].type \in {ServiceDirectory, MemoryMap} /\ tlvs[i].payload.size < ReferenceSize

(* The builder's records pass one by one: each lies before the end of the  *)
(* last, and holds its payload.                                            *)
LEMMA BuiltRecordPasses ==
    ASSUME NEW tlvs \in TlvArea, NEW v, v.tlv_offset = HeaderSize,
           v.total_length = OffsetOf(tlvs, HeaderSize)[Len(tlvs)],
           NEW i \in 1 .. Len(tlvs), RecordWritten(tlvs[i])
    PROVE  RecordStatus(tlvs, v, i) = "OK"
  <1> DEFINE n == Len(tlvs)
             o == OffsetOf(tlvs, HeaderSize)
             tlv == tlvs[i]
             room == v.total_length - o[i - 1]
  <1>1. HeaderSize \in Nat /\ TlvHeaderSize \in Nat /\ n \in Nat /\ TlvHeaderSize % 8 = 0
    BY TlvFields DEF HeaderSize, TlvHeaderSize
  <1>2. i - 1 \in 0 .. n /\ i \in 0 .. n /\ n \in i .. n /\ i \in 1 .. n
    BY <1>1
  <1>3. /\ o[i - 1] \in Nat /\ o[i] = o[i - 1] + tlv.length /\ o[i] <= o[n] /\ o[n] \in Nat
    BY <1>1, <1>2, OffsetFacts
  <1>4. tlv.length \in Nat /\ tlv.payload.size \in Nat
    BY TlvFields DEF TlvRecord, PayloadRecord
  <1>5. /\ tlv.length >= TlvHeaderSize + tlv.payload.size /\ Aligned(tlv.length)
        /\ tlv.flags \subseteq TlvFlags /\ tlv.reserved = 0
    <2>1. TlvHeaderSize + tlv.payload.size \in Nat /\ tlv.length = Align8(TlvHeaderSize + tlv.payload.size)
      BY <1>1, <1>4 DEF RecordWritten, RecordLength
    <2> HIDE DEF tlv
    <2>2. Align8(TlvHeaderSize + tlv.payload.size) >= TlvHeaderSize + tlv.payload.size
          /\ Align8(TlvHeaderSize + tlv.payload.size) % 8 = 0
      BY <2>1, AlignFacts
    <2> QED
      BY <2>1, <2>2 DEF RecordWritten, Aligned, tlv
  <1>6. v.total_length = o[n] /\ ~(i > n)
    BY <1>1
  <1> HIDE DEF o, tlv, n
  <1>7. /\ ~(room < TlvHeaderSize) /\ ~(tlv.length < TlvHeaderSize)
        /\ ~(tlv.length > room) /\ ~(tlv.payload.size > tlv.length - TlvHeaderSize)
    <2>1. room \in Int /\ room >= tlv.length
      BY <1>3, <1>4, <1>6
    <2> HIDE DEF room
    <2> QED
      BY <1>1, <1>4, <1>5, <2>1
  <1> QED
    BY <1>5, <1>6, <1>7, Zenon DEF RecordStatus, o, tlv, n

(* So a sealed block, whose count and length are those of its records, is  *)
(* refused by that loop for nothing but what the caller put into it.       *)
LEMMA BuiltTlvsPass ==
    ASSUME NEW block \in Block, NEW v, v.tlv_offset = HeaderSize,
           v.tlv_count = Len(block.tlvs),
           v.total_length = OffsetOf(block.tlvs, HeaderSize)[Len(block.tlvs)],
           \A i \in DOMAIN block.tlvs : RecordWritten(block.tlvs[i])
    PROVE  CallersFault(block.tlvs, OpenTlvs(block, v))
  <1> DEFINE tlvs == block.tlvs
             n == v.tlv_count
             refused == {i \in 1 .. n : OpenRecord(tlvs, v, i) # "OK"}
             failed == FirstFailure(refused, n)
             records == SubSeq(tlvs, 1, n)
  <1>1. tlvs \in TlvArea /\ n \in Nat /\ DOMAIN tlvs = 1 .. n
    <2>1. tlvs \in TlvArea
      BY DEF Block, BlockWith
    <2> QED
      BY <2>1, TlvFields
  <1>2. OpenTlvs(block, v) =
          IF failed <= n THEN OpenRecord(tlvs, v, failed)
          ELSE IF CountOf(records, ServiceDirectory) # 1 \/ CountOf(records, MemoryMap) # 1
          THEN "REQUIRED_RECORD" ELSE "OK"
    BY DEF OpenTlvs
  <1>3. ASSUME NEW i \in 1 .. n
        PROVE  CallersFault(tlvs, OpenRecord(tlvs, v, i))
    <2>1. RecordStatus(tlvs, v, i) = "OK"
      BY <1>1, BuiltRecordPasses
    <2> DEFINE short == /\ tlvs[i].type \in {ServiceDirectory, MemoryMap}
                        /\ tlvs[i].payload.size < ReferenceSize
    <2>2. \/ OpenRecord(tlvs, v, i) \in {"OK", "UNKNOWN_MANDATORY", "REFERENCE_OVERFLOW"}
          \/ OpenRecord(tlvs, v, i) = "TLV_BOUNDS" /\ short
      BY <2>1, Zenon DEF OpenRecord
    <2>3. short => \E j \in DOMAIN tlvs : /\ tlvs[j].type \in {ServiceDirectory, MemoryMap}
                                          /\ tlvs[j].payload.size < ReferenceSize
      BY <1>1, <1>3
    <2> HIDE DEF short
    <2> QED
      BY <2>2, <2>3, Zenon DEF CallersFault
  <1>4. failed <= n => failed \in 1 .. n
    <2>1. refused \in SUBSET (1 .. n)
      OBVIOUS
    <2>2. failed <= n => failed \in refused
      <3> HIDE DEF refused, n
      <3> QED
        BY <1>1, <2>1, FailureFacts
    <2> QED
      BY <2>1, <2>2
  <1> HIDE DEF failed, records, n, tlvs
  <1>5. CallersFault(tlvs, "REQUIRED_RECORD") /\ CallersFault(tlvs, "OK")
    BY DEF CallersFault
  <1>6. CallersFault(tlvs, OpenTlvs(block, v))
    BY <1>2, <1>3, <1>4, <1>5
  <1> QED
    BY <1>6 DEF tlvs

(* The reader finds no fault with what the builder itself writes           *)
(* (atarix_bib_builder_seal against atarix_bib_reader_open).               *)
THEOREM SealedBlockIsWellFormed == Spec => []SealedIsWellFormed
  <1>1. HandoffInv => SealedIsWellFormed
    <2> SUFFICES ASSUME HandoffInv, b.live, b.sealed PROVE SealedIsWellFormed
      BY DEF SealedIsWellFormed
    <2> DEFINE mem == b.mem
               v == OpenedView(mem)
               status == OpenStatus(mem, b.capacity)
    <2>1. /\ mem \in Block /\ b.capacity \in Nat /\ b.length \in Nat
      BY DEF HandoffInv, BuilderInv, Builder
    <2>2. /\ HeaderWritten(mem) /\ LengthsAgree(b)
          /\ \A i \in DOMAIN mem.tlvs : RecordWritten(mem.tlvs[i])
      BY DEF HandoffInv, BuilderInv
    <2>3. /\ mem.total_length = b.length /\ mem.tlv_count = b.tlv_count
          /\ mem.crc = ContentCrc(mem)
      BY DEF HandoffInv, BuilderInv, SealState
    <2>4. /\ v.tlv_offset = HeaderSize /\ v.tlv_count = Len(mem.tlvs)
          /\ v.total_length = OffsetOf(mem.tlvs, HeaderSize)[Len(mem.tlvs)]
      BY <2>2, <2>3 DEF OpenedView, HeaderWritten, LengthsAgree
    <2>5. CallersFault(mem.tlvs, OpenTlvs(mem, v))
      BY <2>1, <2>2, <2>4, BuiltTlvsPass
    <2>6. /\ ~(b.capacity < HeaderSize) /\ ~(mem.total_length < HeaderSize)
          /\ ~(mem.total_length > b.capacity) /\ Aligned(mem.total_length)
          /\ ~(HeaderSize > mem.total_length) /\ ~(HeaderSize < HeaderSize)
          /\ Aligned(HeaderSize)
      BY <2>1, <2>2, <2>3 DEF LengthsAgree, HeaderSize, Aligned
    <2> HIDE DEF mem, v
    <2>7. \/ status = "TOTAL_LENGTH" /\ mem.total_length > MaxBlock
          \/ status = OpenTlvs(mem, v)
      BY <2>2, <2>3, <2>6, Zenon DEF OpenStatus, HeaderWritten, v
    <2> HIDE DEF status
    <2>8. \/ status = "TOTAL_LENGTH" /\ b.length > MaxBlock
          \/ CallersFault(mem.tlvs, status)
      BY <2>3, <2>5, <2>7
    <2> QED
      BY <2>8, Zenon DEF SealedIsWellFormed, CallersFault, status, mem
  <1> QED
    BY <1>1, HandoffInvariant, PTL

==============================================================================
