---------------------------- MODULE BootInfoBlock ----------------------------
(***************************************************************************)
(* The boot information block: src/bib/bib_builder.c writes one into a     *)
(* buffer, src/bib/bib_reader.c validates it and reads it in place,        *)
(* tools/bibdump renders it, src/sim/sim_bib.c builds the simulator's.     *)
(*                                                                         *)
(* A buffer holds a header and the records written one behind the other;   *)
(* what lies behind the last record is zero.  A payload is its size and,   *)
(* where it is long enough to be one, the fields of a reference; its other *)
(* bytes are left out.  A CRC field is empty (zero) or holds what it was   *)
(* computed over, so a CRC tells any two contents apart.                   *)
(***************************************************************************)
EXTENDS Integers, Sequences, SequencesExt, FiniteSets, FiniteSetsExt

CONSTANTS
    MaxBlock,       \* ATARIX_BIB_RECOMMENDED_MAX_SIZE_V1
    MaxU32,         \* UINT32_MAX
    MaxAddress      \* UINT64_MAX

ASSUME BlockAssumption == MaxBlock \in Nat /\ MaxU32 \in Nat /\ MaxAddress \in Nat

HeaderSize    == 64
TlvHeaderSize == 16
ReferenceSize == 40
Major         == 1

Aligned(length) == length % 8 = 0
Align8(length)  == ((length + 7) \div 8) * 8

ServiceDirectory == 1
MemoryMap        == 2
AuditLog         == 8
EntropySeed      == 10

KnownType(type)     == type \in ServiceDirectory .. EntropySeed
IsReferenceType(type) == type \in {ServiceDirectory, MemoryMap, AuditLog, EntropySeed}
TlvFlags == {"MANDATORY", "SENSITIVE"}
FlagBits == TlvFlags \cup {"RESERVED"}      \* any bit a reader does not know

Payload(size, object_id, address, length, integrity_length) ==
    [size |-> size, object_id |-> object_id, address |-> address, length |-> length,
     integrity_length |-> integrity_length]

Tlv(type, flags, length, payload) ==
    [type |-> type, flags |-> flags, length |-> length, payload |-> payload,
     reserved |-> 0]

PayloadRecord ==
    [size : Nat, object_id : Nat, address : Nat, length : Nat, integrity_length : Nat]

TlvRecord ==
    [type : Nat, flags : SUBSET FlagBits, length : Nat, payload : PayloadRecord, reserved : Nat]

TlvArea == Seq(TlvRecord)

BlockWith(Crc) ==
    [magic : BOOLEAN, version_major : Nat, header_length : Nat, flags_known : BOOLEAN,
     total_length : Nat, crc : Crc, tlv_offset : Nat, tlv_count : Nat, reserved : Nat,
     tlvs : TlvArea]

(* What a CRC is computed over has a CRC field of zero.                    *)
Crcs  == Seq(BlockWith({<< >>}))
Block == BlockWith(Crcs)

Unsealed(flags_known) ==
    [magic |-> TRUE, version_major |-> Major, header_length |-> HeaderSize,
     flags_known |-> flags_known, total_length |-> 0, crc |-> << >>,
     tlv_offset |-> HeaderSize, tlv_count |-> 0, reserved |-> 0, tlvs |-> << >>]

ContentCrc(block) == <<[block EXCEPT !.crc = << >>]>>

WithCrc(block) == [block EXCEPT !.crc = ContentCrc(block)]

---------------------------------------------------------------------------
(* The builder.  b holds the buffer, the builder's fields, and the result  *)
(* of the last call; no call that fails changes anything else.             *)

BuilderResults == {"OK", "ARGUMENT", "STATE", "FLAGS", "LENGTH", "CAPACITY"}

Builder ==
    [mem : Block, live : BOOLEAN, capacity : Nat, length : Nat, tlv_count : Nat,
     sealed : BOOLEAN, result : BuilderResults]

NoBuilder(block) ==
    [mem |-> block, live |-> FALSE, capacity |-> 0, length |-> 0, tlv_count |-> 0,
     sealed |-> FALSE, result |-> "OK"]

InitWithoutClearing(b, capacity, flags_known) ==
    IF capacity < HeaderSize THEN b
    ELSE [b EXCEPT !.live = TRUE, !.capacity = capacity, !.length = HeaderSize, !.mem.magic = TRUE,
                   !.tlv_count = 0, !.sealed = FALSE]

BuilderInit(b, capacity, flags_known) ==
    IF capacity < HeaderSize \/ capacity > MaxU32 THEN [b EXCEPT !.result = "ARGUMENT"]
    ELSE IF ~flags_known THEN [b EXCEPT !.result = "FLAGS"]
    ELSE [mem |-> Unsealed(TRUE), live |-> TRUE, capacity |-> capacity,
          length |-> HeaderSize, tlv_count |-> 0, sealed |-> FALSE, result |-> "OK"]

FitsUnpadded(b, record_length) == record_length - 8 <= b.capacity - b.length

Fits(b, record_length) ==
    b.length <= b.capacity /\ record_length <= b.capacity - b.length

RecordLengthUnpadded(payload) == TlvHeaderSize + payload.size

RecordLength(payload) == Align8(TlvHeaderSize + payload.size)

AddTlv(b, type, flags, payload) ==
    IF ~b.live THEN [b EXCEPT !.result = "ARGUMENT"]
    ELSE IF b.sealed THEN [b EXCEPT !.result = "STATE"]
    ELSE IF ~(flags \subseteq TlvFlags) THEN [b EXCEPT !.result = "FLAGS"]
    ELSE IF payload.size > MaxU32 - TlvHeaderSize \/ TlvHeaderSize + payload.size > MaxU32 - 7
    THEN [b EXCEPT !.result = "LENGTH"]
    ELSE IF ~Fits(b, RecordLength(payload)) THEN [b EXCEPT !.result = "CAPACITY"]
    ELSE [b EXCEPT !.mem.tlvs = Append(@, Tlv(type, flags, RecordLength(payload), payload)),
                   !.length = @ + RecordLength(payload),
                   !.tlv_count = @ + 1,
                   !.result = "OK"]

AddReference(b, type, flags, object_id, address, length) ==
    AddTlv(b, type, flags, Payload(ReferenceSize, object_id, address, length, 0))

Seal(b) ==
    IF ~b.live THEN [b EXCEPT !.result = "ARGUMENT"]
    ELSE IF b.sealed THEN [b EXCEPT !.result = "STATE"]
    ELSE [b EXCEPT !.mem = WithCrc([@ EXCEPT !.total_length = b.length,
                                             !.tlv_count = b.tlv_count]),
                   !.sealed = TRUE,
                   !.result = "OK"]

(* atarix_sim_bib_capture: it stops at the first call that fails.  Its     *)
(* builder is local to the call; keeping it as the buffer's builder adds   *)
(* no content that Init, Add and Seal could not produce.                   *)
Capture(b, capacity, flags_known, service, memory) ==
    LET opened == BuilderInit(b, capacity, flags_known)
        first  == AddReference(opened, ServiceDirectory, {"MANDATORY"},
                      service.object_id, service.address, service.length)
        second == AddReference(first, MemoryMap, {"MANDATORY"},
                      memory.object_id, memory.address, memory.length)
    IN  IF opened.result # "OK" THEN opened
        ELSE IF first.result # "OK" THEN first
        ELSE IF second.result # "OK" THEN second
        ELSE Seal(second)

---------------------------------------------------------------------------
(* The reader.  A view is the buffer's header as it was when it was        *)
(* opened; the records are read from the buffer again at every access.     *)

NoView == [open |-> FALSE, total_length |-> 0, tlv_offset |-> 0, tlv_count |-> 0]

OffsetOf(tlvs, start) ==
    LET offset[i \in 0 .. Len(tlvs)] ==
            IF i = 0 THEN start ELSE offset[i - 1] + tlvs[i].length
    IN  offset

(* record_at_offset for the i-th record, counting from 1.                  *)
RecordUnbounded(tlvs, view, i) == IF i > Len(tlvs) THEN "TLV_BOUNDS" ELSE "OK"

RecordStatus(tlvs, view, i) ==
    LET offset == OffsetOf(tlvs, view.tlv_offset)[i - 1]
        room   == view.total_length - offset
    IN  IF i > Len(tlvs) \/ room < TlvHeaderSize THEN "TLV_BOUNDS"
        ELSE IF \/ tlvs[i].length < TlvHeaderSize
                \/ ~Aligned(tlvs[i].length)
                \/ tlvs[i].length > room
                \/ tlvs[i].payload.size > tlvs[i].length - TlvHeaderSize
        THEN "TLV_BOUNDS"
        ELSE IF ~(tlvs[i].flags \subseteq TlvFlags) \/ tlvs[i].reserved # 0
        THEN "TLV_RESERVED"
        ELSE "OK"

OpenRecordHeader(tlvs, view, i) == RecordStatus(tlvs, view, i)

(* What the loop of atarix_bib_reader_open makes of one record.            *)
OpenRecord(tlvs, view, i) ==
    IF RecordStatus(tlvs, view, i) # "OK" THEN RecordStatus(tlvs, view, i)
    ELSE IF ~KnownType(tlvs[i].type) /\ "MANDATORY" \in tlvs[i].flags
    THEN "UNKNOWN_MANDATORY"
    ELSE IF tlvs[i].type \notin {ServiceDirectory, MemoryMap} THEN "OK"
    ELSE IF tlvs[i].payload.size < ReferenceSize THEN "TLV_BOUNDS"
    ELSE IF tlvs[i].payload.address > MaxAddress - tlvs[i].payload.length
    THEN "REFERENCE_OVERFLOW"
    ELSE "OK"

(* The record a loop over 1 .. last stops at, last + 1 for none.           *)
FirstFailure(refused, last) == Min(refused \cup {last + 1})

CountOf(tlvs, type) == Cardinality({i \in DOMAIN tlvs : tlvs[i].type = type})

OpenTlvs(block, view) ==
    LET Status(i) == OpenRecord(block.tlvs, view, i)
        failed    == FirstFailure({i \in 1 .. view.tlv_count : Status(i) # "OK"}, view.tlv_count)
        records   == SubSeq(block.tlvs, 1, view.tlv_count)
    IN  IF failed <= view.tlv_count THEN Status(failed)
        ELSE IF OffsetOf(block.tlvs, view.tlv_offset)[view.tlv_count] # view.total_length
        THEN "TLV_BOUNDS"
        ELSE IF CountOf(records, ServiceDirectory) # 1 \/ CountOf(records, MemoryMap) # 1
        THEN "REQUIRED_RECORD"
        ELSE "OK"

OpenedView(block) ==
    [open |-> TRUE, total_length |-> block.total_length,
     tlv_offset |-> block.tlv_offset, tlv_count |-> block.tlv_count]

OpenStatus(block, window) ==
    IF window < HeaderSize THEN "WINDOW"
    ELSE IF ~block.magic THEN "MAGIC"
    ELSE IF block.version_major # Major THEN "VERSION"
    ELSE IF block.header_length # HeaderSize THEN "HEADER_LENGTH"
    ELSE IF \/ block.total_length < HeaderSize
            \/ block.total_length > window
            \/ block.total_length > MaxBlock
            \/ ~Aligned(block.total_length)
    THEN "TOTAL_LENGTH"
    ELSE IF ContentCrc(block) # block.crc THEN "CRC"
    ELSE IF ~block.flags_known \/ block.reserved # 0 THEN "HEADER_RESERVED"
    ELSE IF \/ block.tlv_offset < HeaderSize
            \/ block.tlv_offset > block.total_length
            \/ ~Aligned(block.tlv_offset)
    THEN "TLV_BOUNDS"
    ELSE OpenTlvs(block, OpenedView(block))

(* The view after atarix_bib_reader_open: the window is looked at before   *)
(* the view is cleared.                                                    *)
ViewAfterOpen(view, block, window) ==
    CASE OpenStatus(block, window) = "OK"     -> OpenedView(block)
      [] OpenStatus(block, window) = "WINDOW" -> view
      [] OTHER                                -> NoView

(* atarix_bib_reader_record: every record up to the wanted one must pass.  *)
ReadRecord(tlvs, view, i) ==
    IF ~view.open \/ i > view.tlv_count THEN "TLV_BOUNDS"
    ELSE LET Status(j) == RecordStatus(tlvs, view, j)
             failed    == FirstFailure({j \in 1 .. i : Status(j) # "OK"}, i)
         IN  IF failed <= i THEN Status(failed) ELSE "OK"

(* atarix_bib_reader_find_reference: a status and the record found.        *)
Found(status, i) == [status |-> status, index |-> i]

FindReference(tlvs, view, type) ==
    LET Stop(i) == \/ ReadRecord(tlvs, view, i) # "OK"
                   \/ tlvs[i].type = type
        at == Min({i \in 1 .. view.tlv_count : Stop(i)} \cup {view.tlv_count + 1})
    IN  IF at > view.tlv_count THEN Found("REQUIRED_RECORD", 0)
        ELSE IF ReadRecord(tlvs, view, at) # "OK" THEN Found(ReadRecord(tlvs, view, at), 0)
        ELSE IF tlvs[at].payload.size < ReferenceSize THEN Found("TLV_BOUNDS", 0)
        ELSE IF tlvs[at].payload.integrity_length > tlvs[at].payload.size - ReferenceSize
        THEN Found("REFERENCE_INTEGRITY", 0)
        ELSE Found("OK", at)

---------------------------------------------------------------------------
(* bibdump: the exit code, and for each record printed what is shown of    *)
(* it, a reference being the fields of the record with that index.         *)

ShownUnredacted(tlvs, view, i) == <<"opaque", i>>

Shown(tlvs, view, i) ==
    IF IsReferenceType(tlvs[i].type)
    THEN <<"reference", FindReference(tlvs, view, tlvs[i].type).index>>
    ELSE <<IF "SENSITIVE" \in tlvs[i].flags THEN "redacted" ELSE "opaque", i>>

(* Files larger than the limit are refused before they are read; a record  *)
(* that cannot be read or whose reference is not found ends the dump.      *)
DumpFile(block, window) ==
    IF window > MaxBlock THEN [code |-> 1, lines |-> << >>]
    ELSE IF OpenStatus(block, window) # "OK" THEN [code |-> 2, lines |-> << >>]
    ELSE LET view == OpenedView(block)
             tlvs == block.tlvs
             Status(i) == IF IsReferenceType(tlvs[i].type)
                          THEN FindReference(tlvs, view, tlvs[i].type).status
                          ELSE "OK"
             failed == FirstFailure({i \in 1 .. view.tlv_count : Status(i) # "OK"}, view.tlv_count)
         IN  [code  |-> IF failed <= view.tlv_count THEN 2 ELSE 0,
              lines |-> [i \in 1 .. failed - 1 |-> Shown(tlvs, view, i)]]

==============================================================================
