------------------------------ MODULE BibHandoff ------------------------------
(***************************************************************************)
(* Producer and consumer of one buffer.  The producer builds a block call  *)
(* by call, or captures one, and may start over; the consumer opens the    *)
(* buffer at any moment, keeps its view, and reads records and references  *)
(* through it whenever it likes, since nothing in the code ties a view to  *)
(* the life of the block it was opened on.  Blocks of another producer     *)
(* arrive too.                                                             *)
(***************************************************************************)
EXTENDS BootInfoBlock

CONSTANTS
    Capacities,         \* of the buffer, as given to the builder
    Windows,            \* window lengths the consumer opens with
    Adds,               \* [type, flags, payload] handed to the builder
    References,         \* [object_id, address, length] of a capture
    ForeignBlocks       \* blocks of another producer

ASSUME HandoffAssumption ==
    /\ Capacities \subseteq Nat /\ Windows \subseteq Nat
    /\ Adds \subseteq [type : Nat, flags : SUBSET FlagBits, payload : PayloadRecord]
    /\ References \subseteq [object_id : Nat, address : Nat, length : Nat]
    /\ ForeignBlocks \subseteq Block

VARIABLES
    b,          \* buffer and builder
    view,       \* the consumer's view
    opened,     \* result of its open, until something else happens
    dump        \* what bibdump printed, likewise

vars == <<b, view, opened, dump>>

NoDump == [code |-> 0, lines |-> << >>]

Blank == [Unsealed(TRUE) EXCEPT !.magic = FALSE]

Init ==
    /\ b = NoBuilder(Blank)
    /\ view = NoView
    /\ opened = "NONE"
    /\ dump = NoDump

(* The result of a call goes to the caller, who may ignore it.             *)
Produce(next) ==
    /\ b' = [next EXCEPT !.result = "OK"]
    /\ opened' = "NONE"
    /\ dump' = NoDump
    /\ UNCHANGED view

Start(capacity, flags_known) == Produce(BuilderInit(b, capacity, flags_known))

Add(tlv) == Produce(AddTlv(b, tlv.type, tlv.flags, tlv.payload))

SealBlock == Produce(Seal(b))

CaptureBlock(capacity, flags_known, service, memory) ==
    Produce(Capture(b, capacity, flags_known, service, memory))

Receive(block) == Produce(NoBuilder(block))

Open(window) ==
    /\ opened' = OpenStatus(b.mem, window)
    /\ view' = ViewAfterOpen(view, b.mem, window)
    /\ dump' = NoDump
    /\ UNCHANGED b

Dump(window) ==
    /\ dump' = DumpFile(b.mem, window)
    /\ opened' = "NONE"
    /\ UNCHANGED <<b, view>>

Next ==
    \/ \E capacity \in Capacities, known \in BOOLEAN : Start(capacity, known)
    \/ \E tlv \in Adds : Add(tlv)
    \/ SealBlock
    \/ \E capacity \in Capacities, known \in BOOLEAN, service, memory \in References :
           CaptureBlock(capacity, known, service, memory)
    \/ \E block \in ForeignBlocks : Receive(block)
    \/ \E window \in Windows : Open(window)
    \/ \E window \in Windows : Dump(window)

Spec == Init /\ [][Next]_vars

---------------------------------------------------------------------------

(* The builder's running length and count are those of the records in the  *)
(* buffer, padding included, and no record lies beyond the capacity        *)
(* (atarix_bib_builder_add_tlv adds up three lengths of its own).          *)
LengthAccounts ==
    b.live => /\ b.length = OffsetOf(b.mem.tlvs, HeaderSize)[b.tlv_count]
              /\ b.length <= b.capacity

(* A block under construction never opens: neither the half-built records  *)
(* nor what an earlier, finished block left in the buffer can pass.        *)
OnlySealedOpens ==
    b.live /\ ~b.sealed =>
        \A window \in Windows : OpenStatus(b.mem, window) # "OK"

(* The reader finds no fault with the builder's own work: a sealed block   *)
(* is refused only for what the caller put into it (no or two required     *)
(* references, a reference too short or past the end of memory, an unknown *)
(* mandatory type) or for being longer than readers accept.                *)
SealedIsWellFormed ==
    b.live /\ b.sealed =>
        LET status == OpenStatus(b.mem, b.capacity)
        IN  \/ status \in {"OK", "UNKNOWN_MANDATORY", "REFERENCE_OVERFLOW", "REQUIRED_RECORD"}
            \/ status = "TOTAL_LENGTH" /\ b.length > MaxBlock
            \/ status = "TLV_BOUNDS" /\ \E i \in DOMAIN b.mem.tlvs :
                    /\ b.mem.tlvs[i].type \in {ServiceDirectory, MemoryMap}
                    /\ b.mem.tlvs[i].payload.size < ReferenceSize

(* Whatever the producer does to the buffer after a view was opened on it, *)
(* every record the view hands out lies inside the length that was checked *)
(* against the window then, header and payload included.                   *)
ReadsStayInside ==
    \A i \in 1 .. view.tlv_count :
        ReadRecord(b.mem.tlvs, view, i) = "OK" =>
            LET start == OffsetOf(b.mem.tlvs, view.tlv_offset)[i - 1]
            IN  /\ start >= HeaderSize
                /\ start + TlvHeaderSize + b.mem.tlvs[i].payload.size <= view.total_length

(* Once a block has been opened, and while nobody writes to it, every      *)
(* record can be read and the directory and the map are found, each being  *)
(* the only record of its type; only the integrity field of a reference    *)
(* may still be refused.                                                   *)
OpenedIsReadable ==
    opened = "OK" =>
        /\ \A i \in 1 .. view.tlv_count : ReadRecord(b.mem.tlvs, view, i) = "OK"
        /\ \A type \in {ServiceDirectory, MemoryMap} :
               LET found == FindReference(b.mem.tlvs, view, type)
               IN  \/ /\ found.status = "OK"
                      /\ \A i \in 1 .. view.tlv_count :
                             b.mem.tlvs[i].type = type <=> i = found.index
                   \/ found.status = "REFERENCE_INTEGRITY"

(* bibdump looks a reference up by its type, so what it prints under one   *)
(* is never a later record nor one of another type, but the first of its   *)
(* type: the record itself for the directory and the map, of which an open *)
(* block has one, and of other types unless an earlier record has the same *)
(* type.  What it prints of a sensitive record that is no reference is     *)
(* redacted.                                                               *)
DumpShowsItsRecord ==
    \A i \in DOMAIN dump.lines :
        LET Type(j) == b.mem.tlvs[j].type
            kind    == dump.lines[i][1]
            shown   == dump.lines[i][2]
        IN  /\ kind = "reference" =>
                   /\ shown \in 1 .. i /\ Type(shown) = Type(i)
                   /\ \A j \in 1 .. shown - 1 : Type(j) # Type(i)
                   /\ Type(i) \in {ServiceDirectory, MemoryMap} => shown = i
            /\ kind = "opaque" => "SENSITIVE" \notin b.mem.tlvs[i].flags

==============================================================================
