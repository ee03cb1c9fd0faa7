------------------------------ MODULE Discovery ------------------------------
(***************************************************************************)
(* Discovery images: src/discovery validates one, walks its records and    *)
(* enters them into a database of four tables.  A result is named after    *)
(* its ATARIX_DISCOVERY_ERROR_ constant.                                   *)
(*                                                                         *)
(* An image is its header and its records one behind the other, zero       *)
(* beyond.  Of a record's fields the model keeps the handles: handle is    *)
(* what the parser finds where the type's structure has its own handle,    *)
(* other the second one.  A CRC field holds what it was computed over.     *)
(***************************************************************************)
EXTENDS Integers, Sequences, SequencesExt, FiniteSets, FiniteSetsExt

CONSTANTS
    CopyLimit,      \* bytes of image_copy_stack, 512
    Capacity        \* table -> its capacity

Tables == {"resources", "services", "dependencies", "instrumentation"}

ASSUME DiscoveryAssumption ==
    /\ CopyLimit \in Nat
    /\ Capacity \in [Tables -> Nat]

HeaderSize       == 32
RecordHeaderSize == 8
RecordSize       == 32      \* every structure the parser reads
Major            == 1

Aligned(length) == length % 8 = 0

(* The provider is cut to 16 bits.                                         *)
MakeHandle(provider, type, instance) == <<provider % 65536, type, instance>>

Record(type, length, handle, other) ==
    [type |-> type, length |-> length, handle |-> handle, other |-> other]

(* Of the types only those the parser tells apart, and the others as one   *)
(* that it passes over.                                                    *)
EntryTypes == {"RESOURCE", "SERVICE", "DEPENDENCY", "INSTRUMENTATION"}
Handles    == Seq(Nat)

DiscoveryRecord ==
    [type : EntryTypes \cup {"VENDOR", "END"}, length : Nat, handle : Handles, other : Handles]

End == Record("END", RecordHeaderSize, << >>, << >>)

Header(total_length, record_count) ==
    [magic |-> TRUE, version_major |-> Major, total_length |-> total_length,
     record_count |-> record_count, header_crc32 |-> << >>, image_crc32 |-> << >>]

HeaderWith(HeaderCrcs, ImageCrcs) ==
    [magic : BOOLEAN, version_major : Nat, total_length : Nat, record_count : Nat,
     header_crc32 : HeaderCrcs, image_crc32 : ImageCrcs]

ImageWith(ImageCrcs) ==
    [header : HeaderWith(Seq(HeaderWith({<< >>}, {<< >>})), ImageCrcs),
     records : Seq(DiscoveryRecord)]

(* What an image CRC is computed over has an image CRC field of zero.      *)
DiscoveryImage == ImageWith(Seq(ImageWith({<< >>})))

Image(header, records) == [header |-> header, records |-> records]

WithoutCrcs(header) == [header EXCEPT !.header_crc32 = << >>, !.image_crc32 = << >>]

HeaderCrc(image) == <<WithoutCrcs(image.header)>>
ImageCrc(image)  == <<[image EXCEPT !.header.image_crc32 = << >>]>>

OffsetOf(records) ==
    LET offset[i \in 0 .. Len(records)] ==
            IF i = 0 THEN HeaderSize ELSE offset[i - 1] + records[i].length
    IN  offset

---------------------------------------------------------------------------
(* discovery_validate.c                                                    *)

(* An image longer than the copy on the stack has its header's CRC alone   *)
(* checked.                                                                *)
CrcValid(image, image_size) ==
    /\ image.header.header_crc32 = HeaderCrc(image)
    /\ image_size <= CopyLimit => image.header.image_crc32 = ImageCrc(image)

(* One turn of the loop, for the i-th record.                              *)
CheckRecord(image, i) ==
    LET offset == OffsetOf(image.records)[i - 1]
        room   == image.header.total_length - offset
    IN  IF i > Len(image.records) THEN "BAD_LENGTH"
        ELSE IF ~Aligned(offset) THEN "BAD_ALIGNMENT"
        ELSE IF room < RecordHeaderSize THEN "TRUNCATED_RECORD"
        ELSE IF image.records[i].length < RecordHeaderSize \/ ~Aligned(image.records[i].length)
        THEN "BAD_LENGTH"
        ELSE IF image.records[i].length > room THEN "TRUNCATED_RECORD"
        ELSE "OK"

(* The turn at which the loop is left: it has read past the total length,  *)
(* met a bad record or met END.                                            *)
LastTurn(image) ==
    LET n == Len(image.records)
        Leaves(i) == \/ i > n
                     \/ OffsetOf(image.records)[i - 1] >= image.header.total_length
                     \/ CheckRecord(image, i) # "OK"
                     \/ image.records[i].type = "END"
    IN  Min({i \in 1 .. n + 1 : Leaves(i)})

EndIgnored(image, last) == "OK"

EndStatus(image, last) ==
    IF OffsetOf(image.records)[last - 1] >= image.header.total_length THEN "MISSING_END"
    ELSE IF CheckRecord(image, last) # "OK" THEN CheckRecord(image, last)
    ELSE IF image.header.record_count \notin {0, last} THEN "BAD_LENGTH"
    ELSE "OK"

Validate(image, image_size) ==
    IF image_size < HeaderSize THEN "TOO_SMALL"
    ELSE IF ~image.header.magic THEN "BAD_MAGIC"
    ELSE IF image.header.version_major # Major THEN "UNSUPPORTED_VERSION"
    ELSE IF \/ image.header.total_length < HeaderSize
            \/ image.header.total_length > image_size
            \/ ~Aligned(image.header.total_length)
    THEN "BAD_LENGTH"
    ELSE IF ~CrcValid(image, image_size) THEN "BAD_CRC"
    ELSE EndStatus(image, LastTurn(image))

---------------------------------------------------------------------------
(* discovery_database.c: a table is a sequence of entries [handle, other]. *)

EmptyDatabase == [table \in Tables |-> << >>]

(* atarix_discovery_find_resource, atarix_discovery_find_service: the      *)
(* first entry with the handle, 0 for none.                                *)
Find(table, handle) == SelectInSeq(table, LAMBDA entry : entry.handle = handle)

ContainsResource(db, handle) == Find(db["resources"], handle) # 0

(* Dependencies have no handle of their own.                               *)
ContainsHandle(db, handle) ==
    \E table \in Tables \ {"dependencies"} : Find(db[table], handle) # 0

---------------------------------------------------------------------------
(* discovery_parser.c: a parse is the database and the result so far.      *)

TableOf(type) ==
    CASE type = "RESOURCE"        -> "resources"
      [] type = "SERVICE"         -> "services"
      [] type = "DEPENDENCY"      -> "dependencies"
      [] type = "INSTRUMENTATION" -> "instrumentation"

AddOver(db, record) ==
    LET table == TableOf(record.type)
        entry == [handle |-> record.handle, other |-> record.other]
    IN  IF ContainsHandle(db, record.handle) THEN [db |-> db, result |-> "DUPLICATE_HANDLE"]
        ELSE [db |-> [db EXCEPT ![table] = <<entry>>], result |-> "OK"]

Add(db, record) ==
    LET table == TableOf(record.type)
    IN  IF table # "dependencies" /\ ContainsHandle(db, record.handle)
        THEN [db |-> db, result |-> "DUPLICATE_HANDLE"]
        ELSE IF Len(db[table]) >= Capacity[table]
        THEN [db |-> db, result |-> "CAPACITY"]
        ELSE [db |-> [db EXCEPT ![table] =
                          Append(@, [handle |-> record.handle, other |-> record.other])],
              result |-> "OK"]

(* Provider, vendor and unknown records are passed over; after the first   *)
(* error nothing more is entered.                                          *)
AddNext(parse, record) ==
    IF parse.result # "OK" THEN parse
    ELSE IF record.type \in EntryTypes THEN Add(parse.db, record)
    ELSE parse

(* The iterator goes by record lengths and the size of the image, not by   *)
(* the total length: the records it yields before the first END, and       *)
(* whether it meets one.                                                   *)
Walk(image, image_size) ==
    LET n == Len(image.records)
        Stops(i) == \/ i > n
                    \/ image.records[i].type = "END"
                    \/ i > 1 /\ \/ image.records[i - 1].length < RecordHeaderSize
                                \/ OffsetOf(image.records)[i - 1] >= image_size
                                \/ ~Aligned(OffsetOf(image.records)[i - 1])
        stop == Min({i \in 1 .. n + 1 : Stops(i)})
    IN  [records |-> SubSeq(image.records, 1, stop - 1),
         ended |-> stop <= n /\ image.records[stop].type = "END"]

(* The parse after each of the records the iterator yields.                *)
ParseOf(db, records) ==
    LET parse[i \in 0 .. Len(records)] ==
            IF i = 0 THEN [db |-> db, result |-> "OK"] ELSE AddNext(parse[i - 1], records[i])
    IN  parse

ParseUnvalidated(image, image_size, db) == ParseOf(db, image.records)[Len(image.records)]

Parse(image, image_size, db) ==
    IF Validate(image, image_size) # "OK"
    THEN [db |-> db, result |-> Validate(image, image_size)]
    ELSE LET walk  == Walk(image, image_size)
             parse == ParseOf(db, walk.records)[Len(walk.records)]
         IN  IF parse.result = "OK" /\ ~walk.ended
             THEN [parse EXCEPT !.result = "MISSING_END"]
             ELSE parse

==============================================================================
