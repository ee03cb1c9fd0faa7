------------------------------- MODULE Mailbox -------------------------------
(***************************************************************************)
(* src/mailbox/mailbox.c: what building a header, validating one and       *)
(* offering a sequence number to a receiver window return.  A status is    *)
(* named after its ATARIX_MAILBOX_STATUS_ constant.                        *)
(*                                                                         *)
(* The bytes of a payload are one value of Contents; Crc is what           *)
(* atarix_mailbox_crc32 makes of them and, like a CRC, need not tell two   *)
(* contents apart.                                                         *)
(***************************************************************************)
EXTENDS Integers

CONSTANTS
    SeqMod,         \* sequence numbers, 2^32
    MaxPayload,     \* ATARIX_MAILBOX_MAX_PAYLOAD_V1
    LengthMod,      \* header and send lengths are uint16_t, 2^16
    Contents,       \* what payload bytes can be
    Empty,          \* the content of a payload of length 0
    CrcValues,
    Crc,            \* content -> CRC value
    Pointers,       \* payload buffers a pointer can name
    NullPtr

ASSUME MailboxAssumption ==
    /\ SeqMod \in Nat \ {0}
    /\ MaxPayload \in Nat
    /\ LengthMod \in Nat \ {0}
    /\ Empty \in Contents
    /\ Crc \in [Contents -> CrcValues]
    /\ NullPtr \notin Pointers

Sequence == 0 .. SeqMod - 1
Length   == 0 .. LengthMod - 1

KnownTypes ==
    {"PING", "PONG", "VERSION_QUERY", "VERSION_REPLY", "STATUS_QUERY",
     "STATUS_REPLY", "READ_REGISTER", "WRITE_REGISTER", "RESET_REQUEST",
     "FAULT_REPORT", "DISCOVERY_RECORD_PUSH", "CAPABILITY_EVALUATE"}

(* Numbers the enum of mailbox.h names but the switch does not list, and   *)
(* every other 16-bit number.                                              *)
UnlistedTypes ==
    {"INVALID", "INDEX_QUERY", "INDEX_MUTATE", "INDEX_RECOVER", "INDEX_STATUS", "OTHER"}

MessageType == KnownTypes \cup UnlistedTypes

MessageTypeKnown(type) == type \in KnownTypes

(* magic is whether the field holds ATARIX_MAILBOX_MAGIC_V1.               *)
Header == [magic : BOOLEAN, type : MessageType, length : Length,
           sequence : Sequence, crc32 : CrcValues]

Window == [initialized : BOOLEAN, last_sequence : Sequence]

MissingPayload(payload, length) == payload = NullPtr /\ length # 0

BuildStatus(type, payload, length) ==
    IF MissingPayload(payload, length) THEN "NULL"
    ELSE IF ~MessageTypeKnown(type) THEN "UNKNOWN_TYPE"
    ELSE IF length > MaxPayload THEN "INVALID_LENGTH"
    ELSE "OK"

BuildHeader(type, sequence, content, length) ==
    [magic |-> TRUE, type |-> type, length |-> length,
     sequence |-> sequence, crc32 |-> Crc[content]]

(* The checks of atarix_mailbox_validate_header, in its order.             *)
ValidateSkipsCrc(header, payload, content, length) ==
    IF MissingPayload(payload, length) THEN "NULL"
    ELSE IF ~header.magic THEN "INVALID_HEADER"
    ELSE IF ~MessageTypeKnown(header.type) THEN "UNKNOWN_TYPE"
    ELSE IF header.length > MaxPayload \/ header.length # length THEN "INVALID_LENGTH"
    ELSE "OK"

ValidateStatus(header, payload, content, length) ==
    IF MissingPayload(payload, length) THEN "NULL"
    ELSE IF ~header.magic THEN "INVALID_HEADER"
    ELSE IF ~MessageTypeKnown(header.type) THEN "UNKNOWN_TYPE"
    ELSE IF header.length > MaxPayload \/ header.length # length THEN "INVALID_LENGTH"
    ELSE IF Crc[content] # header.crc32 THEN "CRC_MISMATCH"
    ELSE "OK"

(* atarix_mailbox_sequence_accept.  Both operands of the comparisons are   *)
(* unsigned 32-bit, and so is last_sequence + 1.                           *)
SequenceStatusAllowsGaps(window, sequence) ==
    IF ~window.initialized THEN "OK"
    ELSE IF sequence = window.last_sequence THEN "DUPLICATE"
    ELSE IF sequence < window.last_sequence THEN "OUT_OF_ORDER"
    ELSE "OK"

SequenceStatus(window, sequence) ==
    IF ~window.initialized THEN "OK"
    ELSE IF sequence = window.last_sequence THEN "DUPLICATE"
    ELSE IF sequence < window.last_sequence THEN "OUT_OF_ORDER"
    ELSE IF sequence # (window.last_sequence + 1) % SeqMod THEN "SEQUENCE_ERROR"
    ELSE "OK"

WindowForgets(window, sequence) == window

WindowHoldsNext(window, sequence) ==
    IF SequenceStatus(window, sequence) = "OK"
    THEN [initialized |-> TRUE, last_sequence |-> sequence + 1]
    ELSE window

WindowAfter(window, sequence) ==
    IF SequenceStatus(window, sequence) = "OK"
    THEN [initialized |-> TRUE, last_sequence |-> sequence]
    ELSE window

==============================================================================
