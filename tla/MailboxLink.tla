---------------------------- MODULE MailboxLink ----------------------------
(***************************************************************************)
(* src/sim/sim_mailbox.c and src/sim/sim_node.c: nodes that send packets   *)
(* to one endpoint over whatever lies between them.                        *)
(*                                                                         *)
(* A packet carries its header and a pointer to the sender's buffer, not   *)
(* the payload: the receiver reads the buffer when it receives, and the    *)
(* sender may have written to it since.  The network is the set of the     *)
(* packets there are; a packet that is in it may be received now, later,   *)
(* again, before an earlier one, or never.  The receiving node may be      *)
(* brought up again at any time.                                           *)
(*                                                                         *)
(* The callers number the packets to the endpoint in one stream            *)
(* ("Mailbox sequences are tracked per receiver window"), as 32-bit        *)
(* counters do.                                                            *)
(***************************************************************************)
EXTENDS Mailbox, Sequences

CONSTANTS
    Nodes,          \* the sending nodes
    Types,          \* message types the callers use
    BufferLength,   \* buffer -> its length in bytes
    FirstSeq,       \* the first number of the stream
    MaxSend,        \* bound: packets sent
    MaxReceive,     \* bound: packets received since the node was brought up
    MaxAltered      \* bound: headers changed on the way

(* Fewer packets than sequence numbers: after a full turn of the counter a *)
(* stale packet cannot be told from a new one.                             *)
ASSUME LinkAssumption ==
    /\ Nodes # {}
    /\ Types \subseteq MessageType
    /\ BufferLength \in [Pointers -> Length \ {0}]
    /\ FirstSeq \in Sequence
    /\ MaxSend \in Nat
    /\ MaxSend < SeqMod
    /\ MaxReceive \in Nat
    /\ MaxAltered \in Nat

VARIABLES
    buffer,         \* the senders' payload buffers
    network,        \* the packets that exist
    tx_count,       \* of each sending node
    rx_count,       \* of the receiving node
    rx_window,      \* of the endpoint
    status,         \* what the last call of send or receive returned
    altered,        \* history: how many headers were changed on the way
    sent,           \* history: the packets sent, with their content then
    delivered       \* history: the packets received since the endpoint was
                    \* initialised, with their content then

vars == <<buffer, network, tx_count, rx_count, rx_window, status, altered, sent, delivered>>

Packet == [header : Header, payload : Pointers \cup {NullPtr}, payload_length : Length]

Transfer == [packet : Packet, content : Contents]

Status == {"OK", "NULL", "INVALID_HEADER", "INVALID_LENGTH", "CRC_MISMATCH",
           "SEQUENCE_ERROR", "DUPLICATE", "OUT_OF_ORDER", "UNKNOWN_TYPE"}

(* What reading length bytes at a pointer gives.                           *)
Content(payload, length) == IF length = 0 THEN Empty ELSE buffer[payload]

(* The number of the k-th packet of the stream.                            *)
SeqOf(k) == IF FirstSeq + k - 1 < SeqMod THEN FirstSeq + k - 1
                                         ELSE FirstSeq + k - 1 - SeqMod

EmptyWindow == [initialized |-> FALSE, last_sequence |-> 0]

Init ==
    /\ buffer \in [Pointers -> Contents \ {Empty}]
    /\ network = {}
    /\ tx_count = [n \in Nodes |-> 0]
    /\ rx_count = 0
    /\ rx_window = EmptyWindow
    /\ status = "OK"
    /\ altered = 0
    /\ sent = <<>>
    /\ delivered = <<>>

(* atarix_sim_mailbox_send.  A caller passes the length of the buffer it   *)
(* names, or no buffer and 0; no buffer and a length is the mistake the    *)
(* code checks for.                                                        *)
SendCall(type, payload, length) ==
    /\ type \in Types
    /\ \/ payload \in Pointers /\ length = BufferLength[payload]
       \/ payload = NullPtr /\ length \in {0, 1} \cap Length

SendOK(node, type, payload, length) ==
    LET content == Content(payload, length)
        packet  == [header |-> BuildHeader(type, SeqOf(Len(sent) + 1), content, length),
                    payload |-> payload, payload_length |-> length]
    IN  /\ Len(sent) < MaxSend
        /\ SendCall(type, payload, length)
        /\ BuildStatus(type, payload, length) = "OK"
        /\ network' = network \cup {packet}
        /\ tx_count' = [tx_count EXCEPT ![node] = @ + 1]
        /\ sent' = Append(sent, [packet |-> packet, content |-> content])
        /\ status' = "OK"
        /\ UNCHANGED <<buffer, rx_count, rx_window, altered, delivered>>

SendRefused(type, payload, length) ==
    /\ SendCall(type, payload, length)
    /\ BuildStatus(type, payload, length) # "OK"
    /\ status' = BuildStatus(type, payload, length)
    /\ UNCHANGED <<buffer, network, tx_count, rx_count, rx_window, altered, sent, delivered>>

(* The sender's program writes to a buffer it has already sent from.       *)
WriteBuffer(pointer, content) ==
    /\ buffer' = [buffer EXCEPT ![pointer] = content]
    /\ UNCHANGED <<network, tx_count, rx_count, rx_window, status, altered, sent, delivered>>

(* atarix_sim_mailbox_receive *)
PacketStatus(packet) ==
    ValidateStatus(packet.header, packet.payload,
                   Content(packet.payload, packet.payload_length), packet.payload_length)

ReceiveOK(packet) ==
    /\ rx_count < MaxReceive
    /\ PacketStatus(packet) = "OK"
    /\ SequenceStatus(rx_window, packet.header.sequence) = "OK"
    /\ rx_window' = WindowAfter(rx_window, packet.header.sequence)
    /\ rx_count' = rx_count + 1
    /\ delivered' = Append(delivered,
          [packet |-> packet, content |-> Content(packet.payload, packet.payload_length)])
    /\ status' = "OK"
    /\ UNCHANGED <<buffer, network, tx_count, altered, sent>>

ReceiveInvalid(packet) ==
    /\ PacketStatus(packet) # "OK"
    /\ status' = PacketStatus(packet)
    /\ UNCHANGED <<buffer, network, tx_count, rx_count, rx_window, altered, sent, delivered>>

ReceiveOutOfSequence(packet) ==
    /\ PacketStatus(packet) = "OK"
    /\ SequenceStatus(rx_window, packet.header.sequence) # "OK"
    /\ status' = SequenceStatus(rx_window, packet.header.sequence)
    /\ rx_window' = WindowAfter(rx_window, packet.header.sequence)
    /\ UNCHANGED <<buffer, network, tx_count, rx_count, altered, sent, delivered>>

(* atarix_sim_mailbox_endpoint_init and, on the receiving node,            *)
(* atarix_sim_node_init: a node is brought up by calling both.             *)
EndpointInit == rx_window' = EmptyWindow /\ delivered' = <<>>
NodeInit     == rx_count' = 0

Restart ==
    /\ NodeInit
    /\ EndpointInit
    /\ UNCHANGED <<buffer, network, tx_count, status, altered, sent>>

(* A header field arrives changed, as the tests change it: the CRC covers  *)
(* the payload only.                                                       *)
HeaderAltered(h) ==
    {[h EXCEPT !.magic = FALSE]}
    \cup {[h EXCEPT !.type = t] : t \in Types}
    \cup {[h EXCEPT !.length = l] : l \in Length}
    \cup {[h EXCEPT !.sequence = s] : s \in Sequence}
    \cup {[h EXCEPT !.crc32 = c] : c \in CrcValues}

CorruptHeader(packet) ==
    /\ altered < MaxAltered
    /\ altered' = altered + 1
    /\ \E h \in HeaderAltered(packet.header) :
          network' = (network \ {packet}) \cup {[packet EXCEPT !.header = h]}
    /\ UNCHANGED <<buffer, tx_count, rx_count, rx_window, status, sent, delivered>>

Next ==
    \/ \E type \in Types, payload \in Pointers \cup {NullPtr}, length \in Length :
          \/ \E node \in Nodes : SendOK(node, type, payload, length)
          \/ SendRefused(type, payload, length)
    \/ \E pointer \in Pointers, content \in Contents \ {Empty} : WriteBuffer(pointer, content)
    \/ \E packet \in network :
          \/ ReceiveOK(packet) \/ ReceiveInvalid(packet) \/ ReceiveOutOfSequence(packet)
          \/ CorruptHeader(packet)
    \/ Restart

Spec == Init /\ [][Next]_vars

-----------------------------------------------------------------------------
(* Every variable keeps its type; in particular the window's number and    *)
(* the headers' stay below 2^32 when the stream's counter turns over.      *)
TypeOK ==
    /\ buffer \in [Pointers -> Contents \ {Empty}]
    /\ network \subseteq Packet
    /\ tx_count \in [Nodes -> 0 .. MaxSend]
    /\ rx_count \in 0 .. MaxReceive
    /\ rx_window \in Window
    /\ status \in Status
    /\ altered \in 0 .. MaxAltered
    /\ sent \in Seq(Transfer)
    /\ delivered \in Seq(Transfer)

(* On a network that loses, repeats and reorders packets, and as long as   *)
(* it has changed no header, what an endpoint has accepted since its       *)
(* initialisation is a contiguous piece of what was sent to it, in the     *)
(* order of sending: nothing skipped, nothing twice, nothing swapped.      *)
DeliveredIsSentSegment ==
    altered = 0 /\ delivered # <<>> =>
        \E first \in 1 .. Len(sent) :
            /\ first + Len(delivered) - 1 <= Len(sent)
            /\ \A i \in 1 .. Len(delivered) :
                  delivered[i].packet = sent[first + i - 1].packet

(* As long as no header was changed, a packet is accepted only with the    *)
(* payload it was sent with, as far as the CRC can tell, although it       *)
(* carries a pointer into a buffer its sender goes on using.               *)
PayloadIntact ==
    altered = 0 => \A i \in 1 .. Len(delivered) :
        \E k \in 1 .. Len(sent) :
            /\ delivered[i].packet = sent[k].packet
            /\ Crc[delivered[i].content] = Crc[sent[k].content]

(* Even when header fields change on the way, no sequence number is        *)
(* accepted twice and none is skipped between two initialisations.         *)
NumbersConsecutive ==
    \A i, j \in 1 .. Len(delivered) :
        delivered[j].packet.header.sequence - delivered[i].packet.header.sequence = j - i

(* The packet sent right after the last one accepted is not refused for    *)
(* its number, unless the counter turned over between the two.             *)
NextBelowTurnAccepted ==
    altered = 0 /\ delivered # <<>> =>
        \A k \in 1 .. Len(sent) - 1 :
            /\ delivered[Len(delivered)].packet = sent[k].packet
            /\ sent[k + 1].packet.header.sequence # 0
            => SequenceStatus(rx_window, sent[k + 1].packet.header.sequence) = "OK"

(* "Next expected sequence accepted" (docs/mailbox-protocol-v1.md): the    *)
(* same at every number, the turn of the 32-bit counter included.          *)
NextExpectedAccepted ==
    altered = 0 /\ delivered # <<>> =>
        \A k \in 1 .. Len(sent) - 1 :
            delivered[Len(delivered)].packet = sent[k].packet
            => SequenceStatus(rx_window, sent[k + 1].packet.header.sequence) = "OK"

==============================================================================
