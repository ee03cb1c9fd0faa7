---------------------------- MODULE MailboxProofs ----------------------------
(***************************************************************************)
(* For every stream of packets shorter than a turn of the sequence         *)
(* counter, wherever it starts: an endpoint accepts a contiguous piece of  *)
(* the stream, in order, with its payloads intact; and however headers are *)
(* changed on the way, it accepts consecutive numbers.                     *)
(***************************************************************************)
EXTENDS MailboxLink, SequenceTheorems, TLAPS

(* The k-th packet sent has the k-th number of the stream and the CRC of   *)
(* the content it had then; the nodes have not counted more than that.     *)
SentNumbered ==
    /\ Len(sent) <= MaxSend
    /\ \A n \in Nodes : tx_count[n] <= Len(sent)
    /\ \A k \in 1 .. Len(sent) :
          /\ sent[k].packet.header.sequence = SeqOf(k)
          /\ sent[k].packet.header.crc32 = Crc[sent[k].content]

(* Until a header is changed, only packets that were sent are on the way.  *)
NetworkSent ==
    altered = 0 => \A p \in network : \E k \in 1 .. Len(sent) : p = sent[k].packet

(* The window remembers the last packet accepted.                          *)
WindowTracks ==
    /\ rx_window.initialized <=> delivered # <<>>
    /\ delivered # <<>> =>
          rx_window.last_sequence = delivered[Len(delivered)].packet.header.sequence

(* A packet accepted had, when it was, the CRC its header carries.         *)
DeliveredChecked ==
    \A i \in 1 .. Len(delivered) :
        delivered[i].packet.header.crc32 = Crc[delivered[i].content]

Inv ==
    /\ TypeOK
    /\ SentNumbered
    /\ NetworkSent
    /\ WindowTracks
    /\ DeliveredChecked
    /\ NumbersConsecutive
    /\ DeliveredIsSentSegment

-----------------------------------------------------------------------------
(* The stream's numbers are 32-bit numbers.                                *)
LEMMA SeqOfInRange ==
  ASSUME NEW k \in 1 .. MaxSend
  PROVE  SeqOf(k) \in Sequence
  BY LinkAssumption, MailboxAssumption DEF SeqOf, Sequence

(* A number one above another, below a turn of the counter, is the number  *)
(* of the next packet of the stream.                                       *)
LEMMA NextNumberNextPacket ==
  ASSUME NEW k \in 1 .. MaxSend, NEW m \in 1 .. MaxSend, SeqOf(m) = SeqOf(k) + 1
  PROVE  m = k + 1
  BY LinkAssumption, MailboxAssumption DEF SeqOf, Sequence

(* A number below 2^32 is left alone by the 32-bit arithmetic.             *)
LEMMA BelowTurn ==
  ASSUME NEW n \in 0 .. SeqMod - 1
  PROVE  n % SeqMod = n
  BY MailboxAssumption

(* An initialised window accepts one number only, the next one, and only   *)
(* below 2^32.                                                             *)
LEMMA AcceptsOnlyNext ==
  ASSUME NEW w \in Window, NEW s \in Sequence, SequenceStatus(w, s) = "OK", w.initialized
  PROVE  s = w.last_sequence + 1
  <1>1. s > w.last_sequence /\ s = (w.last_sequence + 1) % SeqMod
    BY DEF SequenceStatus, Window, Sequence
  <1>2. w.last_sequence + 1 \in 0 .. SeqMod - 1
    BY <1>1, MailboxAssumption DEF Window, Sequence
  <1>3. (w.last_sequence + 1) % SeqMod = w.last_sequence + 1
    BY <1>2, MailboxAssumption
  <1> QED
    BY <1>1, <1>3

(* Reading a payload that is there gives one of the contents.              *)
LEMMA ContentTyped ==
  ASSUME TypeOK, NEW payload \in Pointers \cup {NullPtr}, NEW length \in Length,
         ~MissingPayload(payload, length)
  PROVE  Content(payload, length) \in Contents
  BY MailboxAssumption DEF TypeOK, Content, MissingPayload

-----------------------------------------------------------------------------
(* Initially nothing has been sent.                                        *)
LEMMA InitInv == Init => Inv
  BY MailboxAssumption, LinkAssumption
  DEF Init, Inv, TypeOK, SentNumbered, NetworkSent, WindowTracks, DeliveredChecked,
      NumbersConsecutive, DeliveredIsSentSegment, EmptyWindow, Window, Sequence, Status

(* A packet that is sent gets the next number of the stream.               *)
LEMMA SendKeepsInv ==
  ASSUME Inv, NEW node \in Nodes, NEW type \in Types,
         NEW payload \in Pointers \cup {NullPtr}, NEW length \in Length,
         SendOK(node, type, payload, length)
  PROVE  Inv'
  <1> DEFINE content == Content(payload, length)
             packet  == [header |-> BuildHeader(type, SeqOf(Len(sent) + 1), content, length),
                         payload |-> payload, payload_length |-> length]
             entry   == [packet |-> packet, content |-> content]
  <1>1. /\ Len(sent) \in Nat /\ Len(sent) + 1 \in 1 .. MaxSend
        /\ sent \in Seq(Transfer) /\ delivered \in Seq(Transfer)
    BY LinkAssumption DEF SendOK, Inv, TypeOK
  <1>2. content \in Contents
    <2>1. ~MissingPayload(payload, length)
      BY DEF SendOK, BuildStatus
    <2> QED
      BY <2>1, ContentTyped DEF Inv
  <1>3. packet \in Packet
    BY <1>1, <1>2, SeqOfInRange, MailboxAssumption, LinkAssumption
    DEF Packet, Header, BuildHeader
  <1>4. entry \in Transfer
    BY <1>2, <1>3 DEF Transfer
  <1>5. /\ sent' = Append(sent, entry) /\ network' = network \cup {packet}
        /\ tx_count' = [tx_count EXCEPT ![node] = @ + 1]
        /\ UNCHANGED <<buffer, rx_count, rx_window, altered, delivered>>
        /\ status' = "OK"
    BY DEF SendOK
  <1> HIDE DEF entry
  <1>6. /\ sent' \in Seq(Transfer) /\ Len(sent') = Len(sent) + 1
        /\ sent'[Len(sent) + 1] = entry
        /\ \A k \in 1 .. Len(sent) : sent'[k] = sent[k]
    BY <1>1, <1>4, <1>5
  <1>7. SentNumbered'
    <2>1. /\ entry.packet.header.sequence = SeqOf(Len(sent) + 1)
          /\ entry.packet.header.crc32 = Crc[entry.content]
      BY DEF entry, BuildHeader
    <2>2. \A n \in Nodes : tx_count'[n] <= Len(sent')
      BY <1>1, <1>5, <1>6, LinkAssumption DEF Inv, TypeOK, SentNumbered
    <2>3. \A k \in 1 .. Len(sent') : k = Len(sent) + 1 \/ k \in 1 .. Len(sent)
      BY <1>1, <1>6
    <2>4. Len(sent') <= MaxSend
      BY <1>1, <1>6
    <2>5. ASSUME NEW k \in 1 .. Len(sent')
          PROVE  /\ sent'[k].packet.header.sequence = SeqOf(k)
                 /\ sent'[k].packet.header.crc32 = Crc[sent'[k].content]
      BY <2>1, <2>3, <1>6 DEF Inv, SentNumbered
    <2> QED
      BY <2>2, <2>4, <2>5 DEF SentNumbered, SeqOf
  <1>8. TypeOK'
    <2>1. tx_count' \in [Nodes -> 0 .. MaxSend]
      BY <1>1, <1>5, <1>6, <1>7, LinkAssumption DEF Inv, TypeOK, SentNumbered
    <2> QED
      BY <1>1, <1>3, <1>5, <1>6, <2>1 DEF Inv, TypeOK, Status
  <1>9. NetworkSent'
    <2> SUFFICES ASSUME altered' = 0, NEW p \in network'
                 PROVE  \E k \in 1 .. Len(sent') : p = sent'[k].packet
      BY DEF NetworkSent
    <2>1. CASE p = packet
      <3>1. entry.packet = packet /\ Len(sent) + 1 \in 1 .. Len(sent')
        BY <1>1, <1>6 DEF entry
      <3> QED
        BY <2>1, <3>1, <1>6
    <2>2. CASE p \in network
      <3>1. PICK k \in 1 .. Len(sent) : p = sent[k].packet
        BY <1>5, <2>2 DEF Inv, NetworkSent
      <3> QED
        BY <3>1, <1>1, <1>6
    <2> QED
      BY <1>5, <2>1, <2>2
  <1>10. WindowTracks' /\ DeliveredChecked' /\ NumbersConsecutive'
    BY <1>5 DEF Inv, WindowTracks, DeliveredChecked, NumbersConsecutive
  <1>11. ASSUME altered = 0, delivered # <<>> PROVE DeliveredIsSentSegment'
    <2>1. PICK first \in 1 .. Len(sent) :
             /\ first + Len(delivered) - 1 <= Len(sent)
             /\ \A i \in 1 .. Len(delivered) :
                   delivered[i].packet = sent[first + i - 1].packet
      BY <1>11 DEF Inv, DeliveredIsSentSegment
    <2>2. /\ first \in 1 .. Len(sent')
          /\ first + Len(delivered) - 1 <= Len(sent')
      BY <2>1, <1>1, <1>6
    <2>3. ASSUME NEW i \in 1 .. Len(delivered)
          PROVE  delivered[i].packet = sent'[first + i - 1].packet
      <3>1. first + i - 1 \in 1 .. Len(sent)
        BY <2>1, <1>1
      <3> QED
        BY <3>1, <2>1, <1>6
    <2> QED
      BY <2>2, <2>3, <1>5 DEF DeliveredIsSentSegment
  <1>12. DeliveredIsSentSegment'
    BY <1>11, <1>5 DEF DeliveredIsSentSegment
  <1> QED
    BY <1>7, <1>8, <1>9, <1>10, <1>12 DEF Inv

(* A packet that is accepted is the one after the last accepted.           *)
LEMMA ReceiveKeepsInv ==
  ASSUME Inv, NEW packet \in network, ReceiveOK(packet)
  PROVE  Inv'
  <1> DEFINE content == Content(packet.payload, packet.payload_length)
             entry   == [packet |-> packet, content |-> content]
  <1>1. /\ packet \in Packet /\ packet.header.sequence \in Sequence
        /\ sent \in Seq(Transfer) /\ delivered \in Seq(Transfer)
        /\ Len(sent) \in Nat /\ Len(delivered) \in Nat
        /\ rx_window \in Window /\ rx_count \in 0 .. MaxReceive
    BY DEF Inv, TypeOK, Packet, Header
  <1>2. ~MissingPayload(packet.payload, packet.payload_length)
        /\ Crc[content] = packet.header.crc32
    BY DEF ReceiveOK, PacketStatus, ValidateStatus
  <1>3. content \in Contents
    BY <1>1, <1>2, ContentTyped DEF Inv, Packet
  <1>4. entry \in Transfer
    BY <1>1, <1>3 DEF Transfer
  <1>5. /\ delivered' = Append(delivered, entry)
        /\ rx_window' = [initialized |-> TRUE, last_sequence |-> packet.header.sequence]
        /\ rx_count' = rx_count + 1 /\ rx_count < MaxReceive
        /\ status' = "OK"
        /\ UNCHANGED <<buffer, network, tx_count, altered, sent>>
    BY DEF ReceiveOK, WindowAfter
  <1>6. entry.packet = packet /\ entry.content = content
    OBVIOUS
  <1> HIDE DEF entry, content
  <1>7. /\ delivered' \in Seq(Transfer) /\ Len(delivered') = Len(delivered) + 1
        /\ delivered' # <<>>
        /\ delivered'[Len(delivered) + 1] = entry
        /\ \A i \in 1 .. Len(delivered) : delivered'[i] = delivered[i]
        /\ \A i \in 1 .. Len(delivered') :
              i = Len(delivered) + 1 \/ i \in 1 .. Len(delivered)
    BY <1>1, <1>4, <1>5
  <1>8. TypeOK'
    <2>1. rx_window' \in Window /\ rx_count' \in 0 .. MaxReceive
      BY <1>1, <1>5, LinkAssumption DEF Window
    <2> QED
      BY <1>5, <1>7, <2>1 DEF Inv, TypeOK, Status
  <1>9. SentNumbered' /\ NetworkSent'
    BY <1>5 DEF Inv, SentNumbered, NetworkSent, SeqOf
  <1>10. WindowTracks'
    BY <1>1, <1>5, <1>6, <1>7 DEF WindowTracks
  <1>11. DeliveredChecked'
    BY <1>1, <1>2, <1>6, <1>7 DEF Inv, DeliveredChecked
  <1>12. ASSUME delivered # <<>>
         PROVE  /\ Len(delivered) \in 1 .. Len(delivered)
                /\ packet.header.sequence
                     = delivered[Len(delivered)].packet.header.sequence + 1
    <2>1. Len(delivered) \in 1 .. Len(delivered)
      BY <1>1, <1>12, EmptySeq
    <2>2. rx_window.initialized
          /\ rx_window.last_sequence = delivered[Len(delivered)].packet.header.sequence
      BY <1>12 DEF Inv, WindowTracks
    <2>3. packet.header.sequence = rx_window.last_sequence + 1
      BY <1>1, <2>2, AcceptsOnlyNext DEF ReceiveOK
    <2> QED
      BY <2>1, <2>2, <2>3
  <1>13. NumbersConsecutive'
    <2>1. ASSUME NEW i \in 1 .. Len(delivered)
          PROVE  delivered[i].packet.header.sequence \in Int
      <3>1. delivered[i] \in Transfer
        BY <1>1, ElementOfSeq
      <3>2. delivered[i].packet.header \in Header
        BY <3>1 DEF Transfer, Packet
      <3> QED
        BY <3>2, MailboxAssumption DEF Header, Sequence
    <2>2. ASSUME NEW i \in 1 .. Len(delivered)
          PROVE  packet.header.sequence - delivered[i].packet.header.sequence
                    = Len(delivered) + 1 - i
      <3>1. delivered # <<>>
        BY <1>1
      <3>2. delivered[Len(delivered)].packet.header.sequence
              - delivered[i].packet.header.sequence = Len(delivered) - i
        BY <1>12, <3>1 DEF Inv, NumbersConsecutive
      <3>3. delivered[Len(delivered)].packet.header.sequence \in Int
        BY <1>12, <2>1, <3>1
      <3>4. delivered[i].packet.header.sequence \in Int
        BY <2>1
      <3>5. packet.header.sequence = delivered[Len(delivered)].packet.header.sequence + 1
        BY <1>12, <3>1
      <3>6. Len(delivered) \in Int /\ i \in Int
        BY <1>1
      <3> DEFINE new   == packet.header.sequence
                 last  == delivered[Len(delivered)].packet.header.sequence
                 other == delivered[i].packet.header.sequence
                 n     == Len(delivered)
      <3>7. last \in Int /\ other \in Int /\ n \in Int /\ i \in Int
            /\ new = last + 1 /\ last - other = n - i
        BY <3>2, <3>3, <3>4, <3>5, <3>6, Zenon
      <3> HIDE DEF new, last, other, n
      <3>8. new - other = n + 1 - i
        BY <3>7
      <3> QED
        BY <3>8, Zenon DEF new, other, n
    <2>3. packet.header.sequence \in Int
      BY <1>1 DEF Sequence
    <2>4. ASSUME NEW i \in 1 .. Len(delivered'), NEW j \in 1 .. Len(delivered')
          PROVE  delivered'[j].packet.header.sequence
                   - delivered'[i].packet.header.sequence = j - i
      <3>1. CASE i \in 1 .. Len(delivered) /\ j \in 1 .. Len(delivered)
        BY <3>1, <1>7 DEF Inv, NumbersConsecutive
      <3>2. CASE i \in 1 .. Len(delivered) /\ j = Len(delivered) + 1
        BY <3>2, <1>6, <1>7, <2>2
      <3>3. CASE i = Len(delivered) + 1 /\ j \in 1 .. Len(delivered)
        <4>1. packet.header.sequence - delivered[j].packet.header.sequence
                = Len(delivered) + 1 - j
          BY <2>2, <3>3
        <4>2. delivered[j].packet.header.sequence \in Int
          BY <2>1, <3>3
        <4>3. delivered'[j] = delivered[j] /\ delivered'[i].packet = packet
          BY <3>3, <1>6, <1>7
        <4>4. delivered[j].packet.header.sequence - packet.header.sequence
                = j - (Len(delivered) + 1)
          BY <4>1, <4>2, <2>3, <1>1, <3>3
        <4> QED
          BY <4>3, <4>4, <3>3
      <3>4. CASE i = Len(delivered) + 1 /\ j = Len(delivered) + 1
        BY <3>4, <1>1, <1>6, <1>7, <2>3
      <3> QED
        BY <1>7, <3>1, <3>2, <3>3, <3>4
    <2> QED
      BY <2>4 DEF NumbersConsecutive
  <1>14. ASSUME altered' = 0 PROVE DeliveredIsSentSegment'
    <2>1. PICK m \in 1 .. Len(sent) : packet = sent[m].packet
      BY <1>14, <1>5 DEF Inv, NetworkSent
    <2>2. CASE delivered = <<>>
      <3>1. Len(delivered) = 0
        BY <2>2
      <3>2. \A i \in 1 .. Len(delivered') : delivered'[i].packet = sent[m + i - 1].packet
        BY <3>1, <2>1, <1>1, <1>6, <1>7
      <3>3. m + Len(delivered') - 1 <= Len(sent)
        BY <3>1, <2>1, <1>1, <1>7
      <3> QED
        BY <2>1, <3>2, <3>3, <1>5 DEF DeliveredIsSentSegment
    <2>3. CASE delivered # <<>>
      <3>1. PICK first \in 1 .. Len(sent) :
               /\ first + Len(delivered) - 1 <= Len(sent)
               /\ \A i \in 1 .. Len(delivered) :
                     delivered[i].packet = sent[first + i - 1].packet
        BY <1>14, <1>5, <2>3 DEF Inv, DeliveredIsSentSegment
      <3> DEFINE k == first + Len(delivered) - 1
      <3>2. k \in 1 .. Len(sent) /\ delivered[Len(delivered)].packet = sent[k].packet
        BY <3>1, <1>1, <1>12, <2>3
      <3>3. Len(sent) <= MaxSend /\ k \in 1 .. MaxSend /\ m \in 1 .. MaxSend
        BY <3>2, <2>1, <1>1, LinkAssumption DEF Inv, SentNumbered
      <3>4. SeqOf(m) = SeqOf(k) + 1
        BY <3>2, <2>1, <2>3, <1>12 DEF Inv, SentNumbered
      <3>5. m = first + Len(delivered)
        BY <3>3, <3>4, NextNumberNextPacket, <1>1
      <3>6. \A i \in 1 .. Len(delivered') :
               delivered'[i].packet = sent[first + i - 1].packet
        <4>1. ASSUME NEW i \in 1 .. Len(delivered')
              PROVE  delivered'[i].packet = sent[first + i - 1].packet
          <5>1. CASE i = Len(delivered) + 1
            <6>1. first + i - 1 = m
              BY <5>1, <3>5, <1>1
            <6>2. delivered'[i].packet = packet
              BY <5>1, <1>6, <1>7
            <6> QED
              BY <6>1, <6>2, <2>1
          <5>2. CASE i \in 1 .. Len(delivered)
            BY <5>2, <3>1, <1>7
          <5> QED
            BY <5>1, <5>2, <1>7
        <4> QED
          BY <4>1
      <3>7. first + Len(delivered') - 1 <= Len(sent)
        BY <3>5, <2>1, <1>1, <1>7
      <3> QED
        BY <3>1, <3>6, <3>7, <1>5 DEF DeliveredIsSentSegment
    <2> QED
      BY <2>2, <2>3
  <1>15. DeliveredIsSentSegment'
    BY <1>14 DEF DeliveredIsSentSegment
  <1> QED
    BY <1>8, <1>9, <1>10, <1>11, <1>13, <1>15 DEF Inv

(* A call that is refused changes nothing but the status it returns.       *)
LEMMA RefusalKeepsInv ==
  ASSUME Inv, UNCHANGED <<buffer, network, tx_count, rx_count, rx_window, altered, sent, delivered>>,
         status' \in Status
  PROVE  Inv'
  BY DEF Inv, TypeOK, SentNumbered, NetworkSent, WindowTracks, DeliveredChecked,
         NumbersConsecutive, DeliveredIsSentSegment, SeqOf

(* A sender writes to a buffer; the packets and the histories do not move. *)
LEMMA WriteKeepsInv ==
  ASSUME Inv, NEW pointer \in Pointers, NEW content \in Contents \ {Empty},
         WriteBuffer(pointer, content)
  PROVE  Inv'
  <1>1. buffer' \in [Pointers -> Contents \ {Empty}]
    BY DEF WriteBuffer, Inv, TypeOK
  <1> QED
    BY <1>1 DEF WriteBuffer, Inv, TypeOK, SentNumbered, NetworkSent, WindowTracks,
                DeliveredChecked, NumbersConsecutive, DeliveredIsSentSegment, SeqOf

(* A restart of the receiving node forgets the window and what it took.    *)
LEMMA RestartKeepsInv ==
  ASSUME Inv, Restart
  PROVE  Inv'
  BY MailboxAssumption, LinkAssumption
  DEF Restart, NodeInit, EndpointInit, EmptyWindow, Window, Sequence, Inv, TypeOK,
      SentNumbered, NetworkSent, WindowTracks, DeliveredChecked, NumbersConsecutive,
      DeliveredIsSentSegment, SeqOf

(* A changed header is still a header; from here on nothing is said of the *)
(* network.                                                                *)
LEMMA CorruptionKeepsInv ==
  ASSUME Inv, NEW packet \in network, CorruptHeader(packet)
  PROVE  Inv'
  <1>1. PICK h \in HeaderAltered(packet.header) :
           network' = (network \ {packet}) \cup {[packet EXCEPT !.header = h]}
    BY DEF CorruptHeader
  <1>2. packet \in Packet
    BY DEF Inv, TypeOK
  <1>3. h \in Header
    <2>1. packet.header \in Header
      BY <1>2 DEF Packet
    <2>2. CASE h = [packet.header EXCEPT !.magic = FALSE]
      BY <2>1, <2>2 DEF Header
    <2>3. ASSUME NEW t \in Types, h = [packet.header EXCEPT !.type = t] PROVE h \in Header
      BY <2>1, <2>3, LinkAssumption DEF Header
    <2>4. ASSUME NEW l \in Length, h = [packet.header EXCEPT !.length = l]
          PROVE  h \in Header
      BY <2>1, <2>4 DEF Header
    <2>5. ASSUME NEW n \in Sequence, h = [packet.header EXCEPT !.sequence = n]
          PROVE  h \in Header
      BY <2>1, <2>5 DEF Header
    <2>6. ASSUME NEW c \in CrcValues, h = [packet.header EXCEPT !.crc32 = c]
          PROVE  h \in Header
      BY <2>1, <2>6 DEF Header
    <2> QED
      BY <2>2, <2>3, <2>4, <2>5, <2>6 DEF HeaderAltered
  <1>4. [packet EXCEPT !.header = h] \in Packet
    BY <1>2, <1>3 DEF Packet
  <1>5. network' \subseteq Packet
    BY <1>1, <1>4 DEF Inv, TypeOK
  <1>6. altered' \in 0 .. MaxAltered /\ altered' # 0
    BY LinkAssumption DEF CorruptHeader, Inv, TypeOK
  <1> QED
    BY <1>5, <1>6 DEF CorruptHeader, Inv, TypeOK, SentNumbered, NetworkSent, WindowTracks,
                DeliveredChecked, NumbersConsecutive, DeliveredIsSentSegment, SeqOf

(* What a refused call returns.                                            *)
LEMMA RefusalTyped ==
  /\ \A type, payload, length : BuildStatus(type, payload, length) \in Status
  /\ \A packet : PacketStatus(packet) \in Status
  /\ \A window, sequence : SequenceStatus(window, sequence) \in Status
  BY DEF BuildStatus, PacketStatus, ValidateStatus, SequenceStatus, Status

(* Every step of the link keeps the invariant.                             *)
LEMMA NextKeepsInv ==
  ASSUME Inv, [Next]_vars
  PROVE  Inv'
  <1>1. ASSUME NEW type \in Types, NEW payload \in Pointers \cup {NullPtr},
               NEW length \in Length, NEW node \in Nodes,
               SendOK(node, type, payload, length)
        PROVE  Inv'
    BY <1>1, SendKeepsInv
  <1>2. ASSUME NEW type \in Types, NEW payload \in Pointers \cup {NullPtr},
               NEW length \in Length, SendRefused(type, payload, length)
        PROVE  Inv'
    BY <1>2, RefusalKeepsInv, RefusalTyped DEF SendRefused
  <1>3. ASSUME NEW pointer \in Pointers, NEW content \in Contents \ {Empty},
               WriteBuffer(pointer, content)
        PROVE  Inv'
    BY <1>3, WriteKeepsInv
  <1>4. ASSUME NEW packet \in network, ReceiveOK(packet) PROVE Inv'
    BY <1>4, ReceiveKeepsInv
  <1>5. ASSUME NEW packet \in network, ReceiveInvalid(packet) PROVE Inv'
    BY <1>5, RefusalKeepsInv, RefusalTyped DEF ReceiveInvalid
  <1>6. ASSUME NEW packet \in network, ReceiveOutOfSequence(packet) PROVE Inv'
    BY <1>6, RefusalKeepsInv, RefusalTyped DEF ReceiveOutOfSequence, WindowAfter
  <1>7. ASSUME NEW packet \in network, CorruptHeader(packet) PROVE Inv'
    BY <1>7, CorruptionKeepsInv
  <1>8. CASE Restart
    BY <1>8, RestartKeepsInv
  <1>9. CASE UNCHANGED vars
    <2>1. status \in Status
      BY DEF Inv, TypeOK
    <2> QED
      BY <1>9, <2>1, RefusalKeepsInv DEF vars
  <1> QED
    BY <1>1, <1>2, <1>3, <1>4, <1>5, <1>6, <1>7, <1>8, <1>9 DEF Next

(* The inductive invariant holds in every state of the link.               *)
THEOREM LinkInvariance == Spec => []Inv
  BY InitInv, NextKeepsInv, PTL DEF Spec

(* Every variable of the link keeps its type: the window and the headers   *)
(* never hold a number beyond 32 bits.                                     *)
THEOREM LinkTypeCorrect == Spec => []TypeOK
  <1>1. Inv => TypeOK
    BY DEF Inv
  <1> QED
    BY <1>1, LinkInvariance, PTL

(* atarix_mailbox_sequence_accept never lets a number through twice or     *)
(* skips one between two initialisations, whatever happens to headers.     *)
THEOREM AcceptedNumbersConsecutive == Spec => []NumbersConsecutive
  <1>1. Inv => NumbersConsecutive
    BY DEF Inv
  <1> QED
    BY <1>1, LinkInvariance, PTL

(* Until a header is changed, an endpoint accepts a contiguous piece of    *)
(* the stream in order, on any network that loses, repeats and reorders.   *)
THEOREM DeliveryInOrder == Spec => []DeliveredIsSentSegment
  <1>1. Inv => DeliveredIsSentSegment
    BY DEF Inv
  <1> QED
    BY <1>1, LinkInvariance, PTL

(* Until a header is changed, a packet is accepted only while its buffer   *)
(* holds a content with the CRC of the one that was sent.                  *)
THEOREM DeliveryIntact == Spec => []PayloadIntact
  <1>1. ASSUME Inv PROVE PayloadIntact
    <2> SUFFICES ASSUME altered = 0, NEW i \in 1 .. Len(delivered)
                 PROVE  \E k \in 1 .. Len(sent) :
                          /\ delivered[i].packet = sent[k].packet
                          /\ Crc[delivered[i].content] = Crc[sent[k].content]
      BY DEF PayloadIntact
    <2>1. Len(sent) \in Nat /\ Len(delivered) \in Nat
      BY <1>1 DEF Inv, TypeOK
    <2>2. delivered # <<>>
      BY <2>1
    <2>3. PICK first \in 1 .. Len(sent) :
             /\ first + Len(delivered) - 1 <= Len(sent)
             /\ \A j \in 1 .. Len(delivered) :
                   delivered[j].packet = sent[first + j - 1].packet
      BY <1>1, <2>2 DEF Inv, DeliveredIsSentSegment
    <2>4. first + i - 1 \in 1 .. Len(sent)
      BY <2>1, <2>3
    <2>5. /\ delivered[i].packet.header.crc32 = Crc[delivered[i].content]
          /\ sent[first + i - 1].packet.header.crc32 = Crc[sent[first + i - 1].content]
      BY <1>1, <2>4 DEF Inv, DeliveredChecked, SentNumbered
    <2> QED
      BY <2>3, <2>4, <2>5
  <1> QED
    BY <1>1, LinkInvariance, PTL

(* Until a header is changed, the packet sent right after the last one     *)
(* accepted is accepted by its number, unless that number is 0, where the  *)
(* counter turns over.                                                     *)
THEOREM NextIsAccepted == Spec => []NextBelowTurnAccepted
  <1>1. ASSUME Inv PROVE NextBelowTurnAccepted
    <2> SUFFICES ASSUME delivered # <<>>, NEW k \in 1 .. Len(sent) - 1,
                        delivered[Len(delivered)].packet = sent[k].packet,
                        sent[k + 1].packet.header.sequence # 0
                 PROVE  SequenceStatus(rx_window, sent[k + 1].packet.header.sequence) = "OK"
      BY DEF NextBelowTurnAccepted
    <2>1. Len(sent) \in Nat /\ Len(sent) <= MaxSend
      BY <1>1 DEF Inv, TypeOK, SentNumbered
    <2>2. k \in 1 .. Len(sent) /\ k + 1 \in 1 .. Len(sent)
      BY <2>1
    <2>3. /\ sent[k].packet.header.sequence = SeqOf(k)
          /\ sent[k + 1].packet.header.sequence = SeqOf(k + 1)
      BY <1>1, <2>2 DEF Inv, SentNumbered
    <2>4. rx_window.initialized /\ rx_window.last_sequence = SeqOf(k)
      BY <1>1, <2>3 DEF Inv, WindowTracks
    <2>5. k \in 1 .. MaxSend /\ k + 1 \in 1 .. MaxSend
      BY <2>1, <2>2, LinkAssumption
    <2>6. SeqOf(k) \in Sequence /\ SeqOf(k + 1) = SeqOf(k) + 1
      <3>1. SeqOf(k) \in Sequence
        BY <2>5, SeqOfInRange
      <3>2. SeqOf(k + 1) # 0
        BY <2>3
      <3> QED
        BY <2>5, <3>1, <3>2, LinkAssumption, MailboxAssumption DEF SeqOf, Sequence
    <2>7. SeqOf(k + 1) \in Sequence
      BY <2>5, SeqOfInRange
    <2>8. (SeqOf(k) + 1) % SeqMod = SeqOf(k) + 1
      <3>1. SeqOf(k) + 1 \in 0 .. SeqMod - 1
        BY <2>6, <2>7 DEF Sequence
      <3> QED
        BY <3>1, BelowTurn
    <2>9. SeqOf(k) \in Int /\ SeqOf(k + 1) # SeqOf(k) /\ ~(SeqOf(k + 1) < SeqOf(k))
      BY <2>6 DEF Sequence
    <2> QED
      BY <2>3, <2>4, <2>6, <2>8, <2>9 DEF SequenceStatus
  <1> QED
    BY <1>1, LinkInvariance, PTL

==============================================================================
