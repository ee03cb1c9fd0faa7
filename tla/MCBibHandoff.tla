----------------------------- MODULE MCBibHandoff -----------------------------
(* Records take 56 bytes, three of them with padding, and one takes 64: a  *)
(* block of four is as long as readers accept, or with the longer record   *)
(* longer, and fits the larger buffer; one of five does not.               *)
EXTENDS BibHandoff

Ref(address, length) == [object_id |-> 1, address |-> address, length |-> length]

MCReferences == {Ref(1, 1), Ref(0, 1), Ref(MaxAddress, 1)}

MCAdd(type, flags, payload) == [type |-> type, flags |-> flags, payload |-> payload]

Full(address) == Payload(ReferenceSize, 1, address, 1, 0)

MCAdds ==
    {MCAdd(ServiceDirectory, {"MANDATORY"}, Full(1)),
     MCAdd(MemoryMap, {"MANDATORY"}, Full(2)),
     MCAdd(MemoryMap, {"MANDATORY"}, Full(MaxAddress)),
     MCAdd(MemoryMap, {}, Payload(33, 0, 0, 0, 0)),
     MCAdd(EntropySeed, {"SENSITIVE"}, Full(3)),
     MCAdd(EntropySeed, {"SENSITIVE"}, Payload(ReferenceSize, 1, 4, 1, 9)),
     MCAdd(5, {"SENSITIVE"}, Payload(41, 0, 0, 0, 0)),
     MCAdd(11, {"MANDATORY"}, Payload(39, 0, 0, 0, 0)),
     MCAdd(11, {"RESERVED"}, Payload(0, 0, 0, 0, 0)),
     MCAdd(5, {}, Payload(MaxU32 - 18, 0, 0, 0, 0)),
     MCAdd(5, {}, Payload(MaxU32 - 8, 0, 0, 0, 0))}

(* Two blocks another producer wrote correctly, and ones with a single     *)
(* field that is wrong but covered by the CRC.                             *)
Service == Tlv(ServiceDirectory, {"MANDATORY"}, 56, Full(1))
Map     == Tlv(MemoryMap, {"MANDATORY"}, 56, Full(2))

GoodBlock ==
    [Unsealed(TRUE) EXCEPT !.total_length = HeaderSize + 112, !.tlv_count = 2,
                           !.tlvs = <<Service, Map>>]

MCForeignBlocks ==
    {WithCrc(block) : block \in
        {GoodBlock,
         [GoodBlock EXCEPT !.tlvs[1].length = 72, !.total_length = @ + 16],
         [GoodBlock EXCEPT !.version_major = 2],
         [GoodBlock EXCEPT !.header_length = 72],
         [GoodBlock EXCEPT !.flags_known = FALSE],
         [GoodBlock EXCEPT !.tlv_offset = 56],
         [GoodBlock EXCEPT !.tlv_count = 1],
         [GoodBlock EXCEPT !.tlv_count = 3],
         [GoodBlock EXCEPT !.total_length = @ - 8],
         [GoodBlock EXCEPT !.total_length = @ + 16],
         [GoodBlock EXCEPT !.total_length = @ + 4],
         [GoodBlock EXCEPT !.tlvs[2].length = 48],
         [GoodBlock EXCEPT !.tlvs[2].length = 64],
         [GoodBlock EXCEPT !.tlvs[1].length = 0],
         [GoodBlock EXCEPT !.tlvs[1].reserved = 1],
         [GoodBlock EXCEPT !.tlvs[2].flags = {"RESERVED"}],
         [GoodBlock EXCEPT !.tlvs[2].payload.integrity_length = 1]}}
    \cup {[GoodBlock EXCEPT !.crc = <<GoodBlock, GoodBlock>>]}

==============================================================================
