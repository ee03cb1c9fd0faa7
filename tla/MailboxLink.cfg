SPECIFICATION Spec
CONSTANTS
    SeqMod = 4
    MaxPayload = 2
    LengthMod = 4
    Contents <- MCContents
    Empty = "none"
    CrcValues = {0, 1, 2}
    Crc <- MCCrc
    Pointers = {"small", "large"}
    NullPtr = null
    Nodes = {n1}
    Types = {"PING", "INDEX_QUERY"}
    BufferLength <- MCBufferLength
    FirstSeq = 2
    MaxSend = 3
    MaxReceive = 3
    MaxAltered = 1
INVARIANTS
    TypeOK
    DeliveredIsSentSegment
    PayloadIntact
    NumbersConsecutive
    NextBelowTurnAccepted
