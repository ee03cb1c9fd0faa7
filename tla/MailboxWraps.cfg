SPECIFICATION Spec
CONSTANTS
    SeqMod = 4
    MaxPayload = 2
    LengthMod = 4
    Contents <- MCContents
    Empty = "none"
    CrcValues = {0, 1, 2}
    Crc <- MCCrc
    Pointers = {"small"}
    NullPtr = null
    Nodes = {n1}
    Types = {"PING"}
    BufferLength <- MCBufferLength
    FirstSeq = 2
    MaxSend = 3
    MaxReceive = 3
    MaxAltered = 0
INVARIANT
    NextExpectedAccepted
