SPECIFICATION ComponentsSpec
CONSTANTS
    Depth = 3
    AddrSpan = 4
    Byte = {b1, b2, b3}
    Unwritten = unwritten
    MaxWrites = 7
    Lanes = 4
    H2Mod = 2
    AddrMod = 4
    Groups <- MCGroups
    Targets <- MCTargets
    MaxByte = 2
    Width = 8
    MaxLowBits = 2
    LowBits = {0, 1, 2, 3}
    Offsets = {0, 1, 2, 3}
    MaxLen = 3
    MaxValue = 24
    NodeIds = {1, 2, 3}
    Nodes = {n1, n2, n3}
    MaxNodes = 2
    MaxLength = 2
    Words <- MCWords
    Lengths = {0, 1, 2, 3}
    Runs = {r1, r2, r3}
    MaxBase = 2
    MaxPushes = 1
    MaxCancelled = 1
INVARIANTS
    WindowHoldsNewest
    ScalarMatchesSimd
    EachWriteOnce
    DecodesTheEncoding
    SlotIdsUnique
    AcceptsExactlyOneForm
    SingleCommitOnOwnBase RaceHasWinner
PROPERTIES
    ImplementsDirectory
    UnreadCommitsStay
