SPECIFICATION WrapperSpec
CONSTANTS
    Lanes = 2
    H2Mod = 2
    AddrMod = 4
    CountMod = 4
    CycleMod = 1
    Generations = {0, 1}
    Sequences = {0, 1}
    Registries = {0, 1}
    Requests <- MCRequests
    Table <- MCTable
    TableBase <- MCTableBase
    TableMayStall = FALSE
    MayReset = FALSE
    Depth = 2
    AddrSpan = 2
    Byte = {0, 1, 2, 3, 4, 5, 6, 7, 8, 9, 10, 11, 12, 13, 14, 15}
    Unwritten = unwritten
INVARIANT
    AuditCommitPrecedesResponse
