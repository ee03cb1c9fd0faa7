SPECIFICATION Spec
CONSTANTS
    Lanes = 2
    H2Mod = 2
    AddrMod = 8
    CountMod = 4
    CycleMod = 1
    Generations = {0, 1}
    Sequences = {0, 1}
    Registries = {0, 1, 2, 3, 4, 5, 6, 7}
    Requests <- MCRequests
    Table <- MCTable
    TableBase <- MCTableBase
    TableMayStall = TRUE
    MayReset = TRUE
PROPERTIES
    MatchesReference
