SPECIFICATION FairSpec
CONSTANTS
    Lanes = 2
    H2Mod = 2
    AddrMod = 4
    CountMod = 4
    CycleMod = 2
    Generations = {0, 1, 2}
    Sequences = {0, 1, 2}
    Registries = {0, 1, 2}
    Requests <- MCRequests
    Table <- MCTable
    TableBase <- MCTableBase
    TableMayStall = TRUE
    MayReset = TRUE
INVARIANTS
    TypeOK
    NoProbeBeforeAuthorization
    AuditPrecedesResponse
    AnswerSound
PROPERTIES
    ResponseHeld
    ImplementsService
    EveryRequestAnswered
    AlwaysReadyAgain
