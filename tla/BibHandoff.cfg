CONSTANTS
    MaxBlock = 288
    MaxU32 = 1023
    MaxAddress = 7
    Capacities = {48, 168, 296, 1024}
    Windows = {32, 176, 288, 296}
    Adds <- MCAdds
    References <- MCReferences
    ForeignBlocks <- MCForeignBlocks
SPECIFICATION Spec
INVARIANTS LengthAccounts OnlySealedOpens SealedIsWellFormed ReadsStayInside OpenedIsReadable DumpShowsItsRecord
CHECK_DEADLOCK FALSE
