CONSTANTS
    super = super
    fab = fab
    kern = kern
    app1 = app1
    app2 = app2
    Principals <- MCPrincipals
    HomeRing <- MCHomeRing
    Candidates <- MCCandidates
    Requests <- MCRequests
    MaxLinks = 3
    MaxTime = 2
    Records <- MCRecords
    Asks <- MCAsks
    MaxRecords = 2
SPECIFICATION AuthoritySpec
INVARIANTS
    NeverUpward
    DelegationNarrows
    EvaluatorWithinPolicyRange
PROPERTIES QuarantineIsolates DenialIsFinal
CHECK_DEADLOCK FALSE
