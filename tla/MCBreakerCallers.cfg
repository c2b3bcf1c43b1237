CONSTANTS
    MaxFailures = 2
    ResetTimeout = 1
    FailureBound = 4
    g1 = g1
    g2 = g2
    Callers <- MCCallers
SPECIFICATION FairSpec
INVARIANTS
    OpensOnlyOnFailures
    OneProbePerCaller
PROPERTIES
    Recovers
