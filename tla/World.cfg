SPECIFICATION TaskSpec
CONSTANTS
    Turns <- Turns2
    Delegations <- Delegations1
    RootLimit = 3
    ChainLimit = 1
    TurnDecisions = 1
    MaxMishaps = 2
PROPERTIES  StopReachesTree
CHECK_DEADLOCK FALSE
