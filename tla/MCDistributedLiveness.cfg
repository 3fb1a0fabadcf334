SPECIFICATION EnlistedFairSpec
CONSTANTS
    Participants = {p1}
    Coordinators = {c1, c2}
    Owner = c1
    MaxFaults = 1
    MaxCommits = 2
PROPERTY
    EveryTransactionSettles
CHECK_DEADLOCK FALSE
