SPECIFICATION EnlistedSpec
CONSTANTS
    Participants = {p1}
    Coordinators = {c1, c2}
    Owner = c1
    MaxFaults = 1
    MaxCommits = 1
INVARIANT
    NotCommittedEstablished
CHECK_DEADLOCK FALSE
