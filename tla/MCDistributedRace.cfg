SPECIFICATION EnlistedSpec
CONSTANTS
    Participants = {p1, p2}
    Coordinators = {c1, c2}
    Owner = c1
    MaxFaults = 2
    MaxCommits = 2
SYMMETRY ParticipantSymmetry
INVARIANTS
    AllOrNothing
    CommitRestsOnEvidence
    AnsweredOutcomeStands
CHECK_DEADLOCK FALSE
