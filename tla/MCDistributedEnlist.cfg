SPECIFICATION Spec
CONSTANTS
    Participants = {p1, p2}
    Coordinators = {c1, c2}
    Owner = c1
    MaxFaults = 1
    MaxCommits = 1
SYMMETRY ParticipantSymmetry
INVARIANTS
    TypeOK
    FanoutFollowsRecord
    RequestsOnlyToAdmitted
CHECK_DEADLOCK FALSE
PROPERTY
    ImplementsAtomicCommit
