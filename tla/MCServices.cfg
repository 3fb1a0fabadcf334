CONSTANTS
    Node = {1, 2}
    WallClock = {0, 1}
    MaxLogicalCounter = 1
    MaxStamps = 4
    Key = {ka, kb}
    MaxConcurrency = 1
    MaxItemsPerDrain = 1
    MaxAttempts = 2
    MaxFence = 2
    MaxWork = 2
    MaxDiscards = 1
    Subscriber = {s1, s2}
    Subscribed = {s1}
    MaxOutstanding = 1
    BatchMax = 2
    RetainedMax = 2
    MaxRows = 2
    MaxFailures = 1
    MaxChanges = 1
    MaxTenures = 2
    Replica = {r1, r2}
    OwedMax = 2
    ReclaimMax = 1
    Operations = {2}
    MaxLog = 4
    RowKey = {ka, kb}
    MaxTombstones = 1
    MaxCommits = 4
    Client = {c1}
    MaxBoot = 2
    ReadyLease = 1
    MaxTime = 1
    MaxLost = 1
SPECIFICATION MCSpec
INVARIANTS
    StampsFollowCausality
    ClockTracksWallClocks
    WaitersFollowTheirWork
    NoWakeUpLost
    NoRowForgotten
    OwedWithinBudget
    LedgerComplete
    NoUnknownRow
    DeliveredWereConfirmed
    
    ServicesTypeOK
PROPERTIES
    EveryWorkAnswered
    AcknowledgedAfterReceipt
    EveryRowDelivered
    GenerationsFenced
    LeaseStandsUntilLapsed
    GoneNodeIsCleared
CHECK_DEADLOCK FALSE
