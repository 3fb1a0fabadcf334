SPECIFICATION LifecycleFairSpec
CONSTANTS
    Client = {c1}
    MaxBoot = 1
    ReadyLease = 1
    MaxTime = 1
    MaxLost = 0
PROPERTY
    DisconnectedOnRecordedLapse
CHECK_DEADLOCK FALSE
