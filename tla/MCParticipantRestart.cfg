CONSTANTS
    Tx = {t1}
    Writes = {w1,w2}
    Failing = {w2}
    Replicas = {r1}
    FirstLeader = r1
    MaxOps = 1
    MaxLog = 3
    MaxTerm = 2
    NoDigest = NoDigest
    NoLeader = NoLeader
SPECIFICATION FairSpec
CHECK_DEADLOCK FALSE
INVARIANTS
    
    StatementRunsOnce
    ParkedOnlyWhileReserved
    TypeOK
PROPERTIES
    ParkedWriteReadmitted
