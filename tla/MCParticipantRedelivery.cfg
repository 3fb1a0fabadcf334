CONSTANTS
    Tx = {t1}
    Writes = {}
    Failing = {}
    Replicas = {r1}
    FirstLeader = r1
    MaxOps = 2
    MaxLog = 3
    MaxTerm = 1
    NoDigest = NoDigest
    NoLeader = NoLeader
SPECIFICATION MCSpec
CHECK_DEADLOCK FALSE
INVARIANTS
    StatementStagedOnce
