CONSTANTS
    Tx = {t1}
    Writes = {}
    Failing = {}
    Replicas = {r1,r2}
    FirstLeader = r1
    MaxOps = 1
    MaxLog = 4
    MaxTerm = 3
    NoDigest = NoDigest
    NoLeader = NoLeader
SPECIFICATION MCSpec
CHECK_DEADLOCK FALSE
INVARIANTS
    CommitInfallible
    EvidenceStands
