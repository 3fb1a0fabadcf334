CONSTANTS
    Tx = {t1,t2}
    Writes = {}
    Failing = {}
    Replicas = {r1}
    FirstLeader = r1
    MaxOps = 1
    MaxLog = 4
    MaxTerm = 1
    NoDigest = NoDigest
    NoLeader = NoLeader
SPECIFICATION MCSpec
CHECK_DEADLOCK FALSE
INVARIANTS
    ReservationHoldsGeneration
    FirstCommitterWins
    TerminalRowsStand
SYMMETRY TxSymmetry
