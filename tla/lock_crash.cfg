SPECIFICATION FairSpec
CONSTANTS
    Procs = {p1, p2, p3}
    Macs = {m1}
    Gate = gate
    NoPid = nopid
    Rounds = 2
    StaleRound = 1
    MayExit = TRUE
    MayDie = TRUE
CHECK_DEADLOCK FALSE
INVARIANTS TypeOK ExclusionUnlessRaced NothingLeftBehind
PROPERTIES CallsReturn
