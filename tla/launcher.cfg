CONSTANTS
    Launchers = {l1, l2}
    Nobody = Nobody
    CrashLimit = 2
    Window = 1
    BackoffMin = 1
    BackoffMax = 2
    MayFail = TRUE
    MayKill = TRUE
SPECIFICATION FairSpec
CHECK_DEADLOCK FALSE
INVARIANTS TypeOK SingleUnlessRaced PidFileNamesDpid OutlivedOnlyIfTold
PROPERTIES CrashLoopExact TermHonoured
