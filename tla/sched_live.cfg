SPECIFICATION FairSpec
CONSTANTS
    Ifaces = {1,2}
    MaxDisabled = 1
    MayFail = FALSE
    GuardLoads = FALSE
    RingSize = 1
    FrameworkWrites = FALSE
    Macs = {m1}
    MaxLimited = 1
    MaxInbox = 1
    MayCrash = FALSE
    Ops = {"limit", "clear"}
    WritesMayFail = FALSE
    NotifyMayFail = FALSE
    ServiceRecovers = FALSE
    Cleans = FALSE
    OperatorCommands = TRUE
PROPERTIES LimitEnforced ShutdownCompletes
INVARIANT PrimaryCovered
