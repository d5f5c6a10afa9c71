SPECIFICATION Spec
CONSTANTS
    Ifaces = {1}
    MaxDisabled = 1
    MayFail = TRUE
    GuardLoads = TRUE
    RingSize = 1
    FrameworkWrites = TRUE
    Macs = {m1, m2}
    MaxLimited = 1
    MaxInbox = 1
    MayCrash = FALSE
    Ops = {"limit", "clear"}
    WritesMayFail = FALSE
    NotifyMayFail = FALSE
    ServiceRecovers = FALSE
    Cleans = FALSE
    OperatorCommands = FALSE
INVARIANTS TypeOK NoStrayDisable PrimaryCovered TablesBounded StatusHonest StatusComplete
SYMMETRY MacSymmetry
