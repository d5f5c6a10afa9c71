\* Two devices and room for one; no interface: the set does not depend on the upstream.
SPECIFICATION Spec
CONSTANTS
    Ifaces = {}
    MaxDisabled = 1
    MayFail = FALSE
    GuardLoads = FALSE
    RingSize = 1
    FrameworkWrites = FALSE
    Macs = {m1, m2}
    MaxLimited = 1
    MaxInbox = 2
    MayCrash = TRUE
    Ops = {"limit", "clear", "delay", "undelay"}
    WritesMayFail = TRUE
    NotifyMayFail = TRUE
    ServiceRecovers = TRUE
    Cleans = TRUE
    OperatorCommands = FALSE
INVARIANTS RulesAgree
CONSTRAINT FewAtOnce
SYMMETRY MacSymmetry
