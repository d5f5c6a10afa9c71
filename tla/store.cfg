\* One writer of json_set.sh's own and two that go through hnc_json.
SPECIFICATION Spec
CONSTANTS
    d1 = d1
    t2 = t2
    t1 = t1
    b1 = b1
    Device <- OneDevice
    Top <- TwoTops
    Batch <- None
    Nobody = nobody
    NoFile = nofile
    Torn = torn
    Tries = 2
    ForceBreak = 0
    HelperTries = 2
    PidlessTries = 1
    MayKill = TRUE
    MayStall = TRUE
    MayFail = TRUE
CHECK_DEADLOCK FALSE
INVARIANTS
    TypeOK
    QuietMeansFree
PROPERTIES
    ImplementsAtomicStore
VIEW SuspectsWhilePromised
SYMMETRY TopSymmetry
