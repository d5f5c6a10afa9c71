\* A writer under json.lock and one under hnc_json.lock; nothing fails.
SPECIFICATION Spec
CONSTANTS
    d1 = d1
    t2 = t2
    t1 = t1
    b1 = b1
    Device <- OneDevice
    Top <- None
    Batch <- OneBatch
    Nobody = nobody
    NoFile = nofile
    Torn = torn
    Tries = 2
    ForceBreak = 0
    HelperTries = 2
    PidlessTries = 1
    MayKill = FALSE
    MayStall = FALSE
    MayFail = FALSE
CHECK_DEADLOCK FALSE
INVARIANTS AcknowledgedStays
