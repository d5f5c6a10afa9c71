\* Two tokens, one request at a time beside the loops, scripts, failures and restarts.
SPECIFICATION Spec
CONSTANTS
    Tids = {t1, t2}
    Handlers = {g1}
    NoCookie = nocookie
    NoOne = noone
    Loop = loop
    MaxRetry = 2
    MaxWrites = 3
    MayFail = TRUE
    MayDie = TRUE
INVARIANTS
    TypeOK
    RevocationHolds
    IssuedStays
    LateRefused
CONSTRAINT Undisturbed
SYMMETRY TidSymmetry
