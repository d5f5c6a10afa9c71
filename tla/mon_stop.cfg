\* SIGTERM with a query under way, crashes and restarts.
SPECIFICATION FairSpec
CONSTANTS
    m1 = m1
    m2 = m2
    Macs <- OneMac
    QueueSize = 1
    MaxDevices = 1
    MaxEvents = 1
    Breathing = 1
    ReResolveAfter = 1
    OfflineAfter = 1
    CheckEvery = 1
    ForceFlush = 1
    IdleWait = 1
    DhcpNamed <- NoMac
    OuiKnown <- NoMac
    Renamed <- NoMac
    Requests = FALSE
    MayStop = TRUE
    MayCrash = TRUE
    WritesMayFail = FALSE
    WorkerStarts <- WorkerMayRun
PROPERTIES
    WorkerJoined
INVARIANTS
    TypeOK
    JsonCurrent
