\* Two devices, one slot: every wait of the table ends.
SPECIFICATION FairSpec
CONSTANTS
    m1 = m1
    m2 = m2
    Macs <- TwoMacs
    QueueSize = 1
    MaxDevices = 1
    MaxEvents = 1
    Breathing = 1
    ReResolveAfter = 2
    OfflineAfter = 1
    CheckEvery = 1
    ForceFlush = 2
    IdleWait = 1
    DhcpNamed <- NoMac
    OuiKnown <- OneMac
    Renamed <- NoMac
    Requests = TRUE
    MayStop = FALSE
    MayCrash = FALSE
    WritesMayFail = FALSE
    WorkerStarts <- NoWorker
PROPERTIES
    LossRepaired
    GoneIsCleared
    FlushedEventually
