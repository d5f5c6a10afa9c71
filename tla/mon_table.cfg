\* Two devices waiting for names, one with a DHCP name, renames, failing writes.
SPECIFICATION Spec
CONSTANTS
    m1 = m1
    m2 = m2
    Macs <- TwoMacs
    QueueSize = 1
    MaxDevices = 2
    MaxEvents = 1
    Breathing = 1
    ReResolveAfter = 2
    OfflineAfter = 1
    CheckEvery = 1
    ForceFlush = 1
    IdleWait = 1
    DhcpNamed <- OneMac
    OuiKnown <- NoMac
    Renamed <- OneMac
    Requests = FALSE
    MayStop = FALSE
    MayCrash = FALSE
    WritesMayFail = TRUE
    WorkerStarts <- NoWorker
INVARIANTS
    JsonCurrent
    PendingIsShort
CONSTRAINT CachedAlone
