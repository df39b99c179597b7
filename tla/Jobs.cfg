SPECIFICATION MCSpec
CONSTANTS
    Files = {f1, f2}
    f1 = f1
    f2 = f2
    MaxChunks = 2
    MaxTemp = 2
    MaxBusy = 1
    MaxStops = 1
    None = None
    Mails = {1, 2, 3, 4}
    Broken = {1, 2}
    Orphans = {4}
    Batch = 3
INVARIANTS
    UploadsWhole
PROPERTIES
    EventuallyDelivered
    ErasedFromDisk
    EveryMailIsSent
CHECK_DEADLOCK FALSE
