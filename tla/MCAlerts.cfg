SPECIFICATION FairSpec
CONSTANTS
    a = a
    c1 = c1
    ASICs = {a}
    Slow = {}
    SlowWait = 2
    OfflineAfters = {1}
    StartGrace = 1
    SaveEvery = 1
    ForgetAfter = 3
    MaxWorkers = 1
    DiskFails = FALSE
    MaxStops = 1
    Chats = {c1}
    QueueMax = 1
    Batch = 1
    Gap = 1
    FlapChanges = 2
    FlapHold = 3
    FlapWindow = 4
    MaxBusy = 0
CHECK_DEADLOCK FALSE
INVARIANTS
    ChatKnows
PROPERTIES
    FlapLimited
    OutageTold
