CONSTANTS
    d1 = d1
    d2 = d2
    t1 = t1
    t2 = t2
    Deliveries = {d1, d2}
    Threads = {t1}
    NoThread = NoThread
    NoDelivery = NoDelivery
    ReadsProgress = TRUE
    MaxGenerations = 1
    MaxMessages = 2
    MaxEvents = 1
    MaxReceipts = 1
    MaxFaults = 2
    PageSize = 1
SPECIFICATION FairSpec
CHECK_DEADLOCK FALSE
INVARIANTS
    NoUpdateLost
    QueuedOnce
    HandledFirst
PROPERTIES
    Awake
