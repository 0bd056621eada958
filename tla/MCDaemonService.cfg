SPECIFICATION Spec
CONSTANTS
    p = p
    q = q
    Jobs = {p, q}
    Packs = {p}
    Deadlines = {p}
    Cancellable = {q}
    JobSlots = 2
    Threads = 2
    Memory = 1
    ThreadsOf <- MCThreadsOf
    MemoryOf <- MCMemoryOf
    MaxFaults = 1
    InspectFails = FALSE
CHECK_DEADLOCK FALSE
INVARIANTS
    PublishedNotCancelled
    CancelReachesWorker
    ShutdownLeavesNothing
