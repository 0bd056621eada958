SPECIFICATION Spec
CONSTANTS
    p = p
    q = q
    Jobs = {p, q}
    Packs = {p}
    Deadlines = {}
    Cancellable = {q}
    JobSlots = 2
    Threads = 3
    Memory = 2
    ThreadsOf <- MCThreadsOf
    MemoryOf <- MCMemoryOf
    MaxFaults = 0
    InspectFails = TRUE
CHECK_DEADLOCK FALSE
INVARIANTS
    FailClosedCancelsWork
