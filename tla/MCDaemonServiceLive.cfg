SPECIFICATION CheckpointSpec
CONSTANTS
    p = p
    q = q
    Jobs = {p, q}
    Packs = {p}
    Deadlines = {p}
    Cancellable = {q}
    JobSlots = 2
    Threads = 2
    Memory = 1
    ThreadsOf <- MCThreadsOf
    MemoryOf <- MCMemoryOf
    MaxFaults = 0
    InspectFails = TRUE
CHECK_DEADLOCK FALSE
PROPERTIES
    JobsEnd
    AskedJobsEnd
