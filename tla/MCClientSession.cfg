SPECIFICATION FairSpec
CONSTANTS
    Clients = {c1}
    NumCommands = 2
    MaxSessions = 1
    Ttl = 2
    MaxTime = 3
    MaxFaults = 2
    MaxOthers = 1
    MaxFresh = 24
CHECK_DEADLOCK FALSE
INVARIANTS
    OneJobPerCommand
    CanResume
PROPERTIES
    FailsWithCause
    ClientEnds
