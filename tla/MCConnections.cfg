SPECIFICATION Spec
CONSTANTS
    c1 = c1
    c2 = c2
    c3 = c3
    c4 = c4
    Conns <- MCConns
    Foreign <- MCForeign
    MaxConnections = 2
    MaxFrame = 1
    RatePerMs = 2
    Burst = 2
    TokenUnit = 3
    RetainedEvents = 2
    ClockMax = 4
    EventMax = 3
    Workloads <- MCWorkloads
INVARIANTS
    AdmittedIsServed
    RateIsIdeal
    CursorSkipsNothing
PROPERTY
    ConnectionsEnd
CHECK_DEADLOCK FALSE
