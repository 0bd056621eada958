SPECIFICATION FairSpec
CONSTANTS
    NumTasks = 3
    Sizes = {1, 2, 3}
    Budget = 2
    Workers = 2
CHECK_DEADLOCK FALSE
INVARIANTS
    ValidateIsExact
    MemoryAccounted
PROPERTIES
    NoWorkAfterFailure
    CallReturns
