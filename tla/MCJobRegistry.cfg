SPECIFICATION Spec
CONSTANTS
    Owners = {o1}
    Keys = {k1, k2}
    Params = {pack, list}
    PackParams = {pack}
    Outputs = {"out"}
    OutputOf <- MCOutputOf
    MaxJobNumber = 3
    MaxEvents = 2
    MaxRetained = 2
    MaxNonterminal = 2
SYMMETRY KeySymmetry
CHECK_DEADLOCK FALSE
INVARIANTS
    StoreAlwaysLoads
    MemoryIsDisk
    AckedIsDurable
    CompletedPackOwnsArchive
PROPERTIES
    TerminalImmutable
    ImplementsLedger
