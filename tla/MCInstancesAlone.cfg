SPECIFICATION InstancesSpec
CONSTANTS
    Processes = {p1, p2}
    Jobs = {j1, j2}
    MayStart = "alone"
SYMMETRY Symmetry
INVARIANTS
    AckedSurvives
PROPERTIES
    StartNeverGivesUp
