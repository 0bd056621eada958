SPECIFICATION FairSpec
CONSTANTS
    NumLanes = 3
    Weights <- ThreeWeights
    Before <- ThreeBefore
    Owners = {o1, o2}
    Jobs = {j1, j2, j3}
INVARIANTS
    OrderIsSessions
    LaneWaitBounded
    SessionsTakeTurns
PROPERTIES
    NoJobStarves
