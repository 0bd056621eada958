SPECIFICATION Spec
CONSTANTS
    MinimumSizes = {1, 2}
    AverageSizes = {2, 3}
    MaximumSizes = {3}
    FixedSizes = {2}
    MicroFileSizes = {1, 2}
    PackTargets = {3, 4}
    OffsetMax = 10
    ReadBuffer = 2
    ChunkCalls <- MCChunkCalls
    MicroCalls <- MCMicroCalls
    MtimeMax = 3
    MicroObject = 7
    WordBits = 4
    RollingBase = 3
    BlockBytes = 2
    SubchunkCounts = {2, 4}
    SuperfeatureCounts = {1, 2}
    RollingWindows = {1, 2, 3}
    Parallelisms = {1, 2}
    LargestChunk = 8
    PerChunkBytes = 3
    RegionBytes = 2
    WorkerBytes = 3
    FixedBytes = 1
    FingerprintCalls <- MCFingerprintCalls
INVARIANTS
    StreamMatchesMemory
    ChunksAreExact
    PlanRestoresInputs
    ValidatedIsSound
    FingerprintIsReference
    CollisionsKeepFullHash
CHECK_DEADLOCK FALSE
