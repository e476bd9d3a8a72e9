CONSTANTS
    Width = 4
    Polynomial <- MCPolynomial
    g <- MCGenerator
    laneBytes = 2
    smallSliceBytes = 6
    chunkAlign = 2
    minSplitBytes = 4
    TrueData <- MCData
    Exponents <- MCExponents
    Losses <- MCLosses
    Recoveries <- MCRecoveries
    MemoryLimits = {70, 200}
    numGoroutines = 2
SPECIFICATION Spec
INVARIANTS
    CoderTypeOK
    ProductWhole
    ReconstructTrue
    FailureExplained
    KernelsAgree
    RangesPartition
PROPERTIES
    CallReturns
