CONSTANTS
    Byte = {0, 1, 2, 3}
    Names = {"A", "B", "C"}
    Absent = Absent
    protectedFiles <- Pair
    candidateFiles = {"C"}
    Content <- PairContent
    fileChecksums = {"A", "B"}
    sliceByteCount = 3
    quickHashSize = 1
    ByteBits = 2
    CrcBytes = 2
    Polynomial = {1, 3}
    minTableSize = 4
    scanChunkSize = 5
    numGoroutines = 2
    matchChanCap = 1
    progressChanCap = 1
    ctxCheckPeriod = 2
    ScanDisks <- MCDisks
    MaxFaults = 1
    Interrupts = TRUE
SPECIFICATION Spec
INVARIANTS
    ScanTypeOK
    ReportedNotLost
    ChunksDisjoint
    RollingCrcRight
    LookupComplete
    LocationsTrue
PROPERTIES
    ImplementsScan
    ProgressDrained
