CONSTANTS
    Byte = {0, 1, 2}
    Names = {"A", "B", "C"}
    Absent = Absent
    protectedFiles <- AB
    candidateFiles = {"C"}
    Content <- ABContent
    fileChecksums = {"A", "B"}
    sliceByteCount = 2
    quickHashSize = 1
    memoryLimit = 6
    ChunkAlign = 1
    numGoroutines = 2
    DiskStates <- ABDisk
    Commands = {"verify", "repair"}
    MaxParity = 2
    MaxFaults = 1
    MaxCrashes = 0
    MaxRuns = 1
    Interrupts = TRUE
SPECIFICATION Spec
INVARIANTS
    TypeOK
    SuccessMeansHealthy
    CandidateMovedNotLost
    RenamePlanSound
    VerifyExitTruthful
    NoTempLeft
PROPERTIES
    AllVerifiedBeforeInstall
