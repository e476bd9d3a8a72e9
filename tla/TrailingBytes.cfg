CONSTANTS
    Byte = {0, 1, 2}
    Names = {"A", "B"}
    Absent = Absent
    protectedFiles <- AB
    candidateFiles = {}
    Content <- ABContent
    fileChecksums = {"A", "B"}
    sliceByteCount = 2
    quickHashSize = 1
    memoryLimit = 6
    ChunkAlign = 1
    numGoroutines = 2
    DiskStates <- TrailingDisk
    Commands = {"repair"}
    MaxParity = 2
    MaxFaults = 0
    MaxCrashes = 0
    MaxRuns = 1
    Interrupts = FALSE
SPECIFICATION FairSpec
PROPERTIES
    PossibleMeansRepaired
