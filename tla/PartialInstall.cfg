CONSTANTS
    Byte = {0, 1, 2}
    Names = {"A", "B"}
    Absent = Absent
    protectedFiles <- AB
    candidateFiles = {}
    Content <- PairContent
    fileChecksums = {"A", "B"}
    sliceByteCount = 2
    quickHashSize = 1
    memoryLimit = 6
    ChunkAlign = 1
    numGoroutines = 2
    DiskStates <- SwappedDisk
    Commands = {"repair"}
    MaxParity = 0
    MaxFaults = 1
    MaxCrashes = 0
    MaxRuns = 1
    Interrupts = FALSE
SPECIFICATION FairSpec
PROPERTIES
    ErrorLeavesOriginals
