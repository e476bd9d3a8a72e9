CONSTANTS
    Byte = {0, 1, 2}
    Names = {"A", "B"}
    Absent = Absent
    protectedFiles <- AB
    candidateFiles = {}
    Content <- AlignedContent
    fileChecksums = {"A", "B"}
    sliceByteCount = 3
    quickHashSize = 1
    memoryLimit = 10
    ChunkAlign = 1
    numGoroutines = 2
    DiskStates <- AlignedDisk
    Commands = {"verify", "repair"}
    MaxParity = 2
    MaxFaults = 1
    MaxCrashes = 0
    MaxRuns = 1
    Interrupts = TRUE
SPECIFICATION Spec
INVARIANTS
    LocatedBlocksReadable
PROPERTIES
    PossibleMeansRepaired
