CONSTANTS
    Byte = {0, 1, 2}
    Names = {"A", "B", "C"}
    Absent = Absent
    protectedFiles <- AB
    candidateFiles = {"C"}
    Content <- PairContent
    fileChecksums = {"A", "B"}
    sliceByteCount = 2
    quickHashSize = 1
    memoryLimit = 6
    ChunkAlign = 1
    numGoroutines = 2
    DiskStates <- OverwriteDisk
    Commands = {"repair"}
    MaxParity = 0
    MaxFaults = 0
    MaxCrashes = 0
    MaxRuns = 1
    Interrupts = FALSE
SPECIFICATION Spec
INVARIANTS
    LocatedBlocksReadable
