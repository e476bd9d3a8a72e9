CONSTANTS
    Byte = {0, 1, 2}
    Names = {"A", "B", "E", "C", "D"}
    Absent = Absent
    protectedFiles <- ABE
    candidateFiles = {"C", "D"}
    Content <- TwinsContent
    fileChecksums = {"A", "B"}
    sliceByteCount = 2
    quickHashSize = 1
    memoryLimit = 6
    ChunkAlign = 1
    numGoroutines = 2
    DiskStates <- TwinsDisk
    Commands = {"repair"}
    MaxParity = 1
    MaxFaults = 1
    MaxCrashes = 1
    MaxRuns = 2
    Interrupts = TRUE
SPECIFICATION FairSpec
INVARIANTS
    SuccessMeansHealthy
    RenamePlanSound
    SourcesExist
    NeverTorn
PROPERTIES
    GoodStaysGood
    SoundPlanRepairs
    Terminates
