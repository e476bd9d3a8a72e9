CONSTANTS
    IDBytes = 2
    MaxByte = 1
    MaxExponent = 3
    RawParts <- Parts
    Decoded <- AsciiParts
    DotDotParts = {"..", "..c"}
    DriveParts = {"D:"}
    Directories <- MCDirectories
    Indexes <- MCIndexes
    SetIDs = {"own", "alien"}
    VolumeTags = {".vol0", ".vol1"}
    MaxFaults = 1
    Interrupts = TRUE
SPECIFICATION Spec
INVARIANTS
    LoaderTypeOK
    NoForeignBlock
    BlocksFound
    RowsMatchMain
    BlocksAccounted
    VolumesNeverFail
PROPERTIES
    LoadEnds
