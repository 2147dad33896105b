SPECIFICATION DriverSpec
CONSTANTS
    MaxFuncs = 3
    MaxTemps = 0
    Byte = 4
    WordBytes = 2
    MemorySize = 8
    BufSize = 16
    ListSize = 12
    Inputs <- MCInputs
    Funcs <- MCFuncs
    Junk <- MCJunk
    Modules <- MCModules
INVARIANTS
    DriverTypeOK
    ScanFollowsReader
    FieldsReadBack
    TempsKept
    OutputFile
    SameCode
    ListingMatches
PROPERTY DriverEnds
CHECK_DEADLOCK FALSE
