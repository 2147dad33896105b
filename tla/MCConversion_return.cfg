SPECIFICATION ExecSpec
CONSTANTS
    MaxOps = 5
    MaxParts = 5
    MaxAny = 3
    MaxVector = 6
    MaxTemps = 0
    Byte = 4
    WordBytes = 2
    MemorySize = 8
    Inputs <- HandlerInputs
    Funcs <- HandlerFuncs
    Junk <- MCJunk
INVARIANT ReturnValueKept
CHECK_DEADLOCK FALSE
