SPECIFICATION TransSpec
CONSTANTS
    MaxOps = 5
    MaxParts = 5
    MaxAny = 3
    MaxTemps = 0
    Inputs <- MCInputs
    Funcs <- MCFuncs
INVARIANT BlocksAccepted
CHECK_DEADLOCK FALSE
