SPECIFICATION TransSpec
CONSTANTS
    MaxOps = 5
    MaxParts = 5
    MaxAny = 3
    MaxTemps = 0
    Inputs <- ControlBodies
    Funcs <- MCFuncs
INVARIANT ElseIsSkipped
CHECK_DEADLOCK FALSE
