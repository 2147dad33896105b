SPECIFICATION UbhSpec
CONSTANTS
    Funcs <- MCFuncs
    MaxTemps = 1
INVARIANT OwnRegisters
CHECK_DEADLOCK FALSE
