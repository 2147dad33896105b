SPECIFICATION UbhSpec
CONSTANTS
    Funcs <- MCFuncs
    MaxTemps = 3
INVARIANTS
    UbhTypeOK
    RegistersApart
    ParamAreaFree
    LocalsOwnRegisters
CHECK_DEADLOCK FALSE
