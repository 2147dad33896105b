SPECIFICATION ExecSpec
CONSTANTS
    MaxOps = 5
    MaxParts = 5
    MaxAny = 3
    MaxVector = 6
    MaxTemps = 0
    Byte = 4
    WordBytes = 2
    MemorySize = 8
    Inputs <- HandlerInputs
    Funcs <- HandlerFuncs
    Junk <- MCJunk
INVARIANTS
    HierTypeOK
    Laminar
    ParentInnermost
    ElseFollowsIf
    ChildLists
    EndsWhereWasmSays
    TransTypeOK
    StackOwned
    LabelPerJump
    JumpTargets
    StackDenotes
    OperandsDefined
    ExecTypeOK
    LocalsPreserved
    ExecAgrees
PROPERTIES
    BuildEnds
    HandlerEnds
CHECK_DEADLOCK FALSE
