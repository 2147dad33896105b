SPECIFICATION VisitedSpec
CONSTANTS
    Files <- MCFiles
    MaxFailures = 1
    Options <- MCOptions
INVARIANTS
    ReaderTypeOK
    LimitsNest
    BodiesInPlace
    LabelsMatch
    TreeIsNesting
    CallbackIndexes
    NamesResolve
    FailuresReported
    VisitInOrder
PROPERTIES
    FramesImplemented
    ReaderEnds
CHECK_DEADLOCK FALSE
