SPECIFICATION VisitedSpec
CONSTANTS
    Files <- MCFiles
    MaxFailures = 1
    Options <- MCStrict
INVARIANTS
    ReportedErrorsReject
CHECK_DEADLOCK FALSE
