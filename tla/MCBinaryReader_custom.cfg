SPECIFICATION VisitedSpec
CONSTANTS
    Files <- MCFiles
    MaxFailures = 1
    Options <- MCLenient
PROPERTIES
    CustomErrorsIgnored
CHECK_DEADLOCK FALSE
