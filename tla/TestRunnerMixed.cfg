SPECIFICATION FairSpec
CONSTANTS
    Total = 3
    JobsOption = 2
    Verbose = TRUE
    Attrs <- MixedAttrs
    Bodies <- MixedBodies
    BufCap = 2
    PipeCap = 4
    MaxCaptured = 3
    ForkMayFail = TRUE
INVARIANTS TypeOK ReportsAreTrue RunningCountExact ExitCodeTruthful
PROPERTIES HarnessEnds HarnessReports
CHECK_DEADLOCK FALSE
