SPECIFICATION Spec
CONSTANTS
    Total = 5
    JobsOption = 2
    Verbose = FALSE
    Attrs <- PlainAttrs
    Bodies <- QuietBodies
    BufCap = 2
    PipeCap = 4
    MaxCaptured = 3
    ForkMayFail = FALSE
INVARIANT JobLimit
