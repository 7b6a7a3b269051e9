SPECIFICATION Spec
CONSTANTS
    NumLow = 2
    MsrVals <- AllMsr
    BatWrites <- OsWrites
    RfiSwitches = FALSE
    RealModeBats = TRUE
INVARIANT RealModeIsPhysical
\* emergencyBailOut leaves the process
CHECK_DEADLOCK FALSE
