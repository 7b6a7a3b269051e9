SPECIFICATION Spec
CONSTANTS
    NumLow = 2
    MsrVals <- AllMsr
    BatWrites <- LeakWrites
    RfiSwitches = TRUE
    RealModeBats = FALSE
INVARIANT RealModeIsPhysical
\* emergencyBailOut leaves the process
CHECK_DEADLOCK FALSE
