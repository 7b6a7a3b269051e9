SPECIFICATION Spec
CONSTANTS
    NumLow = 2
    MsrVals <- AllMsr
    BatWrites <- OsWrites
    RfiSwitches = TRUE
    RealModeBats = TRUE
INVARIANT IbatsHonoured
\* emergencyBailOut leaves the process
CHECK_DEADLOCK FALSE
