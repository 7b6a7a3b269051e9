SPECIFICATION Spec
CONSTANTS
    NumLow = 2
    MsrVals <- AllMsr
    BatWrites <- AnyWrites
    RfiSwitches = FALSE
    RealModeBats = FALSE
INVARIANT TypeOK
INVARIANT TrackedIsMapped
INVARIANT NothingPending
PROPERTY TrapsRunOut
\* emergencyBailOut leaves the process
CHECK_DEADLOCK FALSE
