SPECIFICATION FairSpec
CONSTANTS
    NumLow = 2
    MsrVals <- AllMsr
    BatWrites <- OsWrites
    RfiSwitches = TRUE
    RealModeBats = TRUE
INVARIANT RealModeIsPhysical
INVARIANT OnlyWhatBatsSay
INVARIANT DbatsHonoured
INVARIANT MapInv
PROPERTY TrapCompletes
PROPERTY ImplementsGuestMemory
\* emergencyBailOut leaves the process
CHECK_DEADLOCK FALSE
