SPECIFICATION FairSpec
CONSTANTS
    W = 4
    Block = 2
    MMAddrs <- MCMMAddrs
    ARAddrs <- MCARAddrs
    Highs <- MCHighs
    Lows <- MCLows
    CsrVals <- MCCsrVals
INVARIANT TypeOK
INVARIANT ResetArmed
INVARIANT HaltShown
INVARIANT ExactTransfer
PROPERTY ResetCompletes
PROPERTY TransferCompletes
PROPERTY ImplementsAramDma
\* the bail-out and exit leave the process
CHECK_DEADLOCK FALSE
