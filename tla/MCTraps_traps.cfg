CONSTANTS
    B = 2
    W = 4
    AiBits = 2
    HwVals <- MCHwVals
    Machines <- MCMachines
    Accesses <- MCAccesses
    OwnAccesses <- MCOwnAccesses
    Vals <- MCVals
    DecVals = {3}
    DecStep <- MCDecStep
SPECIFICATION FairSpec
INVARIANTS TypeOK FatalIsFinal Precise SeedWhole
PROPERTIES DecrementerFalls HandlersEnd FatalStops ImplementsGuestCpu
CHECK_DEADLOCK FALSE
