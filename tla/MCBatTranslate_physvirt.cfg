SPECIFICATION Spec
CONSTANTS
    ASize = 64
    Unit = 2
    Blocks = {1, 2}
    Longest = 2
    MaxBat = 4
    Writes <- MCWrites
INVARIANT PhysToVirtIsInverse
