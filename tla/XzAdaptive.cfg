SPECIFICATION Spec
CONSTANTS
    VliBase = 4
    VliMax = 3
    Radix = 4
    Scratch = 3
    DicMin = 1
    OutStep = 3
    DrainAgain = FALSE
    Lots <- MCLots
INVARIANTS
    AdaptiveAccepts
    HeldWithinLimits
PROPERTIES
    DrainEnds
