SPECIFICATION Spec
CONSTANTS
    VliBase = 4
    VliMax = 3
    Radix = 4
    Scratch = 3
    DicMin = 1
    ProbsBytes = 1
    BufBytes = 2
    FeedBytes = 2
    Files <- MCFiles
    Options <- MCOptions
INVARIANTS
    AcceptsExactly
    VerifiedInOrder
PROPERTIES
    ReaderEnds
