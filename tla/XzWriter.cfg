SPECIFICATION Spec
CONSTANTS
    VliBase = 4
    VliMax = 3
    Radix = 4
    Scratch = 2
    DicMin = 1
    InputDepth = 2
    OutputDepth = 2
    OutBatch = 2
    ChunkLen = 2
    Options <- MCOptions
INVARIANTS
    WrittenFile
PROPERTIES
    WriterEnds
