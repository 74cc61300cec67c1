SPECIFICATION DecodeSpec
CONSTANTS
    Streams <- CleanStreams
    OutBlockMax = 2
    SmallBlock = 1
    NumThreads = 3
    InBufSize = 3
    Faults <- AllFaults
    StBufSize = 2
    StStep = 2
INVARIANTS RingInv OutputIsPrefix AgreesWithSequential
PROPERTIES DecodeReturns
