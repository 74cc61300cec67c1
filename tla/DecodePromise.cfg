SPECIFICATION DecodeSpec
CONSTANTS
    Streams <- LongStreams
    OutBlockMax = 3
    SmallBlock = 2
    NumThreads = 2
    InBufSize = 2
    Faults <- AllButCoder
    StBufSize = 2
    StStep = 2
PROPERTIES KeepsPromise
