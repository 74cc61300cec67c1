SPECIFICATION Spec
CONSTANTS
    ByteBits = 2
    ProbBits = 3
    MoveBits = 2
    HighBits = 1
    SlotBits = 3
    EndPosModel = 6
    AlignBits = 1
    Lc = 1
    Lp = 0
    Pb = 1
    DictSize = 10
    RcBufSize = 4
    FastBytes = 4
    NumOpts = 2
    Far = 3
    VeryFar = 5
    RequiredMax = 6
    DicRound = 4
    PackReserve = 6
    UnpackReserve = 20
    ChunkSlack = 8
    MemShare = 3
    MemExtra = 16
    Step = 8
    Margin = 46
    RunStep = 3
    Pieces <- MCPieces
    Cuts <- MCCuts
    Rooms <- MCRooms
    Cases <- MCCases
    EncoderSteps <- PushSteps
    EncoderReset <- PushReset
    ReaderTurns <- Turns
    RunCall <- RunLoop
    RunEnd <- RunFinish
    Pulled <- PullOutput
    Whole <- WholeRead
INVARIANTS
    RoundTrip
    ReadsInside
    CutsDoNotMatter
    PushIsPull
PROPERTY
    ReadingEnds
