SPECIFICATION Spec
CONSTANTS
    MinBufBudget = 2
    MinPiece = 1
    RecentPieces = 3
    PieceTarget = 4
    OutStep = 2
    DicSize = 4
    Unbounded = 100
    Streams <- SomeStreams
    Callers <- SomeCallers
    Threads <- ThreadCounts
    Limits <- FairLimit
    MaxChanges = 1
    Faults <- AllFaults
INVARIANTS ClaimedOnce DeliveredInOrder AnswerIsRight NoWaitInVain
PROPERTIES LimitGoverns DecodeEnds
