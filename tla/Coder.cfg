SPECIFICATION Spec
CONSTANTS
    NumThreads = 2
    SmallBlocks = 0
    BlockSize = 2
    Inputs <- SomeInputs
    Faults <- AllFaults
INVARIANTS NothingShared OneWriter WrittenInOrder OkIsComplete
PROPERTIES CodeReturns
