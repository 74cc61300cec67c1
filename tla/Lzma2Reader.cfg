SPECIFICATION Spec
CONSTANTS
    Streams <- Few
    OutBlockMax = 3
    SmallBlock = 2
    Rooms = {1, 2}
    SourceFails = TRUE
INVARIANTS
    ReadsThrough
PROPERTIES
    ReaderStops
