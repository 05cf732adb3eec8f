SPECIFICATION ArenaSpec
CONSTANTS
    Block = {b1, b2, b3}
    NULL = NULL
    x = x
    y = y
    Cell = {x, y}
    Junk = Junk
    Chunks <- MCChunks
    FirstCapacity = 1
    MaxRef = 3
    MaxSize = 4
    MaxViews = 1
SYMMETRY MCSymmetry
INVARIANTS ArenaTypes OwnsItsBlocks BytesInUseWritten ViewsStayReadable
PROPERTY ImplementsLog
CHECK_DEADLOCK FALSE
