SPECIFICATION Spec
CONSTANTS
    Sizes <- SomeSizes
    Rects <- SomeRects
    MaxDraws = 3
    MaxMoves = 1
    MaxAsks = 1
    MaxFaults = 1
CHECK_DEADLOCK FALSE
INVARIANTS TypeOK PixelsPlaced ScreenCurrent
