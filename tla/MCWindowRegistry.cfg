SPECIFICATION Spec
CONSTANTS
    Wids = {w1, w2}
    Ids = {i1, i2}
    Cursors = {c1}
    Updates <- MCUpdates
    MaxPending = 2
    NoWid = NoWid
    NoId = NoId
    DefaultCursor = DefaultCursor
SYMMETRY Symmetry
CHECK_DEADLOCK FALSE
INVARIANTS TypeOK IdMapExact GrabTracked LooksAsAsked
PROPERTY InputForOpenWindow
