SPECIFICATION Spec
CONSTANTS
    Texts = {a, b}
    Empty = Empty
    Toggles = FALSE
    MaxQueue = 2
SYMMETRY Symmetry
INVARIANT LatestServed
