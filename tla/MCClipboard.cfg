SPECIFICATION Spec
CONSTANTS
    Texts = {a, b}
    Empty = Empty
    Toggles = TRUE
    MaxQueue = 2
SYMMETRY Symmetry
INVARIANTS TypeOK NoEcho NewestWins
