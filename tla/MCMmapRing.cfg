SPECIFICATION Spec
CONSTANTS
    Size = 7
    Header = 1
    MaxLen = 3
    Tags = 8
CHECK_DEADLOCK FALSE
INVARIANTS TypeOK PixelsIntact AllReclaimed
PROPERTY FullRingDrains
