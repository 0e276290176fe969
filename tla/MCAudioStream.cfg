SPECIFICATION Spec
CONSTANTS
    Shapes <- MCShapes
    Capacity = 2
    Threshold = 2
    MaxLatency = 3
    MaxStreams = 2
    MaxSeq = 1
    MaxQueue = 1
CHECK_DEADLOCK FALSE
INVARIANTS TypeOK NeverMixed SilentWhenOver SyncClose
PROPERTIES FailureStops
