SPECIFICATION Spec
CONSTANTS
    Wids = {w1, w2}
    OnWindows = TRUE
    MaxPackets = 4
CHECK_DEADLOCK FALSE
INVARIANTS TypeOK DecodedInSync NoOrphanDecoder
PROPERTIES AcksInOrder EveryDrawAcked
