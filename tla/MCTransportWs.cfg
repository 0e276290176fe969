SPECIFICATION Spec
CONSTANTS
    Transports = {"ws"}
    MaxChunks = 3
    MaxChunkIndex = 3
    Sends <- MCSends
    MaxPackets = 2
    MaxSent = 3
    MaxPings = 1
    MaxWrites = 1
    Pieces = 2
    SendBuffer = 1
CHECK_DEADLOCK FALSE
INVARIANT WholeFrames
