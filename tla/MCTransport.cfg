SPECIFICATION Spec
CONSTANTS
    Transports = {"tcp", "tls", "wss"}
    MaxChunks = 3
    MaxChunkIndex = 3
    Sends <- MCSends
    MaxPackets = 2
    MaxSent = 3
    MaxPings = 1
    MaxWrites = 1
    Pieces = 2
    SendBuffer = 1
CHECK_DEADLOCK FALSE
INVARIANTS TypeOK WholeFrames
PROPERTIES ChunksComplete LawfulRead WriteEnds
