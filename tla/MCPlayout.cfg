SPECIFICATION PlayoutSpec
CONSTANTS
    FramesPerMs = 2
    StartTarget = 1
    MinTarget = 1
    MaxTarget = 2
    HardCap = 3
    UpStep = 2
    DownStep = 1
    MaxJitter = 1
    PacketFrames <- PacketSizes
    PreSkip = 1
    BufferFrames = 2
    MaxFaults = 1
    Tags = 10
CHECK_DEADLOCK FALSE
INVARIANT PlayoutTypeOK
PROPERTIES HeardInOrder Resumes
