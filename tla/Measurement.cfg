SPECIFICATION Spec
CONSTANTS
    ByteBits = 2
    Bytes = 2
    Wrap = 64
    Ids = {s1, s2}
    Conns = {c1}
    Configs <- SomeConfigs
    Frames <- SomeFrames
    MaxSensors = 2
    MaxFrames = 2
INVARIANTS
    TypeOK
    LastFrameShown
    AnswersRecent
PROPERTIES
    FramesArrive
CHECK_DEADLOCK FALSE
