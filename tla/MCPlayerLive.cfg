SPECIFICATION FairSpec
CONSTANTS
    NULL = NULL
    Files = {f1, f2}
    Unplayable = {}
    NPackets = 1
    MaxQueue = 0
    StreamLen = 1
    FrameLen = 2
    SilenceLen = 1
    Calls = {"stop", "free", "seek"}
CHECK_DEADLOCK FALSE
PROPERTIES
    RequestServed
    FreeEnds
    SeekServed
