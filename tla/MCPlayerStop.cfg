SPECIFICATION Spec
CONSTANTS
    NULL = NULL
    Files = {f1}
    Unplayable = {}
    NPackets = 1
    MaxQueue = 0
    StreamLen = 1
    FrameLen = 2
    SilenceLen = 1
    Calls = {"load", "stop"}
CHECK_DEADLOCK FALSE
PROPERTY
    StopIsSilent
