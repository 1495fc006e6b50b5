SPECIFICATION Spec
CONSTANTS
    NULL = NULL
    Files = {f1, f2}
    Unplayable = {f2}
    NPackets = 1
    MaxQueue = 0
    StreamLen = 1
    FrameLen = 2
    SilenceLen = 1
    Calls = {"load", "pause", "free"}
CHECK_DEADLOCK FALSE
INVARIANTS
    NoStaleFile
    QuietRestart
    CallbackSafe
    ReleasedUnused
