SPECIFICATION Spec
CONSTANTS
    NULL = NULL
    Files = {f1, f2}
    Unplayable = {f2}
    NPackets = 3
    MaxQueue = 1
    StreamLen = 2
    FrameLen = 3
    SilenceLen = 1
    Calls = {"seek", "stop"}
CHECK_DEADLOCK FALSE
INVARIANTS
    TypeOK
    QueueOfOpenFile
    QueueBounded
PROPERTY
    ImplementsStream
