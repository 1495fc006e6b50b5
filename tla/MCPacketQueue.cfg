SPECIFICATION Spec
CONSTANTS
    NULL = NULL
    Reader = reader
    Audio = audio
    Controllers = {gtk}
    Cells = {c1, c2, c3}
    audioPkt = audioPkt
    flushPkt = flushPkt
    Packets <- MCPackets
    PacketSize <- MCPacketSize
INVARIANTS
    TypeOK
    ListIntact
    SizeExact
    CellsAccounted
    NoMoreDataMeansEmpty
    GetNeverWaits
PROPERTY
    ImplementsFifo
