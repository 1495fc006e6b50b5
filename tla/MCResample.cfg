\* Frames of every number of channels, short and long, at two rates.  A call that is undefined stops there.
CONSTANTS
    Samples = {0, 1152, 30000, 65535}
    Channels = {0, 1, 2, 3, 6}
    Rates = {1, 2}
    Delays = {0, 16}
SPECIFICATION Spec
CHECK_DEADLOCK FALSE
INVARIANTS
    SuccessReleases
    ConvertFits
    FitsAudioBuf
