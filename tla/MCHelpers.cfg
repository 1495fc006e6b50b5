\* Every time and every sequence of tags up to the bounds; the inputs stop growing there.
CONSTANTS
    Fields = {"title", "album"}
    Keys = {"title", "Title", "ALBUM", "album", "long"}
    Lower <- LowerKeys
    Size <- KeySizes
    Values = {v1, v2}
    NULL = NULL
    Undefined = Undefined
    MaxSeconds = 6100
    MaxTags = 4
SPECIFICATION Spec
CHECK_DEADLOCK FALSE
INVARIANTS
    LabelFits
    LastTagWins
