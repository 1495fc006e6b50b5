\* Songs played from both threads while others are added, removed and selected.
CONSTANTS
    Files = {a, b}
    NoFile = NoFile
    Handlers = {"add", "remove", "select", "scroll", "pause", "stop", "loop"}
    MaxId = 2
    MaxRows = 2
SPECIFICATION Spec
SYMMETRY Symmetry
INVARIANTS
    TypeOK
    ListMatchesDb
    IndexesConsecutive
    LoadsAreListed
    ShownIsPlayed
    OffTheListOnlyByRemoval
PROPERTIES
    ScrollsByOne
