\* Two songs, loaded by the user and by the watchdog one after the other in any order
\* and at the same time, with the slider moved by the user and by the display.  A crash
\* of the display in the first load ends the program.
CONSTANTS
    f1 = f1
    f2 = f2
    Files = {f1, f2}
    NoFile = NoFile
    Packets <- OneAndTwo
    Stated <- Lengths
    Bare = {}
    Tenths = 109
    MaxQueue = 1
    MaxClock = 218
    MaxInt = 218
    Drags = {0}
    DogFiles = {f1}
SPECIFICATION Spec
CHECK_DEADLOCK FALSE
INVARIANTS
    TypeOK
    TimesOfOpenFile
    ShownWithinLength
    SeekFitsItsFile
PROPERTIES
    DisplaySeeksOnlyIfRaced
