\* Loads from both threads, songs added and removed, restarts at any point.
CONSTANTS
    Threads = {gtk, dog}
    Gtk = gtk
    NoThread = NoThread
    MaxId = 3
SPECIFICATION Spec
INVARIANTS
    TypeOK
    PathIsAsked
    PlayingIsLoaded
    MarksBounded
    LastMarkStands
