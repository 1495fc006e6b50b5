-------------------------------- MODULE Stream --------------------------------
(***************************************************************************)
(* What the player promises of the song it plays, free of threads, queue    *)
(* and device: packets are read ahead in the order of the file and handed   *)
(* to the decoder in that order.  Player implements it.                     *)
(***************************************************************************)
EXTENDS Integers

CONSTANTS Files,     \* songs
          NPackets,  \* packets of a song
          MaxQueue,  \* how many may be ahead when another is read
          NULL       \* no song, no packet

VARIABLES asked,     \* the song asked for last
          file,      \* the open song
          read,      \* packets of it read so far
          next,      \* the packet the decoder gets next
          seeking,   \* a seek is asked for
          pkt        \* the packet in the decoder's hands

vars == <<asked, file, read, next, seeking, pkt>>

Init ==
    /\ asked = NULL /\ file = NULL /\ read = 0 /\ next = 1
    /\ seeking = FALSE /\ pkt = NULL

Ask(f) ==
    /\ asked' = f
    /\ UNCHANGED <<file, read, next, seeking, pkt>>

\* The song is the one asked for last, read and heard from its first packet.
Open ==
    /\ asked # NULL
    /\ file = NULL /\ read = 0 /\ next = 1
    /\ file' = asked
    /\ UNCHANGED <<asked, read, next, seeking, pkt>>

Close ==
    /\ file' = NULL /\ read' = 0 /\ next' = 1
    /\ UNCHANGED <<asked, seeking, pkt>>

Read ==
    /\ file # NULL /\ read < NPackets
    /\ read + 1 - next <= MaxQueue
    /\ read' = read + 1
    /\ UNCHANGED <<asked, file, next, seeking, pkt>>

\* The packets read ahead are handed over in order, or dropped all at once.
Deliver ==
    /\ file # NULL /\ next <= read
    /\ pkt' = [file |-> file, pos |-> next]
    /\ next' = next + 1
    /\ UNCHANGED <<asked, file, read, seeking>>

Drop ==
    /\ file # NULL
    /\ next' = read + 1
    /\ UNCHANGED <<asked, file, read, seeking, pkt>>

Done ==
    /\ pkt' = NULL
    /\ UNCHANGED <<asked, file, read, next, seeking>>

\* Reading goes on elsewhere only if that was asked for.
AskSeek ==
    /\ seeking' = TRUE
    /\ UNCHANGED <<asked, file, read, next, pkt>>

Seek ==
    /\ seeking /\ file # NULL
    /\ read' \in 0 .. NPackets
    /\ next' = read' + 1
    /\ UNCHANGED <<asked, file, seeking, pkt>>

SeekDone ==
    /\ seeking' = FALSE
    /\ UNCHANGED <<asked, file, read, next, pkt>>

Next ==
    \/ \E f \in Files : Ask(f)
    \/ Open \/ Close \/ Read \/ Deliver \/ Drop \/ Done
    \/ AskSeek \/ Seek \/ SeekDone

Spec == Init /\ [][Next]_vars

===============================================================================
