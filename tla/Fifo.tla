--------------------------------- MODULE Fifo ---------------------------------
(***************************************************************************)
(* What the packet queue of player.c promises its two clients, free of     *)
(* locks, cells and counters: a first-in first-out queue from which a      *)
(* packet is fetched without ever waiting.  PacketQueue implements it.     *)
(***************************************************************************)
EXTENDS Sequences

CONSTANTS Packets,  \* what the read thread may put into the queue
          NULL      \* "no packet"

VARIABLES items,    \* the queued packets, oldest first
          out,      \* what the last get returned: a packet, or NULL for -1
          closed    \* TRUE once the stream is closing

vars == <<items, out, closed>>

Init == /\ items = <<>>
        /\ out = NULL
        /\ closed = FALSE

Put(p) == /\ items' = Append(items, p)
          /\ UNCHANGED <<out, closed>>

\* A get on an open queue hands out the oldest packet and removes it.
Get == /\ ~closed
       /\ items # <<>>
       /\ out' = Head(items)
       /\ items' = Tail(items)
       /\ UNCHANGED closed

\* A get fails, at once, only if there is nothing to fetch or the stream closes.
GetNothing == /\ closed \/ items = <<>>
              /\ out' = NULL
              /\ UNCHANGED <<items, closed>>

Flush == /\ items' = <<>>
         /\ UNCHANGED <<out, closed>>

Close == /\ closed' = TRUE
         /\ UNCHANGED <<items, out>>

Next == \/ \E p \in Packets : Put(p)
        \/ Get
        \/ GetNothing
        \/ Flush
        \/ Close

Spec == Init /\ [][Next]_vars

===============================================================================
