------------------------------ MODULE PacketQueue ------------------------------
(***************************************************************************)
(* The packet queue of src/player_core/player.c: a singly linked list of   *)
(* heap cells between the read thread (packet_queue_put, and               *)
(* packet_queue_flush on a seek or a reload) and the SDL audio thread      *)
(* (packet_queue_get), which other threads may flush (cp_stop_audio) and   *)
(* whose flag no_more_data_in_the_queue they clear without the lock        *)
(* (cp_load_file).                                                         *)
(*                                                                         *)
(* One action per access the mutex does not make atomic for the other      *)
(* threads, and one per group of accesses within a critical section, so    *)
(* that a missing lock shows as an interleaving.                           *)
(***************************************************************************)
EXTENDS Integers, Sequences

CONSTANTS Reader,       \* the read thread: puts packets, flushes
          Audio,        \* the SDL audio thread: gets packets
          Controllers,  \* threads that run cp_load_file, cp_stop_audio, stream_close
          Cells,        \* AVPacketList cells the allocator can hand out
          Packets,      \* packets, the flush packet among them
          PacketSize,   \* AVPacket.size of each packet
          NULL

ASSUME ThreadsAssumption ==
    /\ Reader # Audio
    /\ Reader \notin Controllers /\ Audio \notin Controllers
    /\ NULL \notin {Reader, Audio} \cup Controllers

ASSUME CellsAssumption == NULL \notin Cells

ASSUME PacketsAssumption ==
    /\ NULL \notin Packets
    /\ PacketSize \in [Packets -> Nat]

Threads  == {Reader, Audio} \cup Controllers
Flushers == {Reader} \cup Controllers

VARIABLES
    first_pkt, last_pkt, nb_packets, size,  \* struct PacketQueue
    mutex,                                  \* the thread holding q->mutex, or NULL
    next, pkt, heap,                        \* AVPacketList cells: fields, and which are allocated
    no_more_data_in_the_queue, quit,        \* globals the queue's code reads or writes
    pc, pkt1,                               \* per thread: where it is, its local cell pointer
    got,                                    \* *pkt of the last get, NULL if it returned -1
    chain                                   \* history variable: the cells linked in, oldest first

queueVars == <<first_pkt, last_pkt, nb_packets, size>>
heapVars  == <<next, pkt, heap>>
flags     == <<no_more_data_in_the_queue, quit>>
vars == <<queueVars, mutex, heapVars, flags, pc, pkt1, got, chain>>

Init ==
    /\ first_pkt = NULL /\ last_pkt = NULL /\ nb_packets = 0 /\ size = 0
    /\ mutex = NULL
    /\ next = [c \in Cells |-> NULL]
    /\ pkt \in [Cells -> Packets]
    /\ heap = {}
    /\ no_more_data_in_the_queue = FALSE
    /\ quit = FALSE
    /\ pc = [t \in Threads |-> "idle"]
    /\ pkt1 = [t \in Threads |-> NULL]
    /\ got = NULL
    /\ chain = <<>>

Goto(t, from, to) ==
    /\ pc[t] = from
    /\ pc' = [pc EXCEPT ![t] = to]

Lock(t) == mutex = NULL /\ mutex' = t

-------------------------------------------------------------------------------
(* packet_queue_put.  A failing av_malloc returns -1 and changes nothing.   *)

PutAlloc(p) ==
    /\ Goto(Reader, "idle", "put_lock")
    /\ \E c \in Cells \ heap :
         /\ heap' = heap \cup {c}
         /\ pkt' = [pkt EXCEPT ![c] = p]
         /\ next' = [next EXCEPT ![c] = NULL]
         /\ pkt1' = [pkt1 EXCEPT ![Reader] = c]
    /\ UNCHANGED <<queueVars, mutex, flags, got, chain>>

PutLock ==
    /\ Goto(Reader, "put_lock", "put_link")
    /\ Lock(Reader)
    /\ UNCHANGED <<queueVars, heapVars, flags, pkt1, got, chain>>

\* Mutant of PutLink: a stack, newest packet in front.
PutLinkInFront ==
    /\ Goto(Reader, "put_link", "put_count")
    /\ next' = [next EXCEPT ![pkt1[Reader]] = first_pkt]
    /\ first_pkt' = pkt1[Reader]
    /\ last_pkt' = IF last_pkt = NULL THEN pkt1[Reader] ELSE last_pkt
    /\ chain' = <<pkt1[Reader]>> \o chain
    /\ UNCHANGED <<nb_packets, size, mutex, pkt, heap, flags, pkt1, got>>

PutLink ==
    /\ Goto(Reader, "put_link", "put_count")
    /\ IF last_pkt = NULL
       THEN first_pkt' = pkt1[Reader] /\ UNCHANGED next
       ELSE next' = [next EXCEPT ![last_pkt] = pkt1[Reader]] /\ UNCHANGED first_pkt
    /\ last_pkt' = pkt1[Reader]
    /\ chain' = Append(chain, pkt1[Reader])
    /\ UNCHANGED <<nb_packets, size, mutex, pkt, heap, flags, pkt1, got>>

\* Mutant of PutCount: the flag stays up.
PutCountKeepsFlag ==
    /\ pc[Reader] = "put_count"
    /\ pc' = [pc EXCEPT ![Reader] = "unlock",
                        ![Audio] = IF @ = "cond_wait" THEN "get_lock" ELSE @]
    /\ nb_packets' = nb_packets + 1
    /\ size' = size + PacketSize[pkt[pkt1[Reader]]]
    /\ UNCHANGED <<first_pkt, last_pkt, mutex, heapVars, flags, pkt1, got, chain>>

\* Counters, flag and SDL_CondSignal, which sends a waiting get back to the lock.
PutCount ==
    /\ pc[Reader] = "put_count"
    /\ pc' = [pc EXCEPT ![Reader] = "unlock",
                        ![Audio] = IF @ = "cond_wait" THEN "get_lock" ELSE @]
    /\ nb_packets' = nb_packets + 1
    /\ size' = size + PacketSize[pkt[pkt1[Reader]]]
    /\ no_more_data_in_the_queue' = FALSE
    /\ UNCHANGED <<first_pkt, last_pkt, mutex, heapVars, quit, pkt1, got, chain>>

-------------------------------------------------------------------------------
(* packet_queue_get with block = 1, the only way the code calls it.         *)

GetLock ==
    /\ pc[Audio] \in {"idle", "get_lock"}
    /\ Lock(Audio)
    /\ pc' = [pc EXCEPT ![Audio] = "get_test"]
    /\ UNCHANGED <<queueVars, heapVars, flags, pkt1, got, chain>>

GetQuit ==
    /\ Goto(Audio, "get_test", "unlock")
    /\ quit
    /\ got' = NULL
    /\ UNCHANGED <<queueVars, mutex, heapVars, flags, pkt1, chain>>

\* Mutant of GetUnlink: last_pkt still points to the only cell, now unlinked.
GetUnlinkKeepsLast ==
    /\ Goto(Audio, "get_test", "get_count")
    /\ ~quit
    /\ first_pkt # NULL
    /\ no_more_data_in_the_queue' = FALSE
    /\ pkt1' = [pkt1 EXCEPT ![Audio] = first_pkt]
    /\ first_pkt' = next[first_pkt]
    /\ chain' = Tail(chain)
    /\ UNCHANGED <<last_pkt, nb_packets, size, mutex, heapVars, quit, got>>

GetUnlink ==
    /\ Goto(Audio, "get_test", "get_count")
    /\ ~quit
    /\ first_pkt # NULL
    /\ no_more_data_in_the_queue' = FALSE
    /\ pkt1' = [pkt1 EXCEPT ![Audio] = first_pkt]
    /\ first_pkt' = next[first_pkt]
    /\ last_pkt' = IF next[first_pkt] = NULL THEN NULL ELSE last_pkt
    /\ chain' = Tail(chain)
    /\ UNCHANGED <<nb_packets, size, mutex, heapVars, quit, got>>

\* Mutants of GetCount: the cell is never freed; the cell itself is handed out.
GetCountLeaks ==
    /\ Goto(Audio, "get_count", "unlock")
    /\ nb_packets' = nb_packets - 1
    /\ size' = size - PacketSize[pkt[pkt1[Audio]]]
    /\ got' = pkt[pkt1[Audio]]
    /\ UNCHANGED <<first_pkt, last_pkt, mutex, heapVars, flags, pkt1, chain>>

GetCountReturnsCell ==
    /\ Goto(Audio, "get_count", "unlock")
    /\ nb_packets' = nb_packets - 1
    /\ size' = size - PacketSize[pkt[pkt1[Audio]]]
    /\ got' = pkt1[Audio]
    /\ heap' = heap \ {pkt1[Audio]}
    /\ UNCHANGED <<first_pkt, last_pkt, mutex, next, pkt, flags, pkt1, chain>>

GetCount ==
    /\ Goto(Audio, "get_count", "unlock")
    /\ nb_packets' = nb_packets - 1
    /\ size' = size - PacketSize[pkt[pkt1[Audio]]]
    /\ got' = pkt[pkt1[Audio]]
    /\ heap' = heap \ {pkt1[Audio]}
    /\ UNCHANGED <<first_pkt, last_pkt, mutex, next, pkt, flags, pkt1, chain>>

\* An empty queue: give up if no packet is counted, else SDL_CondWait.
GetEmpty ==
    /\ pc[Audio] = "get_test"
    /\ ~quit
    /\ first_pkt = NULL
    /\ IF nb_packets <= 0
       THEN /\ no_more_data_in_the_queue' = TRUE
            /\ got' = NULL
            /\ pc' = [pc EXCEPT ![Audio] = "unlock"]
            /\ UNCHANGED mutex
       ELSE /\ pc' = [pc EXCEPT ![Audio] = "cond_wait"]
            /\ mutex' = NULL
            /\ UNCHANGED <<no_more_data_in_the_queue, got>>
    /\ UNCHANGED <<queueVars, heapVars, quit, pkt1, chain>>

-------------------------------------------------------------------------------
(* packet_queue_flush: free cell by cell, then reset the structure.         *)

FlushLock(t) ==
    /\ Goto(t, "idle", "flush_walk")
    /\ Lock(t)
    /\ pkt1' = [pkt1 EXCEPT ![t] = first_pkt]
    /\ UNCHANGED <<queueVars, heapVars, flags, got, chain>>

FlushFree(t) ==
    /\ pc[t] = "flush_walk"
    /\ pkt1[t] # NULL
    /\ heap' = heap \ {pkt1[t]}
    /\ pkt1' = [pkt1 EXCEPT ![t] = next[pkt1[t]]]
    /\ chain' = Tail(chain)
    /\ UNCHANGED <<queueVars, mutex, next, pkt, flags, pc, got>>

\* Mutants of FlushReset: one of the two counters is forgotten.
FlushResetKeepsSize(t) ==
    /\ Goto(t, "flush_walk", "unlock")
    /\ pkt1[t] = NULL
    /\ first_pkt' = NULL /\ last_pkt' = NULL
    /\ nb_packets' = 0
    /\ UNCHANGED <<size, mutex, heapVars, flags, pkt1, got, chain>>

FlushResetKeepsCount(t) ==
    /\ Goto(t, "flush_walk", "unlock")
    /\ pkt1[t] = NULL
    /\ first_pkt' = NULL /\ last_pkt' = NULL
    /\ size' = 0
    /\ UNCHANGED <<nb_packets, mutex, heapVars, flags, pkt1, got, chain>>

FlushReset(t) ==
    /\ Goto(t, "flush_walk", "unlock")
    /\ pkt1[t] = NULL
    /\ first_pkt' = NULL /\ last_pkt' = NULL
    /\ nb_packets' = 0 /\ size' = 0
    /\ UNCHANGED <<mutex, heapVars, flags, pkt1, got, chain>>

Unlock(t) ==
    /\ Goto(t, "unlock", "idle")
    /\ mutex' = NULL
    /\ UNCHANGED <<queueVars, heapVars, flags, pkt1, got, chain>>

-------------------------------------------------------------------------------
(* Unlocked accesses from the other threads.                                *)

\* cp_load_file on a live player
ClearNoMoreData ==
    /\ no_more_data_in_the_queue' = FALSE
    /\ UNCHANGED <<queueVars, mutex, heapVars, quit, pc, pkt1, got, chain>>

\* stream_close
SetQuit ==
    /\ quit' = TRUE
    /\ UNCHANGED <<queueVars, mutex, heapVars, no_more_data_in_the_queue, pc, pkt1, got, chain>>

Next ==
    \/ \E p \in Packets : PutAlloc(p)
    \/ PutLock \/ PutLink \/ PutCount
    \/ GetLock \/ GetQuit \/ GetUnlink \/ GetCount \/ GetEmpty
    \/ \E t \in Flushers : FlushLock(t) \/ FlushFree(t) \/ FlushReset(t)
    \/ \E t \in Threads : Unlock(t)
    \/ ClearNoMoreData
    \/ SetQuit

Spec == Init /\ [][Next]_vars

-------------------------------------------------------------------------------
(* Properties.                                                              *)

\* Every variable stays in its range.
TypeOK ==
    /\ first_pkt \in Cells \cup {NULL} /\ last_pkt \in Cells \cup {NULL}
    /\ nb_packets \in Int /\ size \in Int
    /\ mutex \in Threads \cup {NULL}
    /\ next \in [Cells -> Cells \cup {NULL}]
    /\ pkt \in [Cells -> Packets]
    /\ heap \in SUBSET Cells
    /\ no_more_data_in_the_queue \in BOOLEAN /\ quit \in BOOLEAN
    /\ pc \in [Threads -> {"idle", "put_lock", "put_link", "put_count", "get_lock",
                           "get_test", "get_count", "cond_wait", "flush_walk", "unlock"}]
    /\ pkt1 \in [Threads -> Cells \cup {NULL}]
    /\ got \in Packets \cup {NULL}
    /\ chain \in Seq(Cells)

\* The cell a thread has allocated but not linked, or unlinked but not freed.
HeldCells ==
    {pkt1[t] : t \in {u \in Threads : \/ u = Reader /\ pc[u] \in {"put_lock", "put_link"}
                                      \/ u = Audio /\ pc[u] = "get_count"}}

ChainCells == {chain[i] : i \in DOMAIN chain}

\* The list is what the history says: the first and last pointers and the next
\* fields spell out chain, and nb_packets counts it (player.c put, get, flush).
WellLinked ==
    /\ first_pkt = IF chain = <<>> THEN NULL ELSE chain[1]
    /\ last_pkt = IF chain = <<>> THEN NULL ELSE chain[Len(chain)]
    /\ \A i \in 1 .. Len(chain) :
         next[chain[i]] = IF i = Len(chain) THEN NULL ELSE chain[i + 1]
    /\ nb_packets = Len(chain)

\* Whenever no thread is inside a critical section, the linked list, its two end
\* pointers and its packet counter agree, whatever puts, gets and flushes went before.
ListIntact == mutex = NULL => WellLinked

\* The bytes of a sequence of packets.
Bytes(ps) ==
    LET sum[i \in 0 .. Len(ps)] == IF i = 0 THEN 0 ELSE sum[i - 1] + PacketSize[ps[i]]
    IN  sum[Len(ps)]

\* Whenever the lock is free, size is the number of bytes queued: the read thread
\* throttles on it (MAX_AUDIOQ_SIZE), so a drift would stall or flood the queue.
SizeExact == mutex = NULL => size = Bytes([i \in 1 .. Len(chain) |-> pkt[chain[i]]])

\* A cell is allocated exactly while it is linked in or in a thread's hands: no
\* leak, no double free, and no cell freed by a flush while another thread uses it.
CellsAccounted ==
    /\ heap = ChainCells \cup HeldCells
    /\ HeldCells \cap ChainCells = {}

\* The flag the watchdog takes for "the audio is stopping" is never up while a
\* packet is queued, although four places write it, one of them without the lock.
NoMoreDataMeansEmpty ==
    mutex = NULL /\ no_more_data_in_the_queue => first_pkt = NULL

\* A get never blocks: the branch that calls SDL_CondWait needs an empty list with
\* a positive packet counter.  (player.c:546 says that a get with block set waits.)
\* The GUI relies on it, for SDL_PauseAudio waits for the audio callback, and the
\* callback fetches packets.
GetNeverWaits == pc[Audio] # "cond_wait"

\* The queue implements Fifo: a put takes effect when the cell is linked, a get when
\* it is unlinked, a flush as soon as it holds the lock.
Flushing == \E t \in Flushers : pc[t] = "flush_walk"

FifoItems == IF Flushing THEN <<>> ELSE [i \in 1 .. Len(chain) |-> pkt[chain[i]]]
FifoOut   == IF pc[Audio] = "get_count" THEN pkt[pkt1[Audio]] ELSE got

Abstract == INSTANCE Fifo WITH items <- FifoItems, out <- FifoOut, closed <- quit

\* Puts, gets and flushes of any number of threads act as on one FIFO queue.
ImplementsFifo == Abstract!Spec

===============================================================================
