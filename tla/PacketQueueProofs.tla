--------------------------- MODULE PacketQueueProofs ---------------------------
(***************************************************************************)
(* The packet queue is correct for any number of threads, cells and        *)
(* packets: an inductive invariant of PacketQueue, the properties it gives, *)
(* and the refinement of Fifo.                                              *)
(***************************************************************************)
EXTENDS PacketQueue, Induction, TLAPS, SequenceTheorems

Critical == {"put_link", "put_count", "get_test", "get_count", "flush_walk", "unlock"}

\* A thread holds the lock exactly while it is in a critical section, and each
\* program point belongs to the threads that run its function.
LockInv ==
    /\ \A t \in Threads : pc[t] \in Critical <=> mutex = t
    /\ \A t \in Threads : pc[t] \in {"put_lock", "put_link", "put_count"} => t = Reader
    /\ \A t \in Threads : pc[t] \in {"get_lock", "get_test", "get_count", "cond_wait"} => t = Audio
    /\ pc[Audio] # "flush_walk"

\* The cells linked in are distinct and allocated, and next strings them together.
ChainInv ==
    /\ \A i, j \in 1 .. Len(chain) : chain[i] = chain[j] => i = j
    /\ \A i \in 1 .. Len(chain) : chain[i] \in heap
    /\ \A i \in 1 .. Len(chain) :
         next[chain[i]] = IF i = Len(chain) THEN NULL ELSE chain[i + 1]

ReaderHolds == pc[Reader] \in {"put_lock", "put_link"}
AudioHolds  == pc[Audio] = "get_count"

\* The cell being put or fetched is allocated, linked nowhere, and not both.
HeldInv ==
    /\ ReaderHolds => /\ pkt1[Reader] \in heap
                      /\ next[pkt1[Reader]] = NULL
                      /\ \A i \in 1 .. Len(chain) : chain[i] # pkt1[Reader]
    /\ AudioHolds => /\ pkt1[Audio] \in heap
                     /\ \A i \in 1 .. Len(chain) : chain[i] # pkt1[Audio]
    /\ ReaderHolds /\ AudioHolds => pkt1[Reader] # pkt1[Audio]
    /\ pc[Reader] = "put_count" => pkt1[Reader] # NULL

\* Every allocated cell is linked in or in a thread's hands.
HeapInv ==
    \A c \in heap : \/ \E i \in 1 .. Len(chain) : chain[i] = c
                    \/ ReaderHolds /\ c = pkt1[Reader]
                    \/ AudioHolds /\ c = pkt1[Audio]

\* The end pointers point to the ends, except under a flush, which walks from the head.
EndsInv ==
    /\ ~Flushing =>
         /\ first_pkt = IF chain = <<>> THEN NULL ELSE chain[1]
         /\ last_pkt = IF chain = <<>> THEN NULL ELSE chain[Len(chain)]
    /\ \A t \in Flushers :
         pc[t] = "flush_walk" => pkt1[t] = IF chain = <<>> THEN NULL ELSE chain[1]

\* The counter lags behind the link of a put and the unlink of a get.
CountInv ==
    ~Flushing =>
      nb_packets = Len(chain) + (IF pc[Audio] = "get_count" THEN 1 ELSE 0)
                              - (IF pc[Reader] = "put_count" THEN 1 ELSE 0)

\* The flag is up only over an empty list, or until the put under way clears it.
FlagInv == no_more_data_in_the_queue => first_pkt = NULL \/ pc[Reader] = "put_count"

IInv ==
    /\ TypeOK
    /\ LockInv
    /\ ChainInv
    /\ HeldInv
    /\ HeapInv
    /\ EndsInv
    /\ CountInv
    /\ FlagInv
    /\ GetNeverWaits

-------------------------------------------------------------------------------
(* Facts about the constants, and about the two operations on the chain.    *)

\* The threads are told apart.
LEMMA ThreadFacts ==
    /\ Reader \in Threads /\ Audio \in Threads /\ Reader # Audio
    /\ \A t \in Flushers : t \in Threads /\ t # Audio
    /\ NULL \notin Threads
  BY ThreadsAssumption DEF Threads, Flushers

\* What Append does to a sequence, index by index.
LEMMA AppendFacts ==
  ASSUME NEW S, NEW s \in Seq(S), NEW e \in S
  PROVE  /\ Append(s, e) \in Seq(S)
         /\ Append(s, e) # <<>>
         /\ Len(Append(s, e)) = Len(s) + 1
         /\ \A i \in 1 .. Len(s) : Append(s, e)[i] = s[i]
         /\ Append(s, e)[Len(s) + 1] = e
  BY AppendProperties

\* What Tail does to a sequence that is not empty, index by index.
LEMMA TailFacts ==
  ASSUME NEW S, NEW s \in Seq(S), s # <<>>
  PROVE  /\ Len(s) \in Nat \ {0}
         /\ s[1] \in S
         /\ Tail(s) \in Seq(S)
         /\ Len(Tail(s)) = Len(s) - 1
         /\ Tail(s) = <<>> <=> Len(s) = 1
         /\ \A i \in 1 .. Len(s) - 1 : Tail(s)[i] = s[i + 1]
<1>1. Len(s) \in Nat \ {0}
  BY EmptySeq
<1>2. s[1] \in S
  BY <1>1, ElementOfSeq
<1>3. /\ Tail(s) \in Seq(S)
      /\ Len(Tail(s)) = Len(s) - 1
      /\ \A i \in 1 .. Len(s) - 1 : Tail(s)[i] = s[i + 1]
  BY HeadTailProperties
<1>4. Tail(s) = <<>> <=> Len(Tail(s)) = 0
  BY <1>3, EmptySeq
<1> QED
  BY <1>1, <1>2, <1>3, <1>4

-------------------------------------------------------------------------------
(* The initial state.                                                       *)

\* The empty queue satisfies the invariant.
LEMMA InitIInv == Init => IInv
<1> SUFFICES ASSUME Init PROVE IInv
  OBVIOUS
<1> USE ThreadsAssumption, CellsAssumption, PacketsAssumption DEF Init
<1>1. TypeOK
  <2>1. chain \in Seq(Cells)
    BY EmptySeq
  <2>2. pc \in [Threads -> {"idle"}] /\ pkt1 \in [Threads -> {NULL}] /\ next \in [Cells -> {NULL}]
    OBVIOUS
  <2>3. nb_packets \in Int /\ size \in Int /\ heap \in SUBSET Cells
    OBVIOUS
  <2>4. /\ pc \in [Threads -> {"idle", "put_lock", "put_link", "put_count", "get_lock",
                           "get_test", "get_count", "cond_wait", "flush_walk", "unlock"}]
    BY <2>2
  <2>5. /\ pkt1 \in [Threads -> Cells \cup {NULL}]
    /\ next \in [Cells -> Cells \cup {NULL}]
    BY <2>2
  <2> QED
    BY <2>1, <2>3, <2>4, <2>5 DEF TypeOK
<1>2. LockInv
  BY DEF LockInv, Threads, Critical
<1>3. ChainInv /\ HeapInv
  BY DEF ChainInv, HeapInv
<1>4. HeldInv /\ CountInv /\ FlagInv /\ GetNeverWaits
  BY DEF HeldInv, ReaderHolds, AudioHolds, CountInv, FlagInv, GetNeverWaits, Threads
<1>5. EndsInv
  BY DEF EndsInv, Threads, Flushers
<1> QED
  BY <1>1, <1>2, <1>3, <1>4, <1>5 DEF IInv

\* A cell of the reader's own: nothing shared changes.
LEMMA PutAllocStep == ASSUME NEW p \in Packets, IInv, PutAlloc(p) PROVE IInv'
<1> USE CellsAssumption DEF PutAlloc, Goto, Lock, queueVars, heapVars, flags
<1>1. LockInv' /\ ChainInv' /\ EndsInv' /\ CountInv' /\ FlagInv' /\ GetNeverWaits'
  BY DEF IInv, TypeOK, LockInv, Critical, ChainInv, EndsInv, Flushing, CountInv,
         FlagInv, GetNeverWaits
<1>2. TypeOK' /\ HeapInv'
  BY ThreadFacts DEF IInv, TypeOK, HeapInv, ReaderHolds, AudioHolds
<1>3. HeldInv'
  <2>1. PICK c \in Cells \ heap : /\ heap' = heap \cup {c}
                                  /\ next' = [next EXCEPT ![c] = NULL]
                                  /\ pkt1' = [pkt1 EXCEPT ![Reader] = c]
    OBVIOUS
  <2>2. pkt1'[Reader] = c /\ pkt1'[Audio] = pkt1[Audio] /\ next'[c] = NULL
    BY <2>1, ThreadFacts DEF IInv, TypeOK
  <2>3. pc'[Reader] = "put_lock" /\ pc'[Audio] = pc[Audio]
    BY ThreadFacts DEF IInv, TypeOK
  <2> QED
    BY <2>1, <2>2, <2>3 DEF IInv, ChainInv, HeldInv, ReaderHolds, AudioHolds
<1> QED
  BY <1>1, <1>2, <1>3 DEF IInv

\* The reader enters its critical section.
LEMMA PutLockStep == ASSUME IInv, PutLock PROVE IInv'
<1> USE CellsAssumption DEF PutLock, Goto, Lock, queueVars, heapVars, flags
<1>1. ChainInv' /\ HeldInv' /\ HeapInv' /\ EndsInv' /\ CountInv' /\ FlagInv' /\ GetNeverWaits'
  BY DEF IInv, TypeOK, ChainInv, HeldInv, ReaderHolds, AudioHolds, HeapInv, EndsInv,
         Flushing, CountInv, FlagInv, GetNeverWaits
<1>2. TypeOK' /\ LockInv'
  BY ThreadFacts DEF IInv, TypeOK, LockInv, Critical
<1> QED
  BY <1>1, <1>2 DEF IInv

\* The new cell becomes the last of the chain.
LEMMA PutLinkStep == ASSUME IInv, PutLink PROVE IInv'
<1> USE CellsAssumption DEF PutLink, Goto, Lock, queueVars, heapVars, flags
<1>1. LockInv' /\ HeapInv' /\ GetNeverWaits'
  BY DEF IInv, LockInv, Critical, HeapInv, ReaderHolds, AudioHolds, GetNeverWaits
<1>2. HeldInv' /\ EndsInv' /\ CountInv' /\ FlagInv'
  BY ThreadFacts DEF IInv, TypeOK, LockInv, Critical, HeldInv, ReaderHolds, AudioHolds,
         EndsInv, Flushing, CountInv, FlagInv
<1>3. TypeOK'
  <2>1. pkt1[Reader] \in Cells
    BY ThreadFacts DEF IInv, TypeOK, HeldInv, ReaderHolds
  <2>2. chain' \in Seq(Cells)
    BY <2>1, AppendFacts DEF IInv, TypeOK
  <2> QED
    BY <2>1, <2>2, ThreadFacts DEF IInv, TypeOK
<1>4. ChainInv'
  <2> DEFINE n == Len(chain)
             c == pkt1[Reader]
  <2>1. c \in Cells /\ c \in heap /\ next[c] = NULL /\ (\A i \in 1 .. n : chain[i] # c)
    BY ThreadFacts DEF IInv, TypeOK, HeldInv, ReaderHolds
  <2>2. /\ n \in Nat /\ Len(chain') = n + 1
        /\ chain'[n + 1] = c
        /\ \A i \in 1 .. n : chain'[i] = chain[i] /\ chain[i] \in Cells
    BY <2>1, AppendFacts, LenProperties, ElementOfSeq DEF IInv, TypeOK
  <2>3. last_pkt = IF chain = <<>> THEN NULL ELSE chain[n]
    BY ThreadFacts DEF IInv, LockInv, Critical, EndsInv, Flushing
  <2>4. IF n = 0 THEN next' = next ELSE next' = [next EXCEPT ![chain[n]] = c]
    BY <2>2, <2>3, EmptySeq DEF IInv, TypeOK
  <2>5. \A i, j \in 1 .. n + 1 : chain'[i] = chain'[j] => i = j
    BY <2>1, <2>2 DEF IInv, ChainInv
  <2>6. \A i \in 1 .. n + 1 : chain'[i] \in heap
    BY <2>1, <2>2 DEF IInv, ChainInv
  <2>7. ASSUME NEW i \in 1 .. n + 1
        PROVE  next'[chain'[i]] = IF i = n + 1 THEN NULL ELSE chain'[i + 1]
    <3>1. CASE i = n + 1
      BY <3>1, <2>1, <2>2, <2>4 DEF IInv, TypeOK
    <3>2. CASE i = n
      BY <3>2, <2>1, <2>2, <2>4 DEF IInv, TypeOK
    <3>3. CASE i \in 1 .. n - 1
      BY <3>3, <2>2, <2>4 DEF IInv, TypeOK, ChainInv
    <3> QED
      BY <2>2, <3>1, <3>2, <3>3
  <2> QED
    BY <2>2, <2>5, <2>6, <2>7 DEF ChainInv
<1> QED
  BY <1>1, <1>2, <1>3, <1>4 DEF IInv

\* The counters catch up with the list, the flag goes down.
LEMMA PutCountStep == ASSUME IInv, PutCount PROVE IInv'
<1> USE CellsAssumption DEF PutCount, Goto, Lock, queueVars, heapVars, flags
<1>1. ChainInv' /\ FlagInv'
  BY DEF IInv, ChainInv, FlagInv
<1>2. LockInv' /\ HeldInv' /\ HeapInv' /\ EndsInv' /\ CountInv' /\ GetNeverWaits'
  BY ThreadFacts DEF IInv, TypeOK, LockInv, Critical, HeldInv, ReaderHolds, AudioHolds,
         HeapInv, EndsInv, Flushing, CountInv, GetNeverWaits
<1>3. TypeOK'
  <2>1. pkt1[Reader] \in Cells
    BY ThreadFacts DEF IInv, TypeOK, HeldInv
  <2>2. size' \in Int
    BY <2>1, PacketsAssumption DEF IInv, TypeOK
  <2>3. pc' \in [Threads -> {"idle", "put_lock", "put_link", "put_count", "get_lock",
                             "get_test", "get_count", "cond_wait", "flush_walk", "unlock"}]
    BY ThreadFacts DEF IInv, TypeOK
  <2>4. nb_packets' \in Int
    BY DEF IInv, TypeOK
  <2>5. no_more_data_in_the_queue' \in BOOLEAN
    OBVIOUS
  <2>6. UNCHANGED <<first_pkt, last_pkt, mutex, next, pkt, heap, quit, pkt1, got, chain>>
    OBVIOUS
  <2> QED
    BY <2>2, <2>3, <2>4, <2>5, <2>6 DEF IInv, TypeOK
<1> QED
  BY <1>1, <1>2, <1>3 DEF IInv

\* The audio thread enters its critical section.
LEMMA GetLockStep == ASSUME IInv, GetLock PROVE IInv'
<1> USE CellsAssumption DEF GetLock, Goto, Lock, queueVars, heapVars, flags
<1>1. ChainInv' /\ HeldInv' /\ HeapInv' /\ EndsInv' /\ CountInv' /\ FlagInv' /\ GetNeverWaits'
  BY DEF IInv, TypeOK, ChainInv, HeldInv, ReaderHolds, AudioHolds, HeapInv, EndsInv,
         Flushing, CountInv, FlagInv, GetNeverWaits
<1>2. TypeOK' /\ LockInv'
  BY ThreadFacts DEF IInv, TypeOK, LockInv, Critical
<1> QED
  BY <1>1, <1>2 DEF IInv

\* The stream closes: the queue stays as it is.
LEMMA GetQuitStep == ASSUME IInv, GetQuit PROVE IInv'
<1> USE CellsAssumption DEF GetQuit, Goto, Lock, queueVars, heapVars, flags
<1>1. /\ LockInv' /\ ChainInv' /\ HeldInv' /\ HeapInv'
      /\ EndsInv' /\ CountInv' /\ FlagInv' /\ GetNeverWaits'
  BY DEF IInv, TypeOK, LockInv, Critical, ChainInv, HeldInv, ReaderHolds, AudioHolds,
         HeapInv, EndsInv, Flushing, CountInv, FlagInv, GetNeverWaits
<1>2. TypeOK'
  BY DEF IInv, TypeOK
<1> QED
  BY <1>1, <1>2 DEF IInv

\* What GetUnlink finds: the head of a chain that is not empty, under no flush.
LEMMA GetUnlinkChain ==
  ASSUME IInv, GetUnlink
  PROVE  /\ ~Flushing
         /\ chain # <<>> /\ first_pkt = chain[1] /\ last_pkt = chain[Len(chain)]
         /\ Len(chain) \in Nat \ {0} /\ chain[1] \in Cells
         /\ chain' \in Seq(Cells)
         /\ chain' = <<>> <=> Len(chain) = 1
         /\ Len(chain') = Len(chain) - 1
         /\ \A i \in 1 .. Len(chain) - 1 : chain'[i] = chain[i + 1]
<1>1. ~Flushing
  BY ThreadFacts DEF IInv, LockInv, Critical, Flushing, GetUnlink, Goto
<1>2. chain # <<>> /\ first_pkt = chain[1] /\ last_pkt = chain[Len(chain)]
  BY <1>1 DEF IInv, EndsInv, GetUnlink
<1>3. chain' = Tail(chain) /\ chain \in Seq(Cells)
  BY DEF IInv, TypeOK, GetUnlink
<1> QED
  BY <1>1, <1>2, <1>3, TailFacts

\* The head leaves the chain for the audio thread's hands.
LEMMA GetUnlinkStep == ASSUME IInv, GetUnlink PROVE IInv'
<1> USE CellsAssumption
<1>0. /\ ~Flushing
      /\ chain # <<>> /\ first_pkt = chain[1] /\ last_pkt = chain[Len(chain)]
      /\ Len(chain) \in Nat \ {0} /\ chain[1] \in Cells
      /\ chain' \in Seq(Cells)
      /\ chain' = <<>> <=> Len(chain) = 1
      /\ Len(chain') = Len(chain) - 1
      /\ \A i \in 1 .. Len(chain) - 1 : chain'[i] = chain[i + 1]
  BY GetUnlinkChain
<1>1. LockInv' /\ ChainInv' /\ FlagInv' /\ GetNeverWaits'
  BY DEF IInv, LockInv, Critical, ChainInv, FlagInv, GetNeverWaits, GetUnlink, Goto,
         queueVars, heapVars, flags
<1>2. TypeOK'
  <2>1. next[first_pkt] \in Cells \cup {NULL} /\ chain' \in Seq(Cells)
    BY <1>0, TailFacts DEF IInv, TypeOK, GetUnlink, Goto, queueVars, heapVars, flags
  <2> QED
    BY <2>1, ThreadFacts DEF IInv, TypeOK, GetUnlink, Goto, queueVars, heapVars, flags
<1>3. HeldInv'
  <2>1. pkt1'[Audio] = chain[1] /\ pkt1'[Reader] = pkt1[Reader] /\ pc'[Reader] = pc[Reader]
    BY <1>0, ThreadFacts DEF IInv, TypeOK, GetUnlink, Goto, queueVars, heapVars, flags
  <2>2. chain[1] \in heap /\ \A i \in 1 .. Len(chain') : chain'[i] # chain[1]
    <3>1. 1 \in 1 .. Len(chain)
      BY <1>0
    <3>2. \A i \in 1 .. Len(chain') : i + 1 \in 1 .. Len(chain) /\ i + 1 # 1
      BY <1>0
    <3>3. /\ \A i, j \in 1 .. Len(chain) : chain[i] = chain[j] => i = j
          /\ \A i \in 1 .. Len(chain) : chain[i] \in heap
      BY DEF IInv, ChainInv
    <3> QED
      BY <1>0, <3>1, <3>2, <3>3
  <2>3. ReaderHolds => \A i \in 1 .. Len(chain) : chain[i] # pkt1[Reader]
    BY DEF IInv, HeldInv, GetUnlink, Goto, queueVars, heapVars, flags
  <2>4. ReaderHolds => /\ chain[1] # pkt1[Reader]
                       /\ \A i \in 1 .. Len(chain') : chain'[i] # pkt1[Reader]
    BY <2>3, <1>0
  <2> QED
    BY <2>1, <2>2, <2>4
       DEF IInv, HeldInv, ReaderHolds, AudioHolds, GetUnlink, Goto, queueVars, heapVars,
           flags
<1>4. HeapInv'
  <2>1. pkt1'[Audio] = chain[1] /\ pkt1'[Reader] = pkt1[Reader]
        /\ pc'[Reader] = pc[Reader] /\ pc'[Audio] = "get_count"
    BY <1>0, ThreadFacts DEF IInv, TypeOK, GetUnlink, Goto, queueVars, heapVars, flags
  <2>2. ASSUME NEW i \in 1 .. Len(chain)
        PROVE  chain[i] = chain[1] \/ \E j \in 1 .. Len(chain') : chain'[j] = chain[i]
    <3>1. CASE i = 1
      BY <3>1
    <3>2. CASE i # 1
      <4>1. i - 1 \in 1 .. Len(chain') /\ chain'[i - 1] = chain[i]
        BY <3>2, <1>0
      <4> QED
        BY <4>1
    <3> QED
      BY <3>1, <3>2
  <2> QED
    BY <2>1, <2>2
       DEF IInv, HeapInv, ReaderHolds, AudioHolds, GetUnlink, Goto, queueVars, heapVars,
           flags
<1>5. EndsInv'
  <2>1. next[first_pkt] = IF Len(chain) = 1 THEN NULL ELSE chain[2]
    <3>1. 1 \in 1 .. Len(chain) /\ 1 + 1 = 2
      BY <1>0
    <3>2. next[chain[1]] = IF 1 = Len(chain) THEN NULL ELSE chain[1 + 1]
      BY <3>1 DEF IInv, ChainInv
    <3> QED
      BY <1>0, <3>1, <3>2
  <2>2. Len(chain) # 1 => /\ chain'[1] = chain[2] /\ chain[2] \in Cells
                          /\ chain'[Len(chain')] = chain[Len(chain)]
    BY <1>0, ElementOfSeq DEF IInv, TypeOK, GetUnlink, Goto, queueVars, heapVars, flags
  <2>3. last_pkt = chain[Len(chain)]
    BY <1>0
  <2>4. \A t \in Flushers : pc'[t] # "flush_walk"
    BY ThreadFacts DEF IInv, TypeOK, LockInv, Critical, GetUnlink, Goto, queueVars, heapVars, flags
  <2> QED
    BY <2>1, <2>2, <2>3, <2>4, <1>0 DEF EndsInv, GetUnlink, Goto, queueVars, heapVars, flags
<1>6. CountInv'
  <2>1. nb_packets = Len(chain)
    BY <1>0, ThreadFacts
       DEF IInv, LockInv, Critical, CountInv, GetUnlink, Goto, queueVars, heapVars, flags
  <2>2. pc'[Audio] = "get_count" /\ pc'[Reader] # "put_count"
    BY ThreadFacts DEF IInv, TypeOK, LockInv, Critical, GetUnlink, Goto, queueVars, heapVars, flags
  <2> QED
    BY <2>1, <2>2, <1>0 DEF CountInv, GetUnlink, Goto, queueVars, heapVars, flags
<1> QED
  BY <1>1, <1>2, <1>3, <1>4, <1>5, <1>6 DEF IInv

\* The counters catch up with the list, the cell is freed.
LEMMA GetCountStep == ASSUME IInv, GetCount PROVE IInv'
<1> USE CellsAssumption DEF GetCount, Goto, Lock, queueVars, heapVars, flags
<1>1. LockInv' /\ HeapInv' /\ EndsInv' /\ FlagInv' /\ GetNeverWaits'
  BY DEF IInv, LockInv, Critical, HeapInv, ReaderHolds, AudioHolds, EndsInv, Flushing,
         FlagInv, GetNeverWaits
<1>2. HeldInv' /\ CountInv'
  BY ThreadFacts DEF IInv, TypeOK, HeldInv, ReaderHolds, AudioHolds, CountInv, Flushing
<1>3. TypeOK'
  <2>1. pkt1[Audio] \in Cells
    BY DEF IInv, TypeOK, HeldInv, AudioHolds
  <2>2. size' \in Int /\ got' \in Packets
    BY <2>1, PacketsAssumption DEF IInv, TypeOK
  <2> QED
    BY <2>2, ThreadFacts DEF IInv, TypeOK
<1>4. ChainInv'
  BY DEF IInv, ChainInv, HeldInv, AudioHolds
<1> QED
  BY <1>1, <1>2, <1>3, <1>4 DEF IInv

\* An empty list has a zero counter, so the flag goes up and nobody waits.
LEMMA GetEmptyStep == ASSUME IInv, GetEmpty PROVE IInv'
<1> USE CellsAssumption DEF GetEmpty, Goto, Lock, queueVars, heapVars, flags
<1>1. TypeOK' /\ ChainInv' /\ FlagInv'
  BY DEF IInv, TypeOK, ChainInv, FlagInv
<1>2. LockInv' /\ HeldInv' /\ HeapInv' /\ EndsInv' /\ CountInv'
  BY ThreadFacts DEF IInv, TypeOK, LockInv, Critical, HeldInv, ReaderHolds, AudioHolds,
         HeapInv, EndsInv, Flushing, CountInv
<1>3. GetNeverWaits'
  <2>1. ~Flushing /\ pc[Reader] # "put_count"
    BY ThreadFacts DEF IInv, LockInv, Critical, Flushing
  <2>2. chain = <<>>
    <3>1. chain # <<>> => chain[1] \in Cells
      BY TailFacts DEF IInv, TypeOK
    <3> QED
      BY <2>1, <3>1 DEF IInv, EndsInv
  <2>3. nb_packets = 0
    BY <2>1, <2>2, EmptySeq DEF IInv, CountInv
  <2> QED
    BY <2>3, ThreadFacts DEF IInv, TypeOK, GetNeverWaits
<1> QED
  BY <1>1, <1>2, <1>3 DEF IInv

\* A flush begins, at the head of the list.
LEMMA FlushLockStep == ASSUME NEW t \in Flushers, IInv, FlushLock(t) PROVE IInv'
<1> USE CellsAssumption DEF FlushLock, Goto, Lock, queueVars, heapVars, flags
<1>1. ChainInv' /\ HeldInv' /\ HeapInv' /\ CountInv' /\ FlagInv' /\ GetNeverWaits'
  BY DEF IInv, TypeOK, ChainInv, HeldInv, ReaderHolds, AudioHolds, HeapInv, CountInv,
         Flushing, FlagInv, GetNeverWaits
<1>2. TypeOK' /\ LockInv' /\ EndsInv'
  BY ThreadFacts DEF IInv, TypeOK, LockInv, Critical, EndsInv, Flushing
<1> QED
  BY <1>1, <1>2 DEF IInv

\* What FlushFree frees: the head of a chain that is not empty.
LEMMA FlushFreeChain ==
  ASSUME NEW t \in Flushers, IInv, FlushFree(t)
  PROVE  /\ chain # <<>> /\ pkt1[t] = chain[1]
         /\ Len(chain) \in Nat \ {0} /\ chain[1] \in Cells
         /\ chain' \in Seq(Cells)
         /\ chain' = <<>> <=> Len(chain) = 1
         /\ Len(chain') = Len(chain) - 1
         /\ \A i \in 1 .. Len(chain) - 1 : chain'[i] = chain[i + 1]
         /\ heap' = heap \ {chain[1]}
<1>1. chain # <<>> /\ pkt1[t] = chain[1]
  BY DEF IInv, EndsInv, FlushFree
<1>2. chain' = Tail(chain) /\ chain \in Seq(Cells) /\ heap' = heap \ {pkt1[t]}
  BY DEF IInv, TypeOK, FlushFree
<1> QED
  BY <1>1, <1>2, TailFacts

\* A flush frees the head and walks on.
LEMMA FlushFreeStep == ASSUME NEW t \in Flushers, IInv, FlushFree(t) PROVE IInv'
<1> USE CellsAssumption
<1>0. /\ chain # <<>> /\ pkt1[t] = chain[1]
      /\ Len(chain) \in Nat \ {0} /\ chain[1] \in Cells
      /\ chain' \in Seq(Cells)
      /\ chain' = <<>> <=> Len(chain) = 1
      /\ Len(chain') = Len(chain) - 1
      /\ \A i \in 1 .. Len(chain) - 1 : chain'[i] = chain[i + 1]
      /\ heap' = heap \ {chain[1]}
  BY FlushFreeChain
<1>1. LockInv' /\ CountInv' /\ FlagInv' /\ GetNeverWaits'
  BY DEF IInv, LockInv, Critical, CountInv, Flushing, FlagInv, GetNeverWaits,
         FlushFree, Goto, queueVars, heapVars, flags
<1>2. TypeOK'
  <2>1. pkt1[t] \in Cells /\ next[pkt1[t]] \in Cells \cup {NULL}
    BY ThreadFacts DEF IInv, TypeOK, FlushFree, Goto, queueVars, heapVars, flags
  <2>2. chain' \in Seq(Cells)
    BY <1>0 DEF IInv, TypeOK, FlushFree, Goto, queueVars, heapVars, flags
  <2> QED
    BY <2>1, <2>2, ThreadFacts DEF IInv, TypeOK, FlushFree, Goto, queueVars, heapVars, flags
<1>3. ChainInv'
  <2> DEFINE n == Len(chain')
  <2>1. n \in Nat /\ Len(chain) = n + 1 /\ pkt1[t] = chain[1]
        /\ \A i \in 1 .. n : chain'[i] = chain[i + 1]
    BY <1>0
  <2>2. \A i, j \in 1 .. n : chain'[i] = chain'[j] => i = j
    BY <2>1 DEF IInv, ChainInv, FlushFree, Goto, queueVars, heapVars, flags
  <2>3. \A i \in 1 .. n : chain'[i] \in heap'
    BY <2>1 DEF IInv, ChainInv, FlushFree, Goto, queueVars, heapVars, flags
  <2>4. \A i \in 1 .. n : next'[chain'[i]] = IF i = n THEN NULL ELSE chain'[i + 1]
    BY <2>1 DEF IInv, ChainInv, FlushFree, Goto, queueVars, heapVars, flags
  <2> QED
    BY <2>2, <2>3, <2>4 DEF ChainInv, FlushFree, Goto, queueVars, heapVars, flags
<1>4. HeldInv'
  <2>1. pkt1'[Audio] = pkt1[Audio] /\ ~AudioHolds /\ ~AudioHolds'
    BY ThreadFacts
       DEF IInv, TypeOK, LockInv, Critical, AudioHolds, FlushFree, Goto, queueVars,
           heapVars, flags
  <2>2. t = Reader => ~ReaderHolds' /\ pc'[Reader] # "put_count"
    BY DEF ReaderHolds, FlushFree, Goto, queueVars, heapVars, flags
  <2>3. t # Reader => pkt1'[Reader] = pkt1[Reader]
    BY ThreadFacts DEF IInv, TypeOK, FlushFree, Goto, queueVars, heapVars, flags
  <2>4. t # Reader /\ ReaderHolds => /\ pkt1[Reader] \in heap
                                     /\ next[pkt1[Reader]] = NULL
                                     /\ \A i \in 1 .. Len(chain) : chain[i] # pkt1[Reader]
    BY DEF IInv, HeldInv, FlushFree, Goto, queueVars, heapVars, flags
  <2>5. t # Reader /\ ReaderHolds => /\ pkt1[Reader] \in heap'
                                     /\ \A i \in 1 .. Len(chain') : chain'[i] # pkt1[Reader]
    BY <2>4, <1>0
  <2> QED
    BY <2>1, <2>2, <2>3, <2>4, <2>5
       DEF IInv, HeldInv, ReaderHolds, AudioHolds, FlushFree, Goto, queueVars, heapVars,
           flags
<1>5. HeapInv'
  <2>1. ~AudioHolds /\ (ReaderHolds => t # Reader /\ ReaderHolds' /\ pkt1'[Reader] = pkt1[Reader])
    BY ThreadFacts
       DEF IInv, TypeOK, LockInv, Critical, ReaderHolds, AudioHolds, FlushFree, Goto,
           queueVars, heapVars, flags
  <2>2. ASSUME NEW i \in 1 .. Len(chain), chain[i] # chain[1]
        PROVE  \E j \in 1 .. Len(chain') : chain'[j] = chain[i]
    <3>1. i - 1 \in 1 .. Len(chain') /\ chain'[i - 1] = chain[i]
      BY <2>2, <1>0
    <3> QED
      BY <3>1
  <2> QED
    BY <2>1, <2>2, <1>0 DEF IInv, HeapInv, FlushFree, Goto, queueVars, heapVars, flags
<1>6. EndsInv'
  <2>1. next[pkt1[t]] = IF Len(chain) = 1 THEN NULL ELSE chain[2]
    <3>1. 1 \in 1 .. Len(chain) /\ 1 + 1 = 2
      BY <1>0
    <3>2. next[chain[1]] = IF 1 = Len(chain) THEN NULL ELSE chain[1 + 1]
      BY <3>1 DEF IInv, ChainInv
    <3> QED
      BY <1>0, <3>1, <3>2
  <2>2. pkt1'[t] = IF chain' = <<>> THEN NULL ELSE chain'[1]
    BY <2>1, <1>0, ThreadFacts DEF IInv, TypeOK, FlushFree, Goto, queueVars, heapVars, flags
  <2>3. \A u \in Flushers : pc[u] = "flush_walk" => u = t
    BY ThreadFacts DEF IInv, LockInv, Critical, FlushFree, Goto, queueVars, heapVars, flags
  <2> QED
    BY <2>2, <2>3 DEF EndsInv, Flushing, FlushFree, Goto, queueVars, heapVars, flags
<1> QED
  BY <1>1, <1>2, <1>3, <1>4, <1>5, <1>6 DEF IInv

\* A flush that has freed every cell resets the structure.
LEMMA FlushResetStep == ASSUME NEW t \in Flushers, IInv, FlushReset(t) PROVE IInv'
<1> USE CellsAssumption DEF FlushReset, Goto, Lock, queueVars, heapVars, flags
<1>1. LockInv' /\ ChainInv' /\ HeldInv' /\ HeapInv' /\ EndsInv' /\ FlagInv' /\ GetNeverWaits'
  BY DEF IInv, TypeOK, LockInv, Critical, ChainInv, HeldInv, ReaderHolds, AudioHolds,
         HeapInv, EndsInv, Flushing, FlagInv, GetNeverWaits
<1>2. TypeOK'
  BY ThreadFacts DEF IInv, TypeOK
<1>3. CountInv'
  <2>1. chain = <<>>
    <3>1. chain # <<>> => chain[1] \in Cells
      BY TailFacts DEF IInv, TypeOK
    <3> QED
      BY <3>1 DEF IInv, EndsInv
  <2>2. Len(chain') = 0
    BY <2>1, EmptySeq
  <2>3. pc'[Audio] # "get_count" /\ pc'[Reader] # "put_count"
    BY ThreadFacts DEF IInv, TypeOK, LockInv, Critical
  <2> QED
    BY <2>2, <2>3 DEF CountInv
<1> QED
  BY <1>1, <1>2, <1>3 DEF IInv

\* A critical section ends with list and counters in step.
LEMMA UnlockStep == ASSUME NEW t \in Threads, IInv, Unlock(t) PROVE IInv'
<1> USE CellsAssumption DEF Unlock, Goto, Lock, queueVars, heapVars, flags
<1>1. /\ TypeOK' /\ ChainInv' /\ HeldInv' /\ HeapInv'
      /\ EndsInv' /\ CountInv' /\ FlagInv' /\ GetNeverWaits'
  BY DEF IInv, TypeOK, ChainInv, HeldInv, ReaderHolds, AudioHolds, HeapInv, EndsInv,
         Flushing, CountInv, FlagInv, GetNeverWaits
<1>2. LockInv'
  BY ThreadFacts DEF IInv, TypeOK, LockInv, Critical
<1> QED
  BY <1>1, <1>2 DEF IInv

\* Clearing the flag without the lock is harmless.
LEMMA ClearNoMoreDataStep == ASSUME IInv, ClearNoMoreData PROVE IInv'
<1> USE CellsAssumption DEF ClearNoMoreData, Goto, Lock, queueVars, heapVars, flags
<1>1. /\ TypeOK' /\ LockInv' /\ ChainInv' /\ HeldInv'
      /\ HeapInv' /\ EndsInv' /\ CountInv' /\ FlagInv' /\ GetNeverWaits'
  BY DEF IInv, TypeOK, LockInv, Critical, ChainInv, HeldInv, ReaderHolds, AudioHolds,
         HeapInv, EndsInv, Flushing, CountInv, FlagInv, GetNeverWaits
<1> QED
  BY <1>1 DEF IInv

\* Closing the stream leaves the queue alone.
LEMMA SetQuitStep == ASSUME IInv, SetQuit PROVE IInv'
<1> USE CellsAssumption DEF SetQuit, Goto, Lock, queueVars, heapVars, flags
<1>1. /\ TypeOK' /\ LockInv' /\ ChainInv' /\ HeldInv'
      /\ HeapInv' /\ EndsInv' /\ CountInv' /\ FlagInv' /\ GetNeverWaits'
  BY DEF IInv, TypeOK, LockInv, Critical, ChainInv, HeldInv, ReaderHolds, AudioHolds,
         HeapInv, EndsInv, Flushing, CountInv, FlagInv, GetNeverWaits
<1> QED
  BY <1>1 DEF IInv

\* Stuttering.
LEMMA StutterStep == ASSUME IInv, UNCHANGED vars PROVE IInv'
<1> USE CellsAssumption DEF vars, Goto, Lock, queueVars, heapVars, flags
<1>1. /\ TypeOK' /\ LockInv' /\ ChainInv' /\ HeldInv'
      /\ HeapInv' /\ EndsInv' /\ CountInv' /\ FlagInv' /\ GetNeverWaits'
  BY DEF IInv, TypeOK, LockInv, Critical, ChainInv, HeldInv, ReaderHolds, AudioHolds,
         HeapInv, EndsInv, Flushing, CountInv, FlagInv, GetNeverWaits
<1> QED
  BY <1>1 DEF IInv

-------------------------------------------------------------------------------
(* The invariant, and what follows from it.                                 *)

\* The invariant is inductive.
LEMMA NextIInv == IInv /\ [Next]_vars => IInv'
<1> SUFFICES ASSUME IInv, [Next]_vars PROVE IInv'
  OBVIOUS
<1>1. ASSUME NEW p \in Packets, PutAlloc(p) PROVE IInv'
  BY <1>1, PutAllocStep
<1>2. CASE PutLock
  BY <1>2, PutLockStep
<1>3. CASE PutLink
  BY <1>3, PutLinkStep
<1>4. CASE PutCount
  BY <1>4, PutCountStep
<1>5. CASE GetLock
  BY <1>5, GetLockStep
<1>6. CASE GetQuit
  BY <1>6, GetQuitStep
<1>7. CASE GetUnlink
  BY <1>7, GetUnlinkStep
<1>8. CASE GetCount
  BY <1>8, GetCountStep
<1>9. CASE GetEmpty
  BY <1>9, GetEmptyStep
<1>10. ASSUME NEW t \in Flushers, FlushLock(t) PROVE IInv'
  BY <1>10, FlushLockStep
<1>11. ASSUME NEW t \in Flushers, FlushFree(t) PROVE IInv'
  BY <1>11, FlushFreeStep
<1>12. ASSUME NEW t \in Flushers, FlushReset(t) PROVE IInv'
  BY <1>12, FlushResetStep
<1>13. ASSUME NEW t \in Threads, Unlock(t) PROVE IInv'
  BY <1>13, UnlockStep
<1>14. CASE ClearNoMoreData
  BY <1>14, ClearNoMoreDataStep
<1>15. CASE SetQuit
  BY <1>15, SetQuitStep
<1>16. CASE UNCHANGED vars
  BY <1>16, StutterStep
<1> QED
  BY <1>1, <1>2, <1>3, <1>4, <1>5, <1>6, <1>7, <1>8, <1>9, <1>10, <1>11, <1>12, <1>13,
     <1>14, <1>15, <1>16 DEF Next

\* The inductive invariant holds in every reachable state of the queue's code.
THEOREM Invariance == Spec => []IInv
<1> QED
  BY InitIInv, NextIInv, PTL DEF Spec

\* Every variable of the queue stays in its range.
THEOREM TypeCorrect == Spec => []TypeOK
<1>1. IInv => TypeOK
  BY DEF IInv
<1> QED
  BY <1>1, Invariance, PTL

\* With the lock free, list, end pointers and counter agree, for any number of
\* flushing threads, cells and packets (packet_queue_put, _get and _flush).
THEOREM ListStaysIntact == Spec => []ListIntact
<1>1. ASSUME IInv, mutex = NULL PROVE WellLinked
  <2>1. /\ ~Flushing
        /\ pc[Audio] # "get_count" /\ pc[Reader] # "put_count"
    BY <1>1, ThreadFacts DEF IInv, LockInv, Critical, Flushing
  <2>2. Len(chain) \in Nat
    BY <1>1, LenProperties DEF IInv, TypeOK
  <2>3. nb_packets = Len(chain)
    BY <1>1, <2>1, <2>2 DEF IInv, CountInv
  <2> QED
    BY <1>1, <2>1, <2>3 DEF IInv, EndsInv, ChainInv, WellLinked
<1>2. IInv => ListIntact
  BY <1>1 DEF ListIntact
<1> QED
  BY <1>2, Invariance, PTL

\* No cell leaks and none is freed twice or under another thread's feet.
THEOREM CellsStayAccounted == Spec => []CellsAccounted
<1>1. ASSUME IInv PROVE CellsAccounted
  <2>1. \A c : c \in HeldCells <=> \/ ReaderHolds /\ c = pkt1[Reader]
                                   \/ AudioHolds /\ c = pkt1[Audio]
    BY ThreadFacts DEF HeldCells, ReaderHolds, AudioHolds
  <2>2. \A c : c \in ChainCells <=> \E i \in 1 .. Len(chain) : chain[i] = c
    BY <1>1, LenProperties DEF IInv, TypeOK, ChainCells
  <2> QED
    BY <1>1, <2>1, <2>2 DEF IInv, ChainInv, HeldInv, HeapInv, CellsAccounted
<1> QED
  BY <1>1, Invariance, PTL

\* The watchdog's flag is never up over a queue that holds a packet.
THEOREM FlagIsTruthful == Spec => []NoMoreDataMeansEmpty
<1>1. IInv => NoMoreDataMeansEmpty
  BY ThreadFacts DEF IInv, FlagInv, LockInv, Critical, NoMoreDataMeansEmpty
<1> QED
  BY <1>1, Invariance, PTL

\* packet_queue_get never reaches its SDL_CondWait.
THEOREM GetIsImmediate == Spec => []GetNeverWaits
<1>1. IInv => GetNeverWaits
  BY DEF IInv
<1> QED
  BY <1>1, Invariance, PTL

-------------------------------------------------------------------------------
(* The refinement of Fifo, action by action.                                *)

\* What the abstract items are, when no flush is under way.
LEMMA ItemsFacts ==
  ASSUME TypeOK, ~Flushing
  PROVE  /\ FifoItems \in Seq(Packets)
         /\ Len(FifoItems) = Len(chain)
         /\ \A i \in 1 .. Len(chain) : FifoItems[i] = pkt[chain[i]]
<1>1. Len(chain) \in Nat /\ \A i \in 1 .. Len(chain) : chain[i] \in Cells
  BY LenProperties, ElementOfSeq DEF TypeOK
<1>2. FifoItems = [i \in 1 .. Len(chain) |-> pkt[chain[i]]]
  BY DEF FifoItems
<1>3. \A i \in 1 .. Len(chain) : pkt[chain[i]] \in Packets
  BY <1>1 DEF TypeOK
<1> QED
  BY <1>1, <1>2, <1>3

\* Nothing the abstract queue sees changes.
LEMMA SameItems ==
  ASSUME IInv, chain' = chain, pkt' = pkt, Flushing' <=> Flushing
  PROVE  FifoItems' = FifoItems
  BY DEF FifoItems

\* The abstract queue does not see an allocation.
LEMMA PutAllocStutters ==
  ASSUME NEW p \in Packets, IInv, PutAlloc(p)
  PROVE  UNCHANGED <<FifoItems, FifoOut, quit>>
<1>1. PICK c \in Cells \ heap : pkt' = [pkt EXCEPT ![c] = p] /\ pkt1'[Audio] = pkt1[Audio]
  BY ThreadFacts DEF PutAlloc, IInv, TypeOK
<1>2. pc'[Audio] = pc[Audio] /\ chain' = chain /\ got' = got /\ quit' = quit
  BY ThreadFacts DEF PutAlloc, Goto, IInv, TypeOK, flags
<1>3. Flushing' <=> Flushing
  BY ThreadFacts DEF PutAlloc, Goto, IInv, TypeOK, Flushing
<1>4. \A i \in 1 .. Len(chain) : pkt'[chain[i]] = pkt[chain[i]]
  BY <1>1 DEF IInv, TypeOK, ChainInv
<1>5. FifoItems' = FifoItems
  BY <1>2, <1>3, <1>4 DEF FifoItems
<1>6. AudioHolds => pkt'[pkt1[Audio]] = pkt[pkt1[Audio]]
  BY <1>1 DEF IInv, TypeOK, HeldInv
<1> QED
  BY <1>1, <1>2, <1>5, <1>6 DEF FifoOut, AudioHolds

\* Linking a cell appends its packet.
LEMMA PutLinkAppends ==
  ASSUME IInv, IInv', PutLink
  PROVE  /\ ~Flushing /\ ~Flushing' /\ FifoItems \in Seq(Packets)
         /\ pkt[pkt1[Reader]] \in Packets
         /\ FifoItems' = Append(FifoItems, pkt[pkt1[Reader]])
<1> DEFINE c == pkt1[Reader]
<1>1. c \in Cells /\ pkt[c] \in Packets /\ ~Flushing /\ ~Flushing'
  BY ThreadFacts DEF PutLink, Goto, IInv, TypeOK, LockInv, Critical, HeldInv, ReaderHolds, Flushing
<1>2. chain' = Append(chain, c) /\ pkt' = pkt /\ chain \in Seq(Cells)
  BY DEF PutLink, IInv, TypeOK
<1>3. /\ Len(chain') = Len(chain) + 1 /\ chain'[Len(chain) + 1] = c
      /\ \A i \in 1 .. Len(chain) : chain'[i] = chain[i]
      /\ Len(chain) \in Nat
  BY <1>1, <1>2, AppendFacts, LenProperties
<1>4. /\ FifoItems \in Seq(Packets) /\ Len(FifoItems) = Len(chain)
      /\ \A i \in 1 .. Len(chain) : FifoItems[i] = pkt[chain[i]]
  BY <1>1, ItemsFacts DEF IInv
<1>5. FifoItems' = [i \in 1 .. Len(chain') |-> pkt[chain'[i]]]
  BY <1>1, <1>2 DEF FifoItems
<1>6. /\ FifoItems' \in Seq(Packets) /\ Len(FifoItems') = Len(chain')
      /\ \A i \in 1 .. Len(chain') : FifoItems'[i] = pkt[chain'[i]]
  <2>1. \A i \in 1 .. Len(chain') : pkt[chain'[i]] \in Packets
    BY <1>1, <1>2, <1>3, ElementOfSeq DEF IInv, TypeOK
  <2> QED
    BY <1>3, <1>5, <2>1
<1>7. FifoItems' = Append(FifoItems, pkt[c])
  <2> DEFINE a == Append(FifoItems, pkt[c])
  <2>1. /\ a \in Seq(Packets) /\ Len(a) = Len(chain) + 1
        /\ \A i \in 1 .. Len(chain) : a[i] = pkt[chain[i]]
        /\ a[Len(chain) + 1] = pkt[c]
    BY <1>1, <1>4, AppendFacts
  <2>2. \A i \in 1 .. Len(chain) + 1 : FifoItems'[i] = a[i]
    BY <1>3, <1>6, <2>1
  <2> HIDE DEF a
  <2>3. FifoItems' = a
    BY <1>3, <1>6, <2>1, <2>2, SeqEqual
  <2> QED
    BY <2>3 DEF a
<1> QED
  BY <1>1, <1>4, <1>7

\* Linking a cell is the abstract Put.
LEMMA PutLinkPuts ==
  ASSUME IInv, IInv', PutLink
  PROVE  \E p \in Packets : Abstract!Put(p)
<1>1. FifoOut' = FifoOut /\ quit' = quit
  BY ThreadFacts DEF PutLink, Goto, IInv, TypeOK, FifoOut, flags
<1> QED
  BY <1>1, PutLinkAppends DEF Abstract!Put

\* Unlinking a cell is the abstract Get.
LEMMA GetUnlinkGets ==
  ASSUME IInv, IInv', GetUnlink
  PROVE  Abstract!Get
<1>1. /\ ~Flushing
      /\ chain # <<>> /\ first_pkt = chain[1]
      /\ Len(chain) \in Nat \ {0} /\ chain[1] \in Cells
      /\ Len(chain') = Len(chain) - 1
      /\ \A i \in 1 .. Len(chain) - 1 : chain'[i] = chain[i + 1]
  BY GetUnlinkChain
<1>2. /\ ~Flushing' /\ ~quit /\ quit' = quit
      /\ pc'[Audio] = "get_count" /\ pkt1'[Audio] = first_pkt /\ pkt' = pkt
  BY ThreadFacts DEF GetUnlink, Goto, IInv, TypeOK, LockInv, Critical, Flushing, heapVars
<1>3. /\ FifoItems \in Seq(Packets) /\ Len(FifoItems) = Len(chain)
      /\ \A i \in 1 .. Len(chain) : FifoItems[i] = pkt[chain[i]]
  BY <1>1, ItemsFacts DEF IInv
<1>4. /\ FifoItems # <<>>
      /\ FifoItems[1] = pkt[chain[1]] /\ Head(FifoItems) = FifoItems[1]
  BY <1>1, <1>3, EmptySeq
<1>5. FifoItems' = [i \in 1 .. Len(chain') |-> pkt[chain'[i]]]
  BY <1>2 DEF FifoItems
<1>6. FifoItems' = Tail(FifoItems)
  <2>1. /\ Len(Tail(FifoItems)) = Len(chain')
        /\ \A i \in 1 .. Len(chain') : Tail(FifoItems)[i] = pkt[chain'[i]]
        /\ Tail(FifoItems) \in Seq(Packets)
    BY <1>1, <1>3, <1>4, TailFacts
  <2>2. Tail(FifoItems) = [i \in 1 .. Len(chain') |-> Tail(FifoItems)[i]]
    BY <2>1, LenProperties
  <2> QED
    BY <1>5, <2>1, <2>2
<1>7. FifoOut' = Head(FifoItems)
  BY <1>1, <1>2, <1>4 DEF FifoOut
<1> QED
  BY <1>2, <1>4, <1>6, <1>7 DEF Abstract!Get

\* Giving up on an empty list is the abstract GetNothing.
LEMMA GetEmptyFindsNothing ==
  ASSUME IInv, IInv', GetEmpty
  PROVE  Abstract!GetNothing
<1>1. ~Flushing /\ (Flushing' <=> Flushing)
  BY ThreadFacts DEF GetEmpty, IInv, TypeOK, LockInv, Critical, Flushing
<1>2. nb_packets <= 0
  BY ThreadFacts DEF GetEmpty, IInv, TypeOK, GetNeverWaits
<1>3. pc'[Audio] = "unlock" /\ got' = NULL /\ quit' = quit /\ chain' = chain /\ pkt' = pkt
  BY <1>2, ThreadFacts DEF GetEmpty, IInv, TypeOK, heapVars
<1>4. chain = <<>>
  <2>1. chain # <<>> => chain[1] \in Cells
    BY TailFacts DEF IInv, TypeOK
  <2> QED
    BY <1>1, <2>1, CellsAssumption DEF IInv, EndsInv, GetEmpty
<1>5. FifoItems = <<>>
  BY <1>1, <1>4, ItemsFacts, EmptySeq DEF IInv
<1>6. FifoItems' = FifoItems
  BY <1>1, <1>3, SameItems
<1>7. FifoOut' = NULL
  BY <1>3 DEF FifoOut
<1> QED
  BY <1>3, <1>5, <1>6, <1>7 DEF Abstract!GetNothing

\* The abstract queue is empty as soon as a flush begins.
LEMMA FlushFreeStutters ==
  ASSUME NEW t \in Flushers, IInv, FlushFree(t)
  PROVE  UNCHANGED <<FifoItems, FifoOut, quit>>
<1>1. Flushing /\ Flushing'
  BY DEF FlushFree, Flushing
<1>2. pc' = pc /\ got' = got /\ quit' = quit /\ pc[Audio] # "get_count"
  BY ThreadFacts DEF FlushFree, IInv, LockInv, Critical, flags
<1> QED
  BY <1>1, <1>2 DEF FifoItems, FifoOut

\* At the end of a flush nothing is linked in.
LEMMA FlushResetEmpties ==
  ASSUME NEW t \in Flushers, IInv, FlushReset(t)
  PROVE  FifoItems = <<>> /\ FifoItems' = <<>>
<1>1. Flushing /\ chain' = chain
  BY ThreadFacts DEF FlushReset, Goto, Flushing
<1>2. ~Flushing'
  BY ThreadFacts DEF FlushReset, Goto, IInv, TypeOK, LockInv, Critical, Flushing
<1>3. chain = <<>>
  <2>1. chain # <<>> => chain[1] \in Cells
    BY TailFacts DEF IInv, TypeOK
  <2> QED
    BY <2>1, CellsAssumption DEF IInv, EndsInv, FlushReset, Goto
<1> QED
  BY <1>1, <1>2, <1>3 DEF FifoItems

\* The abstract queue does not see the end of a flush.
LEMMA FlushResetStutters ==
  ASSUME NEW t \in Flushers, IInv, FlushReset(t)
  PROVE  UNCHANGED <<FifoItems, FifoOut, quit>>
<1>1. got' = got /\ quit' = quit /\ pc'[Audio] = pc[Audio] /\ pc[Audio] # "get_count"
  BY ThreadFacts DEF FlushReset, Goto, IInv, TypeOK, LockInv, Critical, flags
<1> QED
  BY <1>1, FlushResetEmpties DEF FifoOut

\* Every step of the code is a step of the abstract queue, or changes nothing there.
LEMMA NextImplements ==
  ASSUME IInv, IInv', [Next]_vars
  PROVE  [Abstract!Next]_(Abstract!vars)
<1> DEFINE Same == UNCHANGED <<FifoItems, FifoOut, quit>>
<1> SUFFICES Abstract!Next \/ Same
  BY DEF Abstract!vars
<1>1. ASSUME NEW p \in Packets, PutAlloc(p) PROVE Same
  BY <1>1, PutAllocStutters
<1>2. CASE PutLock
  BY <1>2, ThreadFacts, SameItems
     DEF PutLock, Goto, IInv, TypeOK, Flushing, FifoOut, heapVars, flags
<1>3. CASE PutLink
  BY <1>3, PutLinkPuts DEF Abstract!Next
<1>4. CASE PutCount
  BY <1>4, ThreadFacts, SameItems
     DEF PutCount, IInv, TypeOK, LockInv, Critical, Flushing, FifoOut, heapVars
<1>5. CASE GetLock
  BY <1>5, ThreadFacts, SameItems
     DEF GetLock, Lock, IInv, TypeOK, Flushing, FifoOut, heapVars, flags
<1>6. CASE GetQuit
  <2>1. Abstract!GetNothing
    BY <1>6, ThreadFacts, SameItems
       DEF GetQuit, Goto, IInv, TypeOK, Flushing, FifoOut, heapVars, flags, Abstract!GetNothing
  <2> QED
    BY <2>1 DEF Abstract!Next
<1>7. CASE GetUnlink
  BY <1>7, GetUnlinkGets DEF Abstract!Next
<1>8. CASE GetCount
  BY <1>8, ThreadFacts, SameItems
     DEF GetCount, Goto, IInv, TypeOK, Flushing, FifoOut, flags
<1>9. CASE GetEmpty
  BY <1>9, GetEmptyFindsNothing DEF Abstract!Next
<1>10. ASSUME NEW t \in Flushers, FlushLock(t) PROVE Abstract!Flush
  BY <1>10, ThreadFacts
     DEF FlushLock, Goto, IInv, TypeOK, LockInv, Critical, Flushing, FifoItems, FifoOut,
         heapVars, flags, Abstract!Flush
<1>11. ASSUME NEW t \in Flushers, FlushFree(t) PROVE Same
  BY <1>11, FlushFreeStutters
<1>12. ASSUME NEW t \in Flushers, FlushReset(t) PROVE Same
  BY <1>12, FlushResetStutters
<1>13. ASSUME NEW t \in Threads, Unlock(t) PROVE Same
  BY <1>13, ThreadFacts, SameItems
     DEF Unlock, Goto, IInv, TypeOK, Flushing, FifoOut, heapVars, flags
<1>14. CASE ClearNoMoreData
  BY <1>14, SameItems DEF ClearNoMoreData, Flushing, FifoOut, heapVars
<1>15. CASE SetQuit
  <2>1. Abstract!Close
    BY <1>15, SameItems DEF SetQuit, Flushing, FifoOut, heapVars, Abstract!Close
  <2> QED
    BY <2>1 DEF Abstract!Next
<1>16. CASE UNCHANGED vars
  BY <1>16, SameItems DEF vars, Flushing, FifoOut, heapVars, flags
<1> QED
  BY <1>1, <1>2, <1>3, <1>4, <1>5, <1>6, <1>7, <1>8, <1>9, <1>10, <1>11, <1>12, <1>13,
     <1>14, <1>15, <1>16 DEF Next, Abstract!Next

\* The linked list under its mutex behaves as one FIFO queue, whoever uses it.
THEOREM RefinesFifo == Spec => ImplementsFifo
<1>1. Init => Abstract!Init
  BY ThreadFacts, EmptySeq DEF Init, Abstract!Init, Flushing, FifoItems, FifoOut
<1>2. IInv /\ IInv' /\ [Next]_vars => [Abstract!Next]_(Abstract!vars)
  BY NextImplements
<1> QED
  BY <1>1, <1>2, Invariance, PTL DEF Spec, Abstract!Spec, ImplementsFifo

-------------------------------------------------------------------------------
(* The bytes of a sequence.                                                 *)

\* The step of the recursion in Bytes.
Adding(ps) ==
    [n \in Nat |-> [x \in Nat |-> x + (IF n \in 1 .. Len(ps) THEN PacketSize[ps[n]] ELSE 0)]]

\* g satisfies the definition of the partial sums in Bytes.
IsSum(g, ps) == g = [i \in 0 .. Len(ps) |-> IF i = 0 THEN 0 ELSE g[i - 1] + PacketSize[ps[i]]]

\* What the step adds.
LEMMA AddingType ==
    ASSUME NEW ps \in Seq(Packets)
    PROVE  /\ Adding(ps) \in [Nat -> [Nat -> Nat]]
           /\ \A n \in 1 .. Len(ps), x \in Nat : Adding(ps)[n][x] = x + PacketSize[ps[n]]
<1>1. ASSUME NEW n \in Nat
      PROVE  (IF n \in 1 .. Len(ps) THEN PacketSize[ps[n]] ELSE 0) \in Nat
  BY ElementOfSeq, PacketsAssumption
<1> QED
  BY <1>1 DEF Adding

\* The recursive function in Bytes exists, and is the only one.
LEMMA BytesIsRun ==
    ASSUME NEW ps \in Seq(Packets)
    PROVE  \E f \in [0 .. Len(ps) -> Nat] : IsRun(f, Len(ps), 0, Adding(ps)) /\ Bytes(ps) = f[Len(ps)]
<1>1. Len(ps) \in Nat
  OBVIOUS
<1>2. PICK f \in [0 .. Len(ps) -> Nat] : IsRun(f, Len(ps), 0, Adding(ps))
  BY <1>1, AddingType, RunExists
<1>3. f[0] = 0 /\ \A n \in 1 .. Len(ps) : f[n] = f[n - 1] + PacketSize[ps[n]]
  <2>1. f[0] = 0 /\ \A n \in 1 .. Len(ps) : f[n] = Adding(ps)[n][f[n - 1]]
    BY <1>1, <1>2, RunValues
  <2>2. \A n \in 1 .. Len(ps) : f[n - 1] \in Nat
    BY <1>1
  <2> QED
    BY <2>1, <2>2, AddingType
<1>4. IsSum(f, ps)
  <2>1. \A n \in 0 .. Len(ps) : f[n] = IF n = 0 THEN 0 ELSE f[n - 1] + PacketSize[ps[n]]
    BY <1>1, <1>3
  <2> QED
    BY <2>1 DEF IsSum
<1> DEFINE g == CHOOSE sum : IsSum(sum, ps)
<1>5. IsSum(g, ps)
  BY <1>4
<1>6. Bytes(ps) = g[Len(ps)]
  BY DEF Bytes, IsSum
<1> HIDE DEF g
<1>7. g[0] = 0 /\ \A n \in 1 .. Len(ps) : g[n] = g[n - 1] + PacketSize[ps[n]]
  BY <1>1, <1>5 DEF IsSum
<1>8. 0 .. Len(ps) \subseteq {n \in 0 .. Len(ps) : g[n] = f[n]}
  <2> DEFINE S == {n \in 0 .. Len(ps) : g[n] = f[n]}
  <2>1. 0 \in S
    BY <1>1, <1>3, <1>7
  <2>2. ASSUME NEW n \in 0 .. Len(ps), n < Len(ps) /\ n \in S PROVE n + 1 \in S
    <3>1. n + 1 \in 1 .. Len(ps) /\ (n + 1) - 1 = n /\ n + 1 \in 0 .. Len(ps)
      BY <1>1, <2>2
    <3> QED
      BY <1>3, <1>7, <2>2, <3>1
  <2> HIDE DEF S
  <2>3. 0 .. Len(ps) \subseteq S
    BY <1>1, <2>1, <2>2, SetInductionUpTo
  <2> QED
    BY <2>3 DEF S
<1>9. Len(ps) \in 0 .. Len(ps)
  BY <1>1
<1> QED
  BY <1>2, <1>6, <1>8, <1>9

\* Its values, one from the other.
LEMMA SumValues ==
    ASSUME NEW ps \in Seq(Packets)
    PROVE  \E f \in [0 .. Len(ps) -> Nat] :
             /\ f[0] = 0 /\ Bytes(ps) = f[Len(ps)]
             /\ \A n \in 1 .. Len(ps) : f[n] = f[n - 1] + PacketSize[ps[n]]
<1>1. PICK f \in [0 .. Len(ps) -> Nat] : IsRun(f, Len(ps), 0, Adding(ps)) /\ Bytes(ps) = f[Len(ps)]
  BY BytesIsRun
<1>2. Len(ps) \in Nat
  OBVIOUS
<1>3. f[0] = 0 /\ \A n \in 1 .. Len(ps) : f[n] = Adding(ps)[n][f[n - 1]]
  BY <1>1, <1>2, RunValues
<1>4. \A n \in 1 .. Len(ps) : f[n - 1] \in Nat
  BY <1>2
<1> QED
  BY <1>1, <1>3, <1>4, AddingType

LEMMA BytesType == ASSUME NEW ps \in Seq(Packets) PROVE Bytes(ps) \in Nat
<1>1. PICK f \in [0 .. Len(ps) -> Nat] : Bytes(ps) = f[Len(ps)]
  BY SumValues
<1> QED
  BY <1>1

\* Nothing queued is no bytes.
LEMMA BytesEmpty == Bytes(<<>>) = 0
<1>1. PICK f \in [0 .. Len(<<>>) -> Nat] : f[0] = 0 /\ Bytes(<<>>) = f[Len(<<>>)]
  BY EmptySeq, SumValues
<1> QED
  BY <1>1

\* A packet more is its bytes more.
LEMMA BytesAppend ==
    ASSUME NEW ps \in Seq(Packets), NEW p \in Packets
    PROVE  Bytes(Append(ps, p)) = Bytes(ps) + PacketSize[p]
<1> DEFINE qs == Append(ps, p)
<1>1. /\ qs \in Seq(Packets) /\ Len(qs) = Len(ps) + 1 /\ qs[Len(ps) + 1] = p
      /\ \A i \in 1 .. Len(ps) : qs[i] = ps[i]
      /\ Len(ps) \in Nat
  BY AppendProperties
<1> HIDE DEF qs
<1>2. PICK f \in [0 .. Len(ps) -> Nat] :
        /\ f[0] = 0 /\ Bytes(ps) = f[Len(ps)]
        /\ \A n \in 1 .. Len(ps) : f[n] = f[n - 1] + PacketSize[ps[n]]
  BY SumValues
<1>3. PICK g \in [0 .. Len(qs) -> Nat] :
        /\ g[0] = 0 /\ Bytes(qs) = g[Len(qs)]
        /\ \A n \in 1 .. Len(qs) : g[n] = g[n - 1] + PacketSize[qs[n]]
  BY <1>1, SumValues
<1> DEFINE S == {n \in 0 .. Len(ps) : g[n] = f[n]}
<1>4. 0 \in S
  BY <1>1, <1>2, <1>3
<1>5. ASSUME NEW n \in 0 .. Len(ps), n < Len(ps) /\ n \in S PROVE n + 1 \in S
  <2>1. n + 1 \in 1 .. Len(ps) /\ n + 1 \in 1 .. Len(qs) /\ (n + 1) - 1 = n
    BY <1>1, <1>5
  <2> QED
    BY <1>1, <1>2, <1>3, <1>5, <2>1
<1>6. 0 .. Len(ps) \subseteq S
  <2> HIDE DEF S
  <2> QED
    BY <1>1, <1>4, <1>5, SetInductionUpTo
<1>7. g[Len(ps)] = f[Len(ps)]
  BY <1>1, <1>6
<1>8. Len(qs) \in 1 .. Len(qs) /\ Len(qs) - 1 = Len(ps)
  BY <1>1
<1>9. g[Len(qs)] = g[Len(ps)] + PacketSize[p]
  BY <1>1, <1>3, <1>8
<1> QED
  BY <1>2, <1>3, <1>7, <1>9 DEF qs

\* A packet less is its bytes less.
LEMMA BytesTail ==
    ASSUME NEW ps \in Seq(Packets), ps # <<>>
    PROVE  Bytes(ps) = PacketSize[ps[1]] + Bytes(Tail(ps)) /\ Bytes(Tail(ps)) \in Nat
<1> DEFINE qs == Tail(ps)
<1>1. /\ qs \in Seq(Packets) /\ Len(qs) = Len(ps) - 1
      /\ \A i \in 1 .. Len(qs) : qs[i] = ps[i + 1]
      /\ Len(ps) \in Nat \ {0} /\ Len(qs) \in Nat
  BY HeadTailProperties, EmptySeq, LenProperties
<1> HIDE DEF qs
<1>2. PICK f \in [0 .. Len(ps) -> Nat] :
        /\ f[0] = 0 /\ Bytes(ps) = f[Len(ps)]
        /\ \A n \in 1 .. Len(ps) : f[n] = f[n - 1] + PacketSize[ps[n]]
  BY SumValues
<1>3. PICK g \in [0 .. Len(qs) -> Nat] :
        /\ g[0] = 0 /\ Bytes(qs) = g[Len(qs)]
        /\ \A n \in 1 .. Len(qs) : g[n] = g[n - 1] + PacketSize[qs[n]]
  BY <1>1, SumValues
<1> DEFINE w == PacketSize[ps[1]]
           S == {n \in 0 .. Len(qs) : f[n + 1] = w + g[n]}
<1>4. w \in Nat
  BY <1>1, ElementOfSeq, PacketsAssumption
<1>5. 0 \in S
  <2>1. 1 \in 1 .. Len(ps) /\ 1 - 1 = 0 /\ 0 + 1 = 1 /\ 0 \in 0 .. Len(qs)
    BY <1>1
  <2>2. f[1] = f[0] + w
    BY <1>2, <2>1
  <2> QED
    BY <1>2, <1>3, <1>4, <2>1, <2>2
<1>6. ASSUME NEW n \in 0 .. Len(qs), n < Len(qs) /\ n \in S PROVE n + 1 \in S
  <2>1. /\ n + 1 \in 1 .. Len(qs) /\ n + 1 \in 0 .. Len(qs) /\ n \in 0 .. Len(qs)
        /\ (n + 1) + 1 \in 1 .. Len(ps)
        /\ (n + 1) - 1 = n /\ ((n + 1) + 1) - 1 = n + 1
    BY <1>1, <1>6
  <2>2. f[(n + 1) + 1] = f[n + 1] + PacketSize[ps[(n + 1) + 1]]
    BY <1>2, <2>1
  <2>3. g[n + 1] = g[n] + PacketSize[ps[(n + 1) + 1]]
    BY <1>1, <1>3, <2>1
  <2>4. f[n + 1] = w + g[n]
    BY <1>6
  <2>5. PacketSize[ps[(n + 1) + 1]] \in Nat /\ g[n] \in Nat
    BY <1>1, <2>1, ElementOfSeq, PacketsAssumption
  <2>6. f[(n + 1) + 1] = w + g[n + 1]
    BY <1>4, <2>2, <2>3, <2>4, <2>5
  <2> QED
    BY <2>1, <2>6
<1>7. 0 .. Len(qs) \subseteq S
  <2> HIDE DEF S
  <2> QED
    BY <1>1, <1>5, <1>6, SetInductionUpTo
<1>8. Len(qs) \in 0 .. Len(qs) /\ Len(qs) + 1 = Len(ps)
  BY <1>1
<1>9. f[Len(ps)] = w + g[Len(qs)] /\ g[Len(qs)] \in Nat
  BY <1>7, <1>8
<1> QED
  BY <1>2, <1>3, <1>9 DEF qs

-------------------------------------------------------------------------------
(* The size, on top of the invariant.                                       *)

\* What a get has unlinked and not yet subtracted, less what a put has linked and
\* not yet added.
Owed == (IF pc[Audio] = "get_count" THEN PacketSize[pkt[pkt1[Audio]]] ELSE 0)
      - (IF pc[Reader] = "put_count" THEN PacketSize[pkt[pkt1[Reader]]] ELSE 0)

\* The size lags behind the list like the packet counter, and a flush clears both.
SizeInv == ~Flushing => size = Bytes(FifoItems) + Owed

\* Nothing that size depends on changes.
LEMMA SameSize ==
  ASSUME SizeInv, FifoItems' = FifoItems, size' = size, Owed' = Owed, Flushing' <=> Flushing
  PROVE  SizeInv'
  BY DEF SizeInv

LEMMA PutAllocSize ==
  ASSUME IInv, SizeInv, NEW p \in Packets, PutAlloc(p)
  PROVE  SizeInv'
<1>1. FifoItems' = FifoItems
  BY PutAllocStutters
<1>2. PICK c \in Cells \ heap : pkt' = [pkt EXCEPT ![c] = p] /\ pkt1'[Audio] = pkt1[Audio]
  BY ThreadFacts DEF PutAlloc, IInv, TypeOK
<1>3. /\ pc'[Audio] = pc[Audio] /\ size' = size
      /\ pc[Reader] # "put_count" /\ pc'[Reader] # "put_count"
  BY ThreadFacts DEF PutAlloc, Goto, IInv, TypeOK, queueVars
<1>4. pc[Audio] = "get_count" => pkt'[pkt1[Audio]] = pkt[pkt1[Audio]]
  BY <1>2 DEF IInv, TypeOK, HeldInv, AudioHolds
<1>5. Owed' = Owed
  BY <1>2, <1>3, <1>4 DEF Owed
<1>6. Flushing' <=> Flushing
  BY ThreadFacts DEF PutAlloc, Goto, IInv, TypeOK, Flushing
<1> QED
  BY <1>1, <1>3, <1>5, <1>6, SameSize

\* A linked packet is owed until it is counted.
LEMMA PutLinkSize ==
  ASSUME IInv, IInv', SizeInv, PutLink
  PROVE  SizeInv'
<1> DEFINE w == PacketSize[pkt[pkt1[Reader]]]
<1>1. /\ ~Flushing /\ ~Flushing' /\ FifoItems \in Seq(Packets)
      /\ pkt[pkt1[Reader]] \in Packets
      /\ FifoItems' = Append(FifoItems, pkt[pkt1[Reader]])
  BY PutLinkAppends
<1>2. /\ pc[Audio] # "get_count" /\ pc'[Audio] # "get_count"
      /\ pc[Reader] # "put_count" /\ pc'[Reader] = "put_count"
      /\ size' = size /\ pkt' = pkt /\ pkt1' = pkt1
  BY ThreadFacts DEF PutLink, Goto, IInv, TypeOK, LockInv, Critical
<1>3. w \in Nat
  BY <1>1, PacketsAssumption
<1>4. Bytes(FifoItems') = Bytes(FifoItems) + w
  BY <1>1, BytesAppend
<1>5. Owed = 0 - 0 /\ Owed' = 0 - w
  BY <1>2 DEF Owed
<1>6. Bytes(FifoItems) \in Nat
  BY <1>1, BytesType
<1>7. size = Bytes(FifoItems) + Owed
  BY <1>1 DEF SizeInv
<1>8. size' = Bytes(FifoItems') + Owed'
  BY <1>2, <1>3, <1>4, <1>5, <1>6, <1>7
<1> QED
  BY <1>8 DEF SizeInv

LEMMA PutCountSize ==
  ASSUME IInv, SizeInv, PutCount
  PROVE  SizeInv'
<1> DEFINE w == PacketSize[pkt[pkt1[Reader]]]
<1>1. ~Flushing /\ (Flushing' <=> Flushing) /\ chain' = chain /\ pkt' = pkt
  BY ThreadFacts DEF PutCount, IInv, TypeOK, LockInv, Critical, Flushing, heapVars
<1>2. /\ pc[Audio] # "get_count" /\ pc'[Audio] # "get_count"
      /\ pc[Reader] = "put_count" /\ pc'[Reader] # "put_count" /\ size' = size + w
  BY ThreadFacts DEF PutCount, IInv, TypeOK, LockInv, Critical
<1>3. FifoItems' = FifoItems
  BY <1>1, SameItems
<1>4. w \in Nat
  BY <1>2, PacketsAssumption DEF IInv, TypeOK, HeldInv, Threads
<1>5. Owed = 0 - w /\ Owed' = 0 - 0
  BY <1>2 DEF Owed
<1>6. Bytes(FifoItems) \in Nat
  BY <1>1, ItemsFacts, BytesType DEF IInv
<1>7. size = Bytes(FifoItems) + Owed
  BY <1>1 DEF SizeInv
<1>8. size' = Bytes(FifoItems') + Owed'
  BY <1>2, <1>3, <1>4, <1>5, <1>6, <1>7
<1> QED
  BY <1>8 DEF SizeInv

\* An unlinked packet is owed until it is counted.
LEMMA GetUnlinkSize ==
  ASSUME IInv, IInv', SizeInv, GetUnlink
  PROVE  SizeInv'
<1> DEFINE w == PacketSize[pkt[chain[1]]]
<1>1. ~Flushing /\ chain # <<>> /\ first_pkt = chain[1] /\ Len(chain) \in Nat \ {0}
  BY GetUnlinkChain
<1>2. /\ FifoItems \in Seq(Packets) /\ FifoItems # <<>> /\ FifoItems[1] = pkt[chain[1]]
      /\ FifoItems' = Tail(FifoItems)
  <2>1. FifoItems # <<>> /\ FifoItems' = Tail(FifoItems)
    BY GetUnlinkGets DEF Abstract!Get
  <2> QED
    BY <1>1, <2>1, ItemsFacts DEF IInv
<1>3. /\ pc[Audio] # "get_count" /\ pc'[Audio] = "get_count" /\ pkt1'[Audio] = chain[1]
      /\ pc[Reader] # "put_count" /\ pc'[Reader] # "put_count"
      /\ size' = size /\ pkt' = pkt
  BY <1>1, ThreadFacts DEF GetUnlink, Goto, IInv, TypeOK, LockInv, Critical, heapVars
<1>4. w \in Nat
  BY <1>2, ElementOfSeq, EmptySeq, PacketsAssumption
<1>5. Bytes(FifoItems) = w + Bytes(FifoItems') /\ Bytes(FifoItems') \in Nat
  BY <1>2, BytesTail
<1>6. Owed = 0 - 0 /\ Owed' = w - 0
  BY <1>3 DEF Owed
<1>7. size = Bytes(FifoItems) + Owed
  BY <1>1 DEF SizeInv
<1>8. size' = Bytes(FifoItems') + Owed'
  BY <1>3, <1>4, <1>5, <1>6, <1>7
<1> QED
  BY <1>8 DEF SizeInv

LEMMA GetCountSize ==
  ASSUME IInv, SizeInv, GetCount
  PROVE  SizeInv'
<1> DEFINE w == PacketSize[pkt[pkt1[Audio]]]
<1>1. ~Flushing /\ (Flushing' <=> Flushing) /\ chain' = chain /\ pkt' = pkt
  BY ThreadFacts DEF GetCount, Goto, IInv, TypeOK, LockInv, Critical, Flushing
<1>2. /\ pc[Audio] = "get_count" /\ pc'[Audio] # "get_count"
      /\ pc[Reader] # "put_count" /\ pc'[Reader] # "put_count" /\ size' = size - w
  BY ThreadFacts DEF GetCount, Goto, IInv, TypeOK, LockInv, Critical
<1>3. FifoItems' = FifoItems
  BY <1>1, SameItems
<1>4. w \in Nat
  BY <1>2, PacketsAssumption DEF IInv, TypeOK, HeldInv, AudioHolds
<1>5. Owed = w - 0 /\ Owed' = 0 - 0
  BY <1>2 DEF Owed
<1>6. Bytes(FifoItems) \in Nat
  BY <1>1, ItemsFacts, BytesType DEF IInv
<1>7. size = Bytes(FifoItems) + Owed
  BY <1>1 DEF SizeInv
<1>8. size' = Bytes(FifoItems') + Owed'
  BY <1>2, <1>3, <1>4, <1>5, <1>6, <1>7
<1> QED
  BY <1>8 DEF SizeInv

\* A flush leaves nothing queued, nothing owed and a size of 0.
LEMMA FlushResetSize ==
  ASSUME NEW t \in Flushers, IInv, FlushReset(t)
  PROVE  SizeInv'
<1>1. FifoItems' = <<>>
  BY FlushResetEmpties
<1>2. pc'[Audio] # "get_count" /\ pc'[Reader] # "put_count" /\ size' = 0
  BY ThreadFacts DEF FlushReset, Goto, IInv, TypeOK, LockInv, Critical
<1>3. Owed' = 0 - 0
  BY <1>2 DEF Owed
<1> QED
  BY <1>1, <1>2, <1>3, BytesEmpty DEF SizeInv

LEMMA NextSize == IInv /\ IInv' /\ SizeInv /\ [Next]_vars => SizeInv'
<1> SUFFICES ASSUME IInv, IInv', SizeInv, [Next]_vars PROVE SizeInv'
  OBVIOUS
<1> USE ThreadFacts, SameItems, SameSize DEF Goto, Owed
<1>1. ASSUME NEW p \in Packets, PutAlloc(p) PROVE SizeInv'
  BY <1>1, PutAllocSize
<1>2. CASE PutLock
  BY <1>2 DEF PutLock, IInv, TypeOK, Flushing, heapVars, queueVars
<1>3. CASE PutLink
  BY <1>3, PutLinkSize
<1>4. CASE PutCount
  BY <1>4, PutCountSize
<1>5. CASE GetLock
  BY <1>5 DEF GetLock, IInv, TypeOK, Flushing, heapVars, queueVars
<1>6. CASE GetQuit
  BY <1>6 DEF GetQuit, IInv, TypeOK, Flushing, heapVars, queueVars
<1>7. CASE GetUnlink
  BY <1>7, GetUnlinkSize
<1>8. CASE GetCount
  BY <1>8, GetCountSize
<1>9. CASE GetEmpty
  BY <1>9 DEF GetEmpty, IInv, TypeOK, Flushing, heapVars, queueVars
<1>10. ASSUME NEW t \in Flushers, FlushLock(t) \/ FlushFree(t) PROVE SizeInv'
  <2>1. Flushing'
    BY <1>10 DEF FlushLock, FlushFree, IInv, TypeOK, Flushing
  <2> QED
    BY <2>1 DEF SizeInv
<1>11. ASSUME NEW t \in Flushers, FlushReset(t) PROVE SizeInv'
  BY <1>11, FlushResetSize
<1>12. ASSUME NEW t \in Threads, Unlock(t) PROVE SizeInv'
  BY <1>12 DEF Unlock, IInv, TypeOK, Flushing, heapVars, queueVars
<1>13. CASE ClearNoMoreData
  BY <1>13 DEF ClearNoMoreData, Flushing, heapVars, queueVars
<1>14. CASE SetQuit
  BY <1>14 DEF SetQuit, Flushing, heapVars, queueVars
<1>15. CASE UNCHANGED vars
  BY <1>15 DEF vars, Flushing, heapVars, queueVars
<1> QED
  BY <1>1, <1>2, <1>3, <1>4, <1>5, <1>6, <1>7, <1>8, <1>9, <1>10, <1>11, <1>12, <1>13,
     <1>14, <1>15 DEF Next

\* The size the read thread throttles on is the number of bytes queued, whoever put,
\* fetched and flushed before (player.c:407 and the three operations).
THEOREM SizeIsExact == Spec => []SizeExact
<1>1. Init => SizeInv
  BY ThreadFacts, BytesEmpty DEF Init, SizeInv, Owed, FifoItems, Flushing
<1>2. ASSUME IInv, SizeInv PROVE SizeExact
  <2> SUFFICES ASSUME mutex = NULL
               PROVE  size = Bytes([i \in 1 .. Len(chain) |-> pkt[chain[i]]])
    BY DEF SizeExact
  <2>1. ~Flushing /\ pc[Audio] # "get_count" /\ pc[Reader] # "put_count"
    BY <1>2, ThreadFacts DEF IInv, LockInv, Critical, Flushing
  <2>2. FifoItems = [i \in 1 .. Len(chain) |-> pkt[chain[i]]]
    BY <2>1 DEF FifoItems
  <2>3. Owed = 0 - 0
    BY <2>1 DEF Owed
  <2>4. Bytes(FifoItems) \in Nat
    BY <1>2, <2>1, ItemsFacts, BytesType DEF IInv
  <2>5. size = Bytes(FifoItems) + Owed
    BY <1>2, <2>1 DEF SizeInv
  <2> QED
    BY <2>2, <2>3, <2>4, <2>5
<1> QED
  BY <1>1, <1>2, Invariance, NextSize, PTL DEF Spec

===============================================================================
