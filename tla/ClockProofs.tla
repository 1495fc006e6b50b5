------------------------------ MODULE ClockProofs ------------------------------
(***************************************************************************)
(* Proofs about Clock for any files, packets and bounds: the times shown are *)
(* those of the open file, a seek meets the file it was asked of, and the    *)
(* display alone seeks near the end of an overlong song at most.             *)
(***************************************************************************)
EXTENDS Clock, SequenceTheorems, TLAPS

\* The read thread is started last, once, and has a file; what is queued was read from it.
QueueInv ==
    /\ pc["gtk"] \in {"create", "stream"} \/ reader # "none" => input_filename \in Files
    /\ pc["gtk"] \in {"create", "stream"} => player # "live"
    /\ player # "live" => reader = "none"
    /\ reader \in {"length", "device", "loop"} => file \in Files
    /\ reader # "loop" => queue = <<>>
    /\ \A i \in 1 .. Len(queue) : queue[i].file = file /\ queue[i].at + Tenths <= Lasts(file)

\* The clock belongs to a file that states its times, within its length; the packet
\* in the decoder is still to be added.
ClockInv ==
    /\ decoded => clock_of = file /\ file \notin Bare
    /\ clock_of # NoFile =>
          audio_clock + (IF packet = NoPacket THEN 0 ELSE Tenths) <= Lasts(clock_of)

\* A length is that of the file it is about, or 0; a position lies within its file.
LengthInv ==
    /\ duration = IF duration_of = NoFile THEN 0 ELSE Length(duration_of)
    /\ length = IF length_of = NoFile THEN 0 ELSE Length(length_of)
    /\ reader \in {"device", "loop"} /\ file \notin Bare => duration_of \in {file, NoFile}
    /\ pos_of # NoFile => pos <= Lasts(pos_of)

\* A seek stays within the file it is about; one that met no load is about the open
\* file, and no load is under way.
SeekInv ==
    /\ seek_of # NoFile => seek_pos <= 10 * Length(seek_of)
    /\ seek_req /\ seek_calm =>
          reader = "loop" /\ ~read_thread_abord /\ (seek_of \in {file, NoFile} \/ file \in Bare)

\* What update_tick carries from one of its steps to the next.
TickInv ==
    /\ tick \in {"set", "zero"} /\ ~moved => global_slider_value = percent
    /\ tick \in {"idle", "zero", "length", "pos", "store"} => percent = 0
    /\ tick = "set" /\ length # 0 => percent = (pos * 10) \div length

CInv == TypeOK /\ QueueInv /\ ClockInv /\ LengthInv /\ SeekInv /\ TickInv

-----------------------------------------------------------------------------
(* Numbers                                                                   *)

LEMMA LastsIsNat == ASSUME NEW f \in Files PROVE Lasts(f) \in Nat /\ Lasts(f) <= MaxClock
<1>1. Packets[f] \in Nat /\ Tenths \in Nat
  BY ClockAssumption DEF ClockAssumption
<1>2. \A m, n \in Nat : m * n \in Nat
  BY SMT
<1> QED
  BY <1>1, <1>2, ClockAssumption DEF ClockAssumption, Lasts

LEMMA DivTen ==
    ASSUME NEW n \in Nat
    PROVE  n \div 10 \in Nat /\ 10 * (n \div 10) <= n /\ n < 10 * (n \div 10 + 1)
  BY SMT

LEMMA DivIsNat == ASSUME NEW n \in Nat, NEW d \in Nat \ {0} PROVE n \div d \in Nat
  BY SMT

LEMMA TenTimes == ASSUME NEW n \in Nat PROVE n * 10 \in Nat
  BY SMT

LEMMA PlusNothing == ASSUME NEW n \in Int PROVE n + 0 = n
  BY SMT

\* The whole seconds that a file states.
LEMMA LengthIsNat ==
    ASSUME NEW f \in Files
    PROVE  /\ Stated[f] \in Nat /\ Length(f) \in Nat
           /\ 10 * Length(f) <= Stated[f] /\ Stated[f] < 10 * (Length(f) + 1)
<1>1. Stated[f] \in Nat
  BY ClockAssumption DEF ClockAssumption
<1> QED
  BY <1>1, DivTen DEF Length

\* A packet that the file still has ends within it.
LEMMA PacketWithinFile ==
    ASSUME NEW f \in Files, NEW n \in Nat, n < Packets[f]
    PROVE  n * Tenths \in Nat /\ n * Tenths + Tenths <= Lasts(f)
<1>1. Packets[f] \in Nat /\ Tenths \in Nat
  BY ClockAssumption DEF ClockAssumption
<1>2. \A a, b, c \in Nat : a + 1 <= b => a * c \in Nat /\ a * c + c <= b * c
  <2> SUFFICES ASSUME NEW a \in Nat, NEW b \in Nat, NEW c \in Nat, a + 1 <= b
               PROVE  a * c \in Nat /\ a * c + c <= b * c
    OBVIOUS
  <2>1. (b - a - 1) * c >= 0 /\ (b - a - 1) * c = b * c - a * c - c
    BY SMT
  <2> QED
    BY <2>1, SMT
<1> QED
  BY <1>1, <1>2 DEF Lasts

\* A share of a length in seconds, in tenths.
LEMMA ShareOfLength ==
    ASSUME NEW d \in Nat, NEW p \in 0 .. 100
    PROVE  (d * p) \div 10 \in Nat /\ (d * p) \div 10 <= 10 * d
<1>1. d * p \in Nat /\ d * p <= 100 * d
  <2>1. d * (100 - p) >= 0 /\ d * (100 - p) = 100 * d - d * p
    BY SMT
  <2>2. d * p \in Nat
    BY SMT
  <2> QED
    BY <2>1, <2>2, SMT
<1>2. \A n \in Nat : n <= 100 * d => n \div 10 \in Nat /\ n \div 10 <= 10 * d
  BY SMT
<1> QED
  BY <1>1, <1>2

\* The percentage of a position that is not by 6 percent past a length.
LEMMA PercentBound ==
    ASSUME NEW n \in Nat, NEW d \in Nat \ {0}, 10 * n < 106 * d
    PROVE  (n * 10) \div d \in 0 .. 105
<1>1. n * 10 \in Nat /\ n * 10 < 106 * d
  BY SMT
<1>2. (n * 10) \div d \in Nat /\ d * ((n * 10) \div d) <= n * 10
  BY <1>1, SMT
<1>3. (n * 10) \div d < 106
  BY <1>1, <1>2, SMT
<1> QED
  BY <1>2, <1>3

\* Where a thread that loads or stops is after a step of it.
LEMMA GotoSteps ==
    ASSUME CInv, NEW t \in Loaders, NEW from,
           NEW to \in {"idle", "create", "stream", "load", "status", "zero", "stop"},
           Goto(t, from, to)
    PROVE  /\ pc' \in [Loaders -> {"idle", "create", "stream", "load", "status", "zero", "stop"}]
           /\ \A u \in Loaders : pc'[u] = IF u = t THEN to ELSE pc[u]
           /\ pc[t] = from
  BY DEF Goto, CInv, TypeOK, ControlTypeOK

-----------------------------------------------------------------------------
(* The slider                                                                *)

\* Whoever moves it, what its handler asks for is a seek within the file whose
\* length is known, and a calm one is about the open file.
LEMMA SetValueSeeks ==
    ASSUME CInv, NEW v \in Int, NEW g \in Garbage \cup Nat, SetValue(v, g)
    PROVE  /\ slider' \in 0 .. 100 /\ global_slider_value' \in Garbage \cup Nat
           /\ seek_req' \in BOOLEAN /\ seek_calm' \in BOOLEAN
           /\ seek_of' \in Known /\ seek_pos' \in Nat
           /\ seek_of' # NoFile => seek_pos' <= 10 * Length(seek_of')
           /\ seek_req' /\ seek_calm' =>
                 /\ reader = "loop" /\ ~read_thread_abord
                 /\ seek_of' \in {file, NoFile} \/ file \in Bare
<1>1. slider' \in 0 .. 100
  BY DEF SetValue, Clamp, Upto
<1>2. global_slider_value' \in Garbage \cup Nat
  BY <1>1 DEF SetValue
<1>3. CASE UNCHANGED seekVars
  BY <1>1, <1>2, <1>3 DEF CInv, TypeOK, SeekTypeOK, SeekInv, seekVars
<1>4. CASE SeekAudio(slider') /\ ~UNCHANGED seekVars
  <2>1. /\ seek_req' = TRUE /\ seek_pos' = (duration * slider') \div 10 /\ seek_of' = duration_of
        /\ seek_calm' = (reader = "loop" /\ ~read_thread_abord)
    BY <1>4 DEF SeekAudio
  <2>2. duration \in Nat /\ duration_of \in Known
    BY DEF CInv, TypeOK, TimeTypeOK
  <2>3. seek_pos' \in Nat /\ seek_pos' <= 10 * duration
    BY <1>1, <2>1, <2>2, ShareOfLength
  <2>4. seek_of' # NoFile => seek_pos' <= 10 * Length(seek_of')
    BY <2>1, <2>3 DEF CInv, LengthInv
  <2>5. seek_calm' => reader = "loop" /\ ~read_thread_abord
                      /\ (seek_of' \in {file, NoFile} \/ file \in Bare)
    BY <2>1 DEF CInv, LengthInv
  <2> QED
    BY <1>1, <1>2, <2>1, <2>2, <2>3, <2>4, <2>5
<1> QED
  BY <1>3, <1>4 DEF SetValue

-----------------------------------------------------------------------------
(* What the threads leave alone                                              *)

\* Neither the slider nor the display writes anything of the player but the seek.
LEMMA DisplayOnlySeeks ==
    ASSUME \/ \E v \in Drags : DragSlider(v)
           \/ TickStopped \/ TickPlaying \/ TickLength \/ TickPos \/ TickCrash \/ TickStore
           \/ TickSet
    PROVE  UNCHANGED <<controlVars, readVars, packet, timeVars>>
  BY DEF DragSlider, TickStopped, TickPlaying, TickCrash, TickLength, TickPos, TickStore, TickSet, tickVars, vars,
         controlVars, readVars, timeVars

\* The player writes nothing of the display.
LEMMA PlayerLeavesDisplay ==
    ASSUME \/ ControlNext
           \/ OpenFile \/ SetDuration \/ AudioOpen \/ StartOver \/ SeekFrame \/ ReadFrame
           \/ GetPacket \/ DecodeFrame
    PROVE  UNCHANGED <<sliderVars, tickVars>>
  BY DEF ControlNext, InitPlayer, PlayerCreate, StreamOpen, InitPlayer, PlayerCreate, StreamOpen, LoadStatus, LoadPause, LoadAbord, LoadStatus,
         StopAudio, StopClock, StopStatus, OpenFile, SetDuration, AudioOpen, StartOver,
         SeekFrame, ReadFrame, GetPacket, DecodeFrame

-----------------------------------------------------------------------------
(* The invariant                                                             *)

LEMMA CInvInit == Init => CInv
<1> SUFFICES ASSUME Init PROVE CInv
  OBVIOUS
<1>1. NoFile \in Known /\ 0 \in Garbage \cup Nat /\ MaxClock \in Nat /\ MaxQueue \in Nat
  BY ClockAssumption DEF ClockAssumption, Known
<1>2. ControlTypeOK /\ SeekTypeOK
  BY <1>1 DEF Init, ControlTypeOK, SeekTypeOK
<1>3. ReadTypeOK
  <2>1. queue \in Seq([file : Files, at : Nat]) /\ Len(queue) = 0
    BY DEF Init
  <2>2. Len(queue) <= MaxQueue
    BY <1>1, <2>1
  <2>3. packet = NoPacket
    BY DEF Init
  <2>4. file \in Known /\ next \in Nat
    BY <1>1 DEF Init
  <2>5. decoded \in BOOLEAN
    BY DEF Init
  <2>6. reader \in {"none", "open", "length", "device", "loop"}
    BY DEF Init
  <2> QED
    BY <2>1, <2>2, <2>3, <2>4, <2>5, <2>6 DEF ReadTypeOK
<1>4. TimeTypeOK /\ DisplayTypeOK
  <2>1. 0 \in 0 .. MaxClock
    BY <1>1
  <2>2. TimeTypeOK
    BY <1>1, <2>1 DEF Init, TimeTypeOK
  <2>3. DisplayTypeOK
    <3>1. slider \in 0 .. 100
      BY DEF Init
    <3>2. global_slider_value \in Garbage \cup Nat /\ percent \in Garbage \cup Nat
      BY <1>1 DEF Init
    <3>3. moved \in BOOLEAN
      BY DEF Init
    <3>3a. tick \in {"idle", "zero", "length", "pos", "store", "set", "crashed"}
      BY DEF Init
    <3>4. length \in Nat /\ length_of \in Known /\ pos \in 0 .. MaxClock /\ pos_of \in Known
      BY <1>1, <2>1 DEF Init
    <3> QED
      BY <3>1, <3>2, <3>3, <3>3a, <3>4 DEF DisplayTypeOK
  <2> QED
    BY <2>2, <2>3
<1>5. QueueInv /\ ClockInv /\ LengthInv /\ SeekInv /\ TickInv
  BY DEF Init, Loaders, QueueInv, ClockInv, LengthInv, SeekInv, TickInv
<1> QED
  BY <1>2, <1>3, <1>4, <1>5 DEF CInv, TypeOK

\* The packet at the head of the queue is one of the open file.
LEMMA QueuedPackets ==
    ASSUME CInv, queue # <<>>
    PROVE  /\ reader = "loop" /\ file \in Files
           /\ Head(queue) \in [file : Files, at : Nat] /\ Head(queue).file = file
           /\ Head(queue).at + Tenths <= Lasts(file)
           /\ Tail(queue) \in Seq([file : Files, at : Nat])
           /\ Len(Tail(queue)) = Len(queue) - 1
           /\ \A i \in 1 .. Len(Tail(queue)) : Tail(queue)[i] = queue[i + 1]
<1>1. queue \in Seq([file : Files, at : Nat])
  BY DEF CInv, TypeOK, ReadTypeOK
<1>2. Len(queue) >= 1 /\ Head(queue) = queue[1]
  BY <1>1
<1>3. reader = "loop" /\ file \in Files
  BY DEF CInv, QueueInv
<1>4. queue[1].file = file /\ queue[1].at + Tenths <= Lasts(file)
  BY <1>2 DEF CInv, QueueInv
<1>5. queue[1] \in [file : Files, at : Nat]
  <2>1. 1 \in 1 .. Len(queue)
    BY <1>1, <1>2
  <2> QED
    BY <1>1, <2>1, ElementOfSeq
<1>6. /\ Tail(queue) \in Seq([file : Files, at : Nat])
      /\ Len(Tail(queue)) = Len(queue) - 1
      /\ \A i \in 1 .. Len(Tail(queue)) : Tail(queue)[i] = queue[i + 1]
  BY <1>1, <1>2
<1> QED
  BY <1>2, <1>3, <1>4, <1>5, <1>6

\* The status, the requests and the device
LEMMA ControlTypeNext == CInv /\ [Next]_vars => ControlTypeOK'
<1> SUFFICES ASSUME CInv, [Next]_vars PROVE ControlTypeOK'
  OBVIOUS
<1> USE DEF CInv, TypeOK, ControlTypeOK
<1>1. ASSUME NEW f \in Files, InitPlayer(f) PROVE ControlTypeOK'
  BY <1>1, GotoSteps DEF InitPlayer, Known, Loaders
<1>2. CASE PlayerCreate
  BY <1>2, GotoSteps DEF PlayerCreate, Loaders
<1>3. CASE StreamOpen
  BY <1>3, GotoSteps DEF StreamOpen, Loaders
<1>4. ASSUME NEW t \in Loaders, NEW f \in Files, LoadPause(t, f) PROVE ControlTypeOK'
  BY <1>4, GotoSteps DEF LoadPause, Known
<1>5. ASSUME NEW t \in Loaders, LoadAbord(t) PROVE ControlTypeOK'
  BY <1>5, GotoSteps DEF LoadAbord
<1>6. ASSUME NEW t \in Loaders, LoadStatus(t) PROVE ControlTypeOK'
  BY <1>6, GotoSteps DEF LoadStatus
<1>7. CASE StopAudio
  BY <1>7, GotoSteps DEF StopAudio, Loaders
<1>8. CASE StopClock
  BY <1>8, GotoSteps DEF StopClock, Loaders
<1>9. CASE StopStatus
  BY <1>9, GotoSteps DEF StopStatus, Loaders
<1>10. CASE AudioOpen
  BY <1>10 DEF AudioOpen
<1>11. CASE StartOver
  BY <1>11 DEF StartOver
<1>12. CASE UNCHANGED <<controlVars>>
  BY <1>12 DEF controlVars
<1> QED
  BY <1>1, <1>2, <1>3, <1>4, <1>5, <1>6, <1>7, <1>8, <1>9, <1>10, <1>11, <1>12 DEF
     Next, ControlNext, PlayerNext, DisplayNext, vars, controlVars, readVars,
     timeVars, seekVars, sliderVars, tickVars, OpenFile, SetDuration, SeekFrame,
     ReadFrame, GetPacket, DecodeFrame, DragSlider, TickStopped, TickPlaying,
     TickLength, TickPos, TickCrash, TickStore, TickSet

\* The length and the clock
LEMMA TimeTypeNext == CInv /\ [Next]_vars => TimeTypeOK'
<1> SUFFICES ASSUME CInv, [Next]_vars PROVE TimeTypeOK'
  OBVIOUS
<1> USE DEF CInv, TypeOK, TimeTypeOK
<1>1. CASE StopAudio
  BY <1>1 DEF StopAudio, Known
<1>2. CASE StopClock
  <2>1. audio_clock' \in 0 .. MaxClock /\ clock_of' \in Known
    BY <1>2, ClockAssumption DEF ClockAssumption, StopClock, Known
  <2> QED
    BY <1>2, <2>1 DEF StopClock
<1>3. CASE SetDuration
  <2>1. file \in Files
    BY <1>3 DEF SetDuration, QueueInv
  <2> QED
    BY <1>3, <2>1, LengthIsNat DEF SetDuration, Known
<1>4. CASE GetPacket
  <2>1. packet' \in [file : Files, at : Nat] /\ packet'.at + Tenths <= Lasts(packet'.file)
    BY <1>4, QueuedPackets DEF GetPacket
  <2>2. packet'.file \in Known /\ NoFile \in Known
    BY <2>1 DEF Known
  <2>3. packet'.at \in 0 .. MaxClock
    BY <2>1, LastsIsNat, ClockAssumption DEF ClockAssumption
  <2> QED
    BY <1>4, <2>2, <2>3 DEF GetPacket
<1>5. CASE DecodeFrame
  <2>1. audio_clock' \in 0 .. MaxClock
    BY <1>5, ClockAssumption DEF ClockAssumption, DecodeFrame, Upto
  <2> QED
    BY <1>5, <2>1 DEF DecodeFrame
<1>6. CASE UNCHANGED <<timeVars>>
  BY <1>6 DEF timeVars
<1> QED
  BY <1>1, <1>2, <1>3, <1>4, <1>5, <1>6 DEF Next, ControlNext, PlayerNext,
     DisplayNext, vars, controlVars, readVars, timeVars, seekVars, sliderVars,
     tickVars, InitPlayer, PlayerCreate, StreamOpen, LoadPause, LoadAbord, LoadStatus,
     StopStatus, OpenFile, AudioOpen, StartOver, SeekFrame, ReadFrame, DragSlider,
     TickStopped, TickPlaying, TickLength, TickPos, TickCrash, TickStore, TickSet

\* The read thread, the queue and the packet in the decoder
LEMMA ReadTypeNext == CInv /\ [Next]_vars => ReadTypeOK'
<1> SUFFICES ASSUME CInv, [Next]_vars PROVE ReadTypeOK'
  OBVIOUS
<1> USE DEF CInv, TypeOK, ReadTypeOK
<1>1. ASSUME NEW t \in Loaders, LoadAbord(t) PROVE ReadTypeOK'
  BY <1>1 DEF LoadAbord, readVars
<1>2. CASE StopAudio
  <2>1. CASE stopped
    BY <1>2, <2>1 DEF StopAudio
  <2>2. CASE ~stopped
    <3>1. queue' = <<>>
      BY <1>2, <2>2 DEF StopAudio
    <3>2. queue' \in Seq([file : Files, at : Nat]) /\ Len(queue') <= MaxQueue
      BY <3>1, ClockAssumption DEF ClockAssumption
    <3> QED
      BY <1>2, <3>2 DEF StopAudio
  <2> QED
    BY <2>1, <2>2
<1>3. CASE StopClock
  BY <1>3 DEF StopClock
<1>4. CASE OpenFile
  <2>1. input_filename \in Known
    BY DEF ControlTypeOK
  <2> QED
    BY <1>4, <2>1 DEF OpenFile
<1>5. CASE SetDuration
  BY <1>5 DEF SetDuration
<1>6. CASE AudioOpen
  BY <1>6 DEF AudioOpen
<1>7. CASE StartOver
  <2>1. queue' = <<>>
    BY <1>7 DEF StartOver
  <2>2. queue' \in Seq([file : Files, at : Nat]) /\ Len(queue') <= MaxQueue
    BY <2>1, ClockAssumption DEF ClockAssumption
  <2> QED
    BY <1>7, <2>2 DEF StartOver, Known
<1>8. CASE SeekFrame
  <2>1. CASE UNCHANGED <<next, queue>>
    BY <1>8, <2>1 DEF SeekFrame
  <2>2. CASE next' = Upto(Packets[file], seek_pos \div Tenths) /\ queue' = <<>>
    <3>1. file \in Files
      BY <1>8 DEF SeekFrame, QueueInv
    <3>2. Packets[file] \in Nat /\ seek_pos \div Tenths \in Nat
      BY <3>1, ClockAssumption, DivIsNat DEF ClockAssumption, SeekTypeOK
    <3>3. next' \in Nat
      BY <2>2, <3>2 DEF Upto
    <3>4. queue' \in Seq([file : Files, at : Nat]) /\ Len(queue') <= MaxQueue
      BY <2>2, ClockAssumption DEF ClockAssumption
    <3> QED
      BY <1>8, <3>3, <3>4 DEF SeekFrame
  <2> QED
    BY <1>8, <2>1, <2>2 DEF SeekFrame
<1>9. CASE ReadFrame
  <2>1. file \in Files
    BY <1>9 DEF ReadFrame, QueueInv
  <2>2. next * Tenths \in Nat
    BY <1>9, <2>1, PacketWithinFile DEF ReadFrame
  <2>3. [file |-> file, at |-> next * Tenths] \in [file : Files, at : Nat]
    BY <2>1, <2>2
  <2>4. queue' \in Seq([file : Files, at : Nat]) /\ Len(queue') = Len(queue) + 1
    BY <1>9, <2>3, AppendProperties DEF ReadFrame
  <2>5. Len(queue') <= MaxQueue
    BY <1>9, <2>4, ClockAssumption DEF ClockAssumption, ReadFrame
  <2> QED
    BY <1>9, <2>4, <2>5 DEF ReadFrame
<1>10. CASE GetPacket
  <2>1. packet' \in [file : Files, at : Nat]
    BY <1>10, QueuedPackets DEF GetPacket
  <2>2. queue' \in Seq([file : Files, at : Nat])
    BY <1>10, QueuedPackets DEF GetPacket
  <2>3. Len(queue') <= MaxQueue
    BY <1>10, QueuedPackets, ClockAssumption DEF ClockAssumption, GetPacket
  <2>4. decoded' \in BOOLEAN
    BY <1>10 DEF GetPacket
  <2> QED
    BY <1>10, <2>1, <2>2, <2>3, <2>4 DEF GetPacket
<1>11. CASE DecodeFrame
  BY <1>11 DEF DecodeFrame, readVars
<1>12. CASE StreamOpen
  BY <1>12 DEF StreamOpen
<1>13. CASE UNCHANGED <<readVars, packet>>
  BY <1>13 DEF readVars
<1> QED
  BY <1>1, <1>2, <1>3, <1>4, <1>5, <1>6, <1>7, <1>8, <1>9, <1>10, <1>11, <1>12, <1>13
     DEF Next, ControlNext, PlayerNext, DisplayNext, vars, controlVars, readVars,
     timeVars, seekVars, sliderVars, tickVars, InitPlayer, PlayerCreate, LoadPause,
     LoadStatus, StopStatus, DragSlider, TickStopped, TickPlaying, TickLength,
     TickPos, TickCrash, TickStore, TickSet

LEMMA GarbageIsInt == Garbage \cup Nat \subseteq Int
  BY ClockAssumption DEF ClockAssumption, Garbage

\* The seek that was asked for
LEMMA SeekTypeNext == CInv /\ [Next]_vars => SeekTypeOK'
<1> SUFFICES ASSUME CInv, [Next]_vars PROVE SeekTypeOK'
  OBVIOUS
<1> USE DEF SeekTypeOK
<1>1. ASSUME NEW t \in Loaders, LoadAbord(t) PROVE SeekTypeOK'
  BY <1>1 DEF LoadAbord, CInv, TypeOK
<1>2. CASE SeekFrame
  BY <1>2 DEF SeekFrame, Known
<1>3. ASSUME NEW v \in Drags, DragSlider(v) PROVE SeekTypeOK'
  <2>1. v \in Int /\ global_slider_value \in Garbage \cup Nat
    BY ClockAssumption DEF ClockAssumption, CInv, TypeOK, DisplayTypeOK
  <2>2. SetValue(v, global_slider_value)
    BY <1>3 DEF DragSlider
  <2> QED
    BY <1>3, <2>1, <2>2, SetValueSeeks
<1>4. CASE TickStopped
  BY <1>4 DEF TickStopped, seekVars, CInv, TypeOK
<1>5. CASE TickSet
  <2>1. percent \in Int /\ global_slider_value \in Garbage \cup Nat
    BY GarbageIsInt DEF CInv, TypeOK, DisplayTypeOK
  <2>2. SetValue(percent, global_slider_value)
    BY <1>5 DEF TickSet
  <2> QED
    BY <1>5, <2>1, <2>2, SetValueSeeks
<1>6. CASE UNCHANGED <<seekVars>>
  BY <1>6 DEF seekVars, CInv, TypeOK
<1> QED
  BY <1>1, <1>2, <1>3, <1>4, <1>5, <1>6 DEF Next, ControlNext, PlayerNext,
     DisplayNext, vars, controlVars, readVars, timeVars, seekVars, sliderVars,
     tickVars, InitPlayer, PlayerCreate, StreamOpen, LoadPause, LoadStatus, StopAudio,
     StopClock, StopStatus, OpenFile, SetDuration, AudioOpen, StartOver, ReadFrame,
     GetPacket, DecodeFrame, TickPlaying, TickLength, TickPos, TickCrash, TickStore

\* The slider and what update_tick carries along
LEMMA DisplayTypeNext == CInv /\ [Next]_vars => DisplayTypeOK'
<1> SUFFICES ASSUME CInv, [Next]_vars PROVE DisplayTypeOK'
  OBVIOUS
<1> USE DEF DisplayTypeOK
<1>1. ASSUME NEW v \in Drags, DragSlider(v) PROVE DisplayTypeOK'
  <2>1. v \in Int /\ global_slider_value \in Garbage \cup Nat
    BY ClockAssumption DEF ClockAssumption, CInv, TypeOK, DisplayTypeOK
  <2>2. SetValue(v, global_slider_value)
    BY <1>1 DEF DragSlider
  <2> QED
    BY <1>1, <2>1, <2>2, SetValueSeeks DEF DragSlider, tickVars, CInv, TypeOK
<1>2. CASE TickStopped
  BY <1>2 DEF TickStopped, CInv, TypeOK
<1>3. CASE TickLength
  <2>1. length' \in Nat /\ length_of' \in Known
    BY <1>3 DEF TickLength, CInv, TypeOK, TimeTypeOK, Known
  <2> QED
    BY <1>3, <2>1 DEF TickLength, sliderVars, CInv, TypeOK
<1>4. CASE TickPos
  <2>1. pos' \in 0 .. MaxClock /\ pos_of' \in Known
    BY <1>4, ClockAssumption DEF ClockAssumption, TickPos, CInv, TypeOK, TimeTypeOK, Known
  <2> QED
    BY <1>4, <2>1 DEF TickPos, sliderVars, CInv, TypeOK
<1>5. CASE TickStore
  <2>1. percent' \in Garbage \cup Nat
    <3>1. CASE length = 0
      BY <1>5, <3>1 DEF TickStore
    <3>2. CASE length # 0
      <4>1. length \in Nat \ {0} /\ pos \in Nat
        BY <3>2, ClockAssumption DEF ClockAssumption, CInv, TypeOK
      <4>2. (pos * 10) \div length \in Nat
        BY <4>1, TenTimes, DivIsNat
      <4> QED
        BY <1>5, <3>2, <4>2 DEF TickStore
    <3> QED
      BY <3>1, <3>2
  <2> QED
    BY <1>5, <2>1 DEF TickStore, CInv, TypeOK
<1>6. CASE TickSet
  <2>1. percent \in Int /\ global_slider_value \in Garbage \cup Nat
    BY GarbageIsInt DEF CInv, TypeOK, DisplayTypeOK
  <2>2. SetValue(percent, global_slider_value)
    BY <1>6 DEF TickSet
  <2>3. 0 \in Garbage \cup Nat /\ 0 \in 0 .. MaxClock /\ NoFile \in Known
    BY ClockAssumption DEF ClockAssumption, Known
  <2>4. slider' \in 0 .. 100 /\ global_slider_value' \in Garbage \cup Nat
    BY <2>1, <2>2, SetValueSeeks
  <2> QED
    BY <1>6, <2>3, <2>4 DEF TickSet, CInv, TypeOK
<1>7. CASE TickPlaying
  BY <1>7 DEF TickPlaying, sliderVars, CInv, TypeOK
<1>8. CASE TickCrash
  BY <1>8 DEF TickCrash, sliderVars, CInv, TypeOK
<1>9. CASE UNCHANGED <<sliderVars, tickVars>>
  BY <1>9 DEF sliderVars, tickVars, CInv, TypeOK
<1> QED
  BY <1>1, <1>2, <1>3, <1>4, <1>5, <1>6, <1>7, <1>8, <1>9 DEF Next, ControlNext,
     PlayerNext, DisplayNext, vars, controlVars, readVars, timeVars, seekVars,
     sliderVars, tickVars, InitPlayer, PlayerCreate, StreamOpen, LoadPause, LoadAbord,
     LoadStatus, StopAudio, StopClock, StopStatus, OpenFile, SetDuration, AudioOpen,
     StartOver, SeekFrame, ReadFrame, GetPacket, DecodeFrame

\* The open file and its packets
LEMMA QueueNext == CInv /\ [Next]_vars => QueueInv'
<1> SUFFICES ASSUME CInv, [Next]_vars PROVE QueueInv'
  OBVIOUS
<1> USE DEF QueueInv
<1>1. ASSUME NEW t \in Loaders, NEW f \in Files, LoadPause(t, f) PROVE QueueInv'
  BY <1>1, GotoSteps DEF LoadPause, CInv, readVars, Loaders
<1>2. ASSUME NEW t \in Loaders, LoadAbord(t) PROVE QueueInv'
  BY <1>2, GotoSteps DEF LoadAbord, CInv, Loaders, readVars
<1>3. CASE StopAudio
  BY <1>3, GotoSteps DEF StopAudio, CInv, Loaders, readVars
<1>4. CASE StopClock
  BY <1>4, GotoSteps DEF StopClock, CInv, Loaders, readVars
<1>5. CASE StopStatus
  BY <1>5, GotoSteps DEF StopStatus, CInv, readVars, Loaders
<1>6. CASE OpenFile
  <2>1. queue' = <<>> /\ Len(queue') = 0
    BY <1>6 DEF OpenFile, CInv
  <2>2. file' = input_filename /\ input_filename' = input_filename /\ input_filename \in Files
    BY <1>6 DEF OpenFile, CInv, controlVars
  <2>3. UNCHANGED <<pc, player>> /\ reader' = "length" /\ reader = "open"
    BY <1>6 DEF OpenFile, controlVars
  <2> QED
    BY <2>1, <2>2, <2>3 DEF CInv
<1>7. CASE SetDuration
  BY <1>7 DEF SetDuration, CInv, controlVars
<1>8. CASE AudioOpen
  BY <1>8 DEF AudioOpen, CInv
<1>9. CASE StartOver
  BY <1>9 DEF StartOver, CInv
<1>10. CASE SeekFrame
  <2>1. /\ UNCHANGED <<pc, player, reader, input_filename, file>> /\ reader = "loop"
        /\ queue' = <<>> \/ queue' = queue
    BY <1>10 DEF SeekFrame, controlVars
  <2>2. CASE queue' = <<>>
    <3>1. Len(queue') = 0
      BY <2>2
    <3> QED
      BY <2>1, <3>1 DEF CInv
  <2>3. CASE queue' = queue
    BY <2>1, <2>3 DEF CInv
  <2> QED
    BY <2>1, <2>2, <2>3
<1>11. CASE ReadFrame
  <2>1. file \in Files /\ next \in Nat /\ next < Packets[file]
    BY <1>11 DEF ReadFrame, CInv, TypeOK, ReadTypeOK
  <2>2. next * Tenths \in Nat /\ next * Tenths + Tenths <= Lasts(file)
    BY <2>1, PacketWithinFile
  <2> DEFINE p == [file |-> file, at |-> next * Tenths]
  <2>3. p \in [file : Files, at : Nat] /\ queue \in Seq([file : Files, at : Nat])
    BY <2>1, <2>2 DEF CInv, TypeOK, ReadTypeOK
  <2>4. /\ Len(queue') = Len(queue) + 1
        /\ \A i \in 1 .. Len(queue) : queue'[i] = queue[i]
        /\ queue'[Len(queue) + 1] = p
    BY <1>11, <2>3, AppendProperties DEF ReadFrame
  <2>5. \A i \in 1 .. Len(queue') : queue'[i].file = file /\ queue'[i].at + Tenths <= Lasts(file)
    <3> SUFFICES ASSUME NEW i \in 1 .. Len(queue')
                 PROVE  queue'[i].file = file /\ queue'[i].at + Tenths <= Lasts(file)
      OBVIOUS
    <3>1. CASE i \in 1 .. Len(queue)
      BY <2>4, <3>1 DEF CInv
    <3>2. CASE i = Len(queue) + 1
      BY <2>2, <2>4, <3>2
    <3> QED
      BY <2>3, <2>4, <3>1, <3>2, LenProperties
  <2> QED
    BY <1>11, <2>5 DEF ReadFrame, CInv, controlVars
<1>12. CASE GetPacket
  <2>1. queue # <<>> /\ queue' = Tail(queue) /\ UNCHANGED <<pc, player, reader, input_filename, file>>
    BY <1>12 DEF GetPacket, controlVars
  <2>2. Len(queue) \in Nat
    BY LenProperties DEF CInv, TypeOK, ReadTypeOK
  <2>3. \A i \in 1 .. Len(queue') : queue'[i] = queue[i + 1] /\ i + 1 \in 1 .. Len(queue)
    BY <2>1, <2>2, QueuedPackets
  <2> QED
    BY <2>1, <2>3, QueuedPackets DEF CInv
<1>13. ASSUME NEW t \in Loaders, LoadStatus(t) PROVE QueueInv'
  BY <1>13, GotoSteps DEF LoadStatus, CInv, readVars, Loaders
<1>14. ASSUME NEW f \in Files, InitPlayer(f) PROVE QueueInv'
  BY <1>14 DEF InitPlayer, CInv, readVars
<1>15. CASE PlayerCreate
  BY <1>15, GotoSteps DEF PlayerCreate, CInv, readVars, Loaders
<1>16. CASE StreamOpen
  BY <1>16, GotoSteps DEF StreamOpen, CInv, Loaders
<1>17. CASE UNCHANGED <<pc, player, reader, input_filename, file, queue>>
  BY <1>17 DEF CInv
<1> QED
  BY <1>1, <1>2, <1>3, <1>4, <1>5, <1>6, <1>7, <1>8, <1>9, <1>10, <1>11, <1>12, <1>13,
     <1>14, <1>15, <1>16, <1>17 DEF Next, ControlNext, PlayerNext, DisplayNext, vars,
     controlVars, readVars, timeVars, seekVars, sliderVars, tickVars, DecodeFrame,
     DragSlider, TickStopped, TickPlaying, TickLength, TickPos, TickCrash, TickStore,
     TickSet

\* The clock
LEMMA ClockNext == CInv /\ [Next]_vars => ClockInv'
<1> SUFFICES ASSUME CInv, [Next]_vars PROVE ClockInv'
  OBVIOUS
<1> USE DEF ClockInv
<1>1. CASE StopClock
  BY <1>1 DEF StopClock, CInv
<1>2. CASE OpenFile
  BY <1>2 DEF OpenFile, CInv, timeVars
<1>3. CASE GetPacket
  <2>1. packet' = Head(queue) /\ queue # <<>>
    BY <1>3 DEF GetPacket
  <2>2. packet' \in [file : Files, at : Nat] /\ packet'.file = file /\ packet'.at + Tenths <= Lasts(file)
    BY <2>1, QueuedPackets
  <2>3. packet' # NoPacket
    BY <2>2, ClockAssumption DEF ClockAssumption, NoPacket
  <2>4. CASE file \in Bare
    BY <1>3, <2>2, <2>4 DEF GetPacket, CInv
  <2>5. CASE file \notin Bare
    BY <1>3, <2>2, <2>3, <2>5 DEF GetPacket
  <2> QED
    BY <2>4, <2>5
<1>4. CASE DecodeFrame
  <2>1. audio_clock' <= audio_clock + Tenths /\ audio_clock' \in Int
    BY ClockAssumption, <1>4 DEF ClockAssumption, DecodeFrame, Upto, CInv, TypeOK, TimeTypeOK
  <2>2. audio_clock \in Int /\ Tenths \in Int
    BY ClockAssumption DEF ClockAssumption, CInv, TypeOK, TimeTypeOK
  <2>3. clock_of # NoFile => Lasts(clock_of) \in Int /\ audio_clock + Tenths <= Lasts(clock_of)
    BY <1>4, LastsIsNat DEF DecodeFrame, CInv, TypeOK, TimeTypeOK, Known
  <2>4. UNCHANGED <<decoded, file, clock_of>> /\ packet' = NoPacket
    BY <1>4 DEF DecodeFrame, readVars
  <2>5. clock_of' # NoFile => audio_clock' <= Lasts(clock_of')
    BY <2>1, <2>2, <2>3, <2>4
  <2>6. audio_clock' + 0 = audio_clock'
    BY <2>1, PlusNothing
  <2> QED
    BY <2>4, <2>5, <2>6 DEF CInv
<1>5. CASE UNCHANGED <<decoded, clock_of, audio_clock, packet, file>>
  BY <1>5 DEF CInv
<1>6. CASE StartOver
  BY <1>6 DEF StartOver, CInv, timeVars
<1> QED
  BY <1>1, <1>2, <1>3, <1>4, <1>5, <1>6 DEF Next, ControlNext, PlayerNext,
     DisplayNext, vars, controlVars, readVars, timeVars, seekVars, sliderVars,
     tickVars, InitPlayer, PlayerCreate, StreamOpen, LoadPause, LoadAbord, LoadStatus,
     StopAudio, StopStatus, SetDuration, AudioOpen, SeekFrame, ReadFrame, DragSlider,
     TickStopped, TickPlaying, TickLength, TickPos, TickCrash, TickStore, TickSet

\* The lengths
LEMMA LengthNext == CInv /\ [Next]_vars => LengthInv'
<1> SUFFICES ASSUME CInv, [Next]_vars PROVE LengthInv'
  OBVIOUS
<1> USE DEF LengthInv
<1>1. ASSUME NEW t \in Loaders, LoadAbord(t) PROVE LengthInv'
  BY <1>1 DEF LoadAbord, CInv, readVars, timeVars, tickVars
<1>2. CASE StopAudio
  BY <1>2 DEF StopAudio, CInv, tickVars
<1>3. CASE OpenFile
  BY <1>3 DEF OpenFile, CInv, timeVars, tickVars
<1>4. CASE SetDuration
  <2>1. file \in Files /\ NoFile \notin Files
    BY <1>4, ClockAssumption DEF ClockAssumption, SetDuration, CInv, QueueInv
  <2> QED
    BY <1>4, <2>1 DEF SetDuration, CInv, tickVars
<1>5. CASE AudioOpen
  BY <1>5 DEF AudioOpen, CInv, timeVars, tickVars
<1>6. CASE StartOver
  BY <1>6 DEF StartOver, CInv, timeVars, tickVars
<1>7. CASE TickLength
  BY <1>7 DEF TickLength, CInv, timeVars, readVars
<1>8. CASE TickPos
  <2>1. pos_of' # NoFile => pos' <= Lasts(pos_of')
    <3>1. CASE Silent
      BY <1>8, <3>1 DEF TickPos
    <3>2. CASE ~Silent
      <4>1. pos' = audio_clock /\ pos_of' = clock_of
        BY <1>8, <3>2 DEF TickPos
      <4>2. clock_of # NoFile => audio_clock <= Lasts(clock_of)
        BY LastsIsNat, ClockAssumption DEF ClockAssumption, CInv, ClockInv, TypeOK, TimeTypeOK, Known
      <4> QED
        BY <4>1, <4>2
    <3> QED
      BY <3>1, <3>2
  <2> QED
    BY <1>8, <2>1 DEF TickPos, CInv, timeVars, readVars
<1>9. CASE TickSet
  <2>1. length' = 0 /\ length_of' = NoFile /\ pos_of' = NoFile
    BY <1>9 DEF TickSet
  <2>2. UNCHANGED <<duration, duration_of, reader, file>>
    BY <1>9 DEF TickSet, timeVars, readVars
  <2> QED
    BY <2>1, <2>2 DEF CInv
<1>10. CASE UNCHANGED <<duration, duration_of, length, length_of, reader, file, pos, pos_of>>
  BY <1>10 DEF CInv
<1>11. CASE StreamOpen
  BY <1>11 DEF StreamOpen, CInv, timeVars, tickVars
<1> QED
  BY <1>1, <1>2, <1>3, <1>4, <1>5, <1>6, <1>7, <1>8, <1>9, <1>10, <1>11 DEF Next,
     ControlNext, PlayerNext, DisplayNext, vars, controlVars, readVars, timeVars,
     seekVars, sliderVars, tickVars, InitPlayer, PlayerCreate, LoadPause, LoadStatus,
     StopClock, StopStatus, SeekFrame, ReadFrame, GetPacket, DecodeFrame, DragSlider,
     TickStopped, TickPlaying, TickCrash, TickStore

\* The seek
LEMMA SeekNext == CInv /\ [Next]_vars => SeekInv'
<1> SUFFICES ASSUME CInv, [Next]_vars PROVE SeekInv'
  OBVIOUS
<1> USE DEF SeekInv
<1>1. ASSUME NEW t \in Loaders, LoadAbord(t) PROVE SeekInv'
  BY <1>1 DEF LoadAbord, CInv, readVars
<1>2. CASE OpenFile
  BY <1>2 DEF OpenFile, CInv, seekVars
<1>3. CASE SetDuration
  BY <1>3 DEF SetDuration, CInv, seekVars
<1>4. CASE AudioOpen
  BY <1>4 DEF AudioOpen, CInv, seekVars
<1>5. CASE StartOver
  BY <1>5 DEF StartOver, CInv, seekVars
<1>6. CASE SeekFrame
  BY <1>6 DEF SeekFrame
<1>7. ASSUME NEW v \in Drags, DragSlider(v) PROVE SeekInv'
  <2>1. v \in Int /\ global_slider_value \in Garbage \cup Nat
    BY ClockAssumption DEF ClockAssumption, CInv, TypeOK, DisplayTypeOK
  <2>2. SetValue(v, global_slider_value)
    BY <1>7 DEF DragSlider
  <2> QED
    BY <1>7, <2>1, <2>2, SetValueSeeks DEF DragSlider, controlVars, readVars
<1>8. CASE TickStopped
  BY <1>8 DEF TickStopped, seekVars, controlVars, readVars, CInv
<1>9. CASE TickSet
  <2>1. percent \in Int /\ global_slider_value \in Garbage \cup Nat
    BY GarbageIsInt DEF CInv, TypeOK, DisplayTypeOK
  <2>2. SetValue(percent, global_slider_value)
    BY <1>9 DEF TickSet
  <2> QED
    BY <1>9, <2>1, <2>2, SetValueSeeks DEF TickSet, controlVars, readVars
<1>10. CASE UNCHANGED <<seekVars, reader, read_thread_abord, file>>
  BY <1>10 DEF CInv, seekVars
<1>11. CASE StreamOpen
  BY <1>11, GotoSteps DEF StreamOpen, CInv, QueueInv, seekVars, Loaders
<1> QED
  BY <1>1, <1>2, <1>3, <1>4, <1>5, <1>6, <1>7, <1>8, <1>9, <1>10, <1>11 DEF Next,
     ControlNext, PlayerNext, DisplayNext, vars, controlVars, readVars, timeVars,
     seekVars, sliderVars, tickVars, InitPlayer, PlayerCreate, LoadPause, LoadStatus,
     StopAudio, StopClock, StopStatus, ReadFrame, GetPacket, DecodeFrame, TickPlaying,
     TickLength, TickPos, TickCrash, TickStore

\* The display's locals
LEMMA TickNext == CInv /\ [Next]_vars => TickInv'
<1> SUFFICES ASSUME CInv, [Next]_vars PROVE TickInv'
  OBVIOUS
<1> USE DEF TickInv
<1>1. ASSUME NEW v \in Drags, DragSlider(v) PROVE TickInv'
  BY <1>1 DEF DragSlider, CInv, tickVars
<1>2. CASE TickStopped
  BY <1>2 DEF TickStopped, CInv, tickVars
<1>3. CASE TickLength
  BY <1>3 DEF TickLength, CInv, sliderVars
<1>4. CASE TickPos
  BY <1>4 DEF TickPos, CInv, sliderVars
<1>5. CASE TickStore
  BY <1>5 DEF TickStore, CInv
<1>6. CASE TickSet
  BY <1>6 DEF TickSet
<1>7. CASE TickPlaying
  BY <1>7 DEF TickPlaying, CInv, sliderVars
<1>8. CASE TickCrash
  BY <1>8 DEF TickCrash
<1>9. CASE UNCHANGED <<sliderVars, tickVars>>
  BY <1>9 DEF CInv, sliderVars, tickVars
<1> QED
  BY <1>1, <1>2, <1>3, <1>4, <1>5, <1>6, <1>7, <1>8, <1>9 DEF Next, ControlNext,
     PlayerNext, DisplayNext, vars, controlVars, readVars, timeVars, seekVars,
     sliderVars, tickVars, InitPlayer, PlayerCreate, StreamOpen, LoadPause, LoadAbord,
     LoadStatus, StopAudio, StopClock, StopStatus, OpenFile, SetDuration, AudioOpen,
     StartOver, SeekFrame, ReadFrame, GetPacket, DecodeFrame

LEMMA CInvariance == Spec => []CInv
<1>1. CInv /\ [Next]_vars => CInv'
  BY ControlTypeNext, ReadTypeNext, TimeTypeNext, SeekTypeNext, DisplayTypeNext, QueueNext,
     ClockNext, LengthNext, SeekNext, TickNext DEF CInv, TypeOK
<1> QED
  BY <1>1, CInvInit, PTL DEF Spec

-----------------------------------------------------------------------------
(* The properties                                                            *)

\* The threads' state and what update_tick carries keep their types (src/main.c:92).
THEOREM ClockTypeCorrect == Spec => []TypeOK
  BY CInvariance, PTL DEF CInv

\* Once a packet of the open file was decoded, both times are that file's
\* (player.c:233 and 361).
THEOREM TimesAreTheOpenFiles == Spec => []TimesOfOpenFile
<1>1. CInv => TimesOfOpenFile
  BY DEF CInv, ClockInv, LengthInv, TimesOfOpenFile
<1> QED
  BY <1>1, CInvariance, PTL

\* The position shown stays within its file, and within the length shown but for what
\* the container falls short of the file (main.c:105 to 111, player.c:361).
THEOREM PositionIsWithin == Spec => []ShownWithinLength
<1>1. CInv => ShownWithinLength
  <2> SUFFICES ASSUME CInv, pos_of # NoFile
               PROVE  /\ pos <= Lasts(pos_of)
                      /\ length_of = pos_of => pos < 10 * (length + 1) + Shortfall(pos_of)
    BY DEF ShownWithinLength
  <2>1. pos_of \in Files /\ pos <= Lasts(pos_of)
    BY DEF CInv, TypeOK, DisplayTypeOK, LengthInv, Known
  <2>2. pos \in Int
    BY DEF CInv, TypeOK, DisplayTypeOK
  <2>3. ASSUME length_of = pos_of PROVE pos < 10 * (length + 1) + Shortfall(pos_of)
    <3>1. length = Length(pos_of)
      BY <2>3 DEF CInv, LengthInv
    <3>2. /\ Lasts(pos_of) \in Nat /\ Stated[pos_of] \in Nat /\ Length(pos_of) \in Nat
          /\ Stated[pos_of] < 10 * (Length(pos_of) + 1)
      BY <2>1, LastsIsNat, LengthIsNat
    <3>3. Lasts(pos_of) <= Stated[pos_of] + Shortfall(pos_of) /\ Shortfall(pos_of) \in Nat
      BY <3>2 DEF Shortfall
    <3> QED
      BY <2>1, <2>2, <3>1, <3>2, <3>3
  <2> QED
    BY <2>1, <2>3
<1> QED
  BY <1>1, CInvariance, PTL

\* A seek that met no load is about the open file, and within it (player.c:402).
THEOREM SeekMeetsItsFile == Spec => []SeekFitsItsFile
<1>1. CInv => SeekFitsItsFile
  <2> SUFFICES ASSUME CInv, reader = "loop", seek_req, seek_calm
               PROVE  /\ seek_of \in {file, NoFile} \/ file \in Bare
                      /\ seek_of = file => seek_pos <= 10 * Length(file)
    BY DEF SeekFitsItsFile
  <2>1. file # NoFile
    BY ClockAssumption DEF ClockAssumption, CInv, QueueInv
  <2> QED
    BY <2>1 DEF CInv, SeekInv
<1> QED
  BY <1>1, CInvariance, PTL

\* A slider at a value between 0 and 100 + 5 does not ask for a seek when it is set.
LEMMA NearIsNotFar ==
    ASSUME NEW v \in 0 .. 105, SetValue(v, v)
    PROVE  global_slider_value' = v
<1>1. Clamp(v) - v \in -5 .. 0
  BY DEF Clamp, Upto
<1>2. -5 .. 0 \subseteq -MaxInt .. MaxInt /\ MaxInt \in Nat
  BY ClockAssumption DEF ClockAssumption
<1>3. ~Far(Clamp(v), v)
  BY <1>1, <1>2 DEF Far, ToInt
<1> QED
  BY <1>3 DEF SetValue, Seeks

\* What the display sets is a percentage, but for the cases that NoPercentage names.
LEMMA ShownIsPercentage ==
    ASSUME CInv, tick \in {"set", "zero"}, ~NoPercentage
    PROVE  percent \in 0 .. 105
<1>1. CASE tick = "zero"
  BY <1>1 DEF CInv, TickInv
<1>2. CASE tick = "set"
  <2>1. length_of = pos_of /\ length # 0
    BY <1>2 DEF NoPercentage
  <2>2. pos_of \in Files /\ pos <= Lasts(pos_of) /\ length = Length(pos_of)
    BY <2>1 DEF CInv, TypeOK, DisplayTypeOK, LengthInv, Known
  <2>3. pos \in Nat /\ length \in Nat \ {0} /\ Lasts(pos_of) \in Nat
    BY <2>1, <2>2, LastsIsNat DEF CInv, TypeOK, DisplayTypeOK
  <2>4. 10 * pos < 106 * length
    <3>1. CASE Overlong(pos_of)
      BY <1>2, <2>3, <3>1 DEF NoPercentage
    <3>2. CASE ~Overlong(pos_of)
      BY <2>2, <2>3, <3>2 DEF Overlong
    <3> QED
      BY <3>1, <3>2
  <2> QED
    BY <1>2, <2>1, <2>3, <2>4, PercentBound DEF CInv, TickInv
<1> QED
  BY <1>1, <1>2

\* The display seeks only when it raced the user, or when what it shows is no percentage:
\* the times of two files, or the end of an overlong one (main.c:116 and 227).
THEOREM DisplaySeeksRaced == Spec => DisplaySeeksOnlyIfRaced
<1>1. CInv /\ [Next]_vars =>
        [tick' = "idle" /\ tick \in {"set", "zero"} /\ ~moved /\ ~NoPercentage
            => global_slider_value' = global_slider_value]_vars
  <2> SUFFICES ASSUME CInv, Next, tick' = "idle", tick \in {"set", "zero"}, ~moved,
                      ~NoPercentage
               PROVE  global_slider_value' = global_slider_value
    BY DEF vars
  <2>1. TickSet
    BY PlayerLeavesDisplay
    DEF Next, PlayerNext, DisplayNext, DragSlider, TickStopped, TickPlaying, TickLength, TickPos,
        TickCrash, TickStore, tickVars
  <2>2. global_slider_value = percent /\ percent \in 0 .. 105
    BY ShownIsPercentage DEF CInv, TickInv
  <2> QED
    BY <2>1, <2>2, NearIsNotFar DEF TickSet
<1> QED
  BY <1>1, CInvariance, PTL DEF Spec, DisplaySeeksOnlyIfRaced

\* A song that lasts 17 seconds or more, and no longer than it states, is not overlong:
\* of such a song the display never seeks by itself.
THEOREM LongSongsAreNotOverlong ==
    ASSUME NEW f \in Files, Lasts(f) <= Stated[f], Length(f) >= 17
    PROVE  ~Overlong(f)
<1>1. Lasts(f) \in Nat /\ Stated[f] \in Nat /\ Length(f) \in Nat /\ Stated[f] < 10 * (Length(f) + 1)
  BY LastsIsNat, LengthIsNat
<1>2. 10 * Lasts(f) < 100 * (Length(f) + 1) /\ 100 * (Length(f) + 1) <= 106 * Length(f)
  BY <1>1
<1> QED
  BY <1>1, <1>2 DEF Overlong
=============================================================================
