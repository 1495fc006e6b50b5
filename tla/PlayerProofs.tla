----------------------------- MODULE PlayerProofs -----------------------------
(***************************************************************************)
(* What holds of the player for any set of files and any bounds: an         *)
(* inductive invariant of Player, and the properties it gives.              *)
(***************************************************************************)
EXTENDS Player, TLAPS, SequenceTheorems, FiniteSetTheorems

\* What the read thread works on is there, and it reads no further than the end.
ReaderInv ==
    /\ pc["reader"] # "none" => input_filename \in Files
    /\ pc["reader"] \in Opened => format_ctx \in Files
    /\ pc["reader"] = "put" => read_pos < NPackets

\* Before the first load nothing is open and nothing is queued.
StartInv ==
    pc["reader"] = "none" =>
      /\ player = "none" /\ device = "closed" /\ pc["audio"] = "idle"
      /\ audio_codec_ctx = "null" /\ audio_queue = <<>> /\ audio_pkt_size = 0
      /\ ~alive

\* A load knows its file.
LoadInv ==
    \A t \in Controllers :
      pc[t] \in {"load_pause", "load_flag", "load_name"} => song[t] \in Files

\* The callback copies no more than the buffer holds or the stream wants.
CopyInv ==
    /\ pc["audio"] = "cb_advance" => len1 <= len
    /\ ~resumed_early =>
         /\ pc["reader"] = "reset_size" => audio_buf_index = 0
         /\ audio_buf_index > audio_buf_size => pc["audio"] = "cb_rewind"
         /\ pc["audio"] = "cb_advance" => len1 >= 0 /\ len1 <= audio_buf_size - audio_buf_index

\* From the pause of a load to the end of the reload, the device is not running.
QuietInv ==
    ~resumed_early /\ (ReloadPending \/ pc["reader"] \in Restarting)
    => device # "running" /\ pc["audio"] = "idle"

\* stream_close goes on only after the read thread, and releases only a silent device.
FreeInv ==
    /\ pc["gtk"] \in {"free_wait", "free_pause", "free_release"} => player = "live"
    /\ pc["gtk"] \in {"free_pause", "free_release"} \/ player = "freed" => pc["reader"] = "exited"
    /\ pc["gtk"] = "free_release" \/ player = "freed" => device # "running" /\ pc["audio"] = "idle"
    /\ player = "freed" => pc["gtk"] \in {"free_status", "ended"}

Reopening == {"clean", "open", "dev_close", "dev_closing", "dev_open", "unpause", "open_codec"}

\* Without an open codec there is nothing to decode: no packet is queued, none is in
\* the callback's hands.
DecodeInv ==
    /\ pc["reader"] \in InLoop => audio_codec_ctx = "open"
    /\ pc["audio"] = "cb_decode" => audio_pkt_size > 0 \/ resumed_early
    /\ ~resumed_early /\ player # "freed" =>
         /\ audio_codec_ctx # "open" =>
              audio_queue = <<>> /\ audio_pkt_size <= 0 /\ pc["audio"] # "cb_got"
         /\ pc["reader"] \in Reopening => audio_pkt_size <= 0
    /\ pc["reader"] \in Reopening \ {"clean"} => audio_codec_ctx # "open"
    /\ pc["reader"] \in (Restarting \ {"restart_flush"}) \cup {"open_codec"} => audio_queue = <<>>

\* The callback crashes only if a device was resumed too early.
CrashInv == pc["audio"] = "crashed" => resumed_early

PInv ==
    /\ TypeOK
    /\ ReaderInv
    /\ StartInv
    /\ LoadInv
    /\ CopyInv
    /\ QuietInv
    /\ FreeInv
    /\ DecodeInv
    /\ NoStaleFile
    /\ NoMoreDataMeansEmpty
    /\ CrashInv

-------------------------------------------------------------------------------
\* The names of the threads, as the provers need them.
LEMMA ThreadNames ==
    /\ "reader" \in Threads /\ "audio" \in Threads /\ "gtk" \in Threads /\ "dog" \in Threads
    /\ "gtk" \in Controllers /\ "dog" \in Controllers
    /\ \A t \in Controllers : t \in Threads /\ t # "reader" /\ t # "audio"
    /\ \A t \in Controllers : t = "gtk" \/ t = "dog"
  BY DEF Threads, Controllers

(* The invariant is inductive.  Each lemma takes the steps of one thread, one  *)
(* case per action; a step that a prover cannot take at once, for it mixes     *)
(* Boolean fields with arithmetic, is split by conjunct, its flags typed first. *)

\* The read thread keeps the invariant.
LEMMA ReaderStep == ASSUME PInv, ReaderNext PROVE PInv'
<1> USE DEF Goto, Reset, LoopStep, DeviceStep, ControlUnchanged, AudioUnchanged,
        QueuePut, QueueFlush, PauseAudio, requestVars, readVars, queueVars, pktVars,
        bufVars, flagVars, statusVars, localVars
<1>b1. ASSUME TestAbord PROVE FlagTypeOK'
  BY <1>b1 DEF PInv, TypeOK, FlagTypeOK, TestAbord
<1>b2. ASSUME SeekPut PROVE FlagTypeOK'
  BY <1>b2 DEF PInv, TypeOK, FlagTypeOK, SeekPut
<1>b3. ASSUME SeekFails PROVE FlagTypeOK'
  BY <1>b3 DEF PInv, TypeOK, FlagTypeOK, SeekFails
<1>b4. ASSUME ReadFails PROVE FlagTypeOK'
  BY <1>b4 DEF PInv, TypeOK, FlagTypeOK, ReadFails
<1>b5. ASSUME PutPacket PROVE FlagTypeOK'
  BY <1>b5 DEF PInv, TypeOK, FlagTypeOK, PutPacket
<1> USE ThreadNames
    DEF PInv, TypeOK, PcTypeOK, ReaderPoints, CallbackPoints, GtkPoints, DogPoints, LoadPoints,
        Restarting, InLoop, Opened, Reopening, FlagTypeOK, DataTypeOK, Packets,
        NumberTypeOK, ReaderInv, StartInv, LoadInv, CopyInv, QuietInv, FreeInv, DecodeInv,
        ReloadPending, LoadUnderWay, Resuming, NoStaleFile, NoMoreDataMeansEmpty, CrashInv
<1>1. CASE ResetIndex
  BY <1>1 DEF ResetIndex
<1>2. CASE ResetSize
  BY <1>2 DEF ResetSize
<1>3. CASE ResetPkt
  BY <1>3 DEF ResetPkt
<1>4. CASE Clean
  BY <1>4, BoundsAssumption DEF Clean
<1>5. CASE OpenFile
  BY <1>5 DEF OpenFile
<1>6. CASE OpenFails
  BY <1>6 DEF OpenFails
<1>7. CASE DeviceClose
  BY <1>7 DEF DeviceClose
<1>8. CASE DeviceClosed
  BY <1>8 DEF DeviceClosed
<1>9. CASE DeviceOpen
  BY <1>9 DEF DeviceOpen
<1>10. CASE DeviceOpenFails
  BY <1>10 DEF DeviceOpenFails
\* Either a reload is pending, which the history variable records, or none is.
<1>11. CASE Unpause
  BY <1>11 DEF Unpause
<1>12. CASE OpenCodec
  BY <1>12 DEF OpenCodec
<1>13. CASE OpenCodecFails
  BY <1>13 DEF OpenCodecFails
<1>14. CASE TestQuit
  BY <1>14 DEF TestQuit
\* The request is cleared while the device is paused: QuietInv goes over from the
\* pending request to the restarting thread.
<1>15. CASE TestAbord
  <2>1. FlagTypeOK'
    BY <1>15, <1>b1
  <2>2. PcTypeOK' /\ DataTypeOK' /\ NumberTypeOK'
    BY <1>15 DEF TestAbord
  <2>3. /\ ReaderInv' /\ StartInv' /\ LoadInv' /\ CopyInv' /\ QuietInv' /\ FreeInv' /\ DecodeInv'
        /\ NoStaleFile' /\ NoMoreDataMeansEmpty' /\ CrashInv'
    BY <1>15 DEF TestAbord
  <2> QED
    BY <2>1, <2>2, <2>3 DEF PInv, TypeOK
<1>16. CASE RestartFlush
  BY <1>16 DEF RestartFlush
<1>17. CASE TestSeek
  BY <1>17 DEF TestSeek
<1>18. CASE SeekFlush
  BY <1>18 DEF SeekFlush
<1>19. CASE SeekPut
  <2>1. FlagTypeOK'
    BY <1>19, <1>b2
  <2>2. PcTypeOK' /\ DataTypeOK' /\ NumberTypeOK'
    BY <1>19 DEF SeekPut
  <2>3. /\ ReaderInv' /\ StartInv' /\ LoadInv' /\ CopyInv' /\ QuietInv' /\ FreeInv' /\ DecodeInv'
        /\ NoStaleFile' /\ NoMoreDataMeansEmpty' /\ CrashInv'
    BY <1>19 DEF SeekPut
  <2> QED
    BY <2>1, <2>2, <2>3 DEF PInv, TypeOK
<1>20. CASE SeekFails
  <2>1. FlagTypeOK'
    BY <1>20, <1>b3
  <2>2. PcTypeOK' /\ DataTypeOK' /\ NumberTypeOK'
    BY <1>20 DEF SeekFails
  <2>3. /\ ReaderInv' /\ StartInv' /\ LoadInv' /\ CopyInv' /\ QuietInv' /\ FreeInv' /\ DecodeInv'
        /\ NoStaleFile' /\ NoMoreDataMeansEmpty' /\ CrashInv'
    BY <1>20 DEF SeekFails
  <2> QED
    BY <2>1, <2>2, <2>3 DEF PInv, TypeOK
<1>21. CASE Throttle
  BY <1>21 DEF Throttle
<1>22. CASE ReadFails
  <2>1. FlagTypeOK'
    BY <1>22, <1>b4
  <2>2. PcTypeOK' /\ DataTypeOK' /\ NumberTypeOK'
    BY <1>22 DEF ReadFails
  <2>3. /\ ReaderInv' /\ StartInv' /\ LoadInv' /\ CopyInv' /\ QuietInv' /\ FreeInv' /\ DecodeInv'
        /\ NoStaleFile' /\ NoMoreDataMeansEmpty' /\ CrashInv'
    BY <1>22 DEF ReadFails
  <2> QED
    BY <2>1, <2>2, <2>3 DEF PInv, TypeOK
<1>23. CASE ReadFrame
  BY <1>23 DEF ReadFrame
\* The one put of an audio packet: it is of the open file, whose codec is open.
<1>24. CASE PutPacket
  <2>1. PcTypeOK' /\ FlagTypeOK'
    BY <1>24, <1>b5 DEF PutPacket
  <2>2. DataTypeOK'
    <3>1. [file |-> format_ctx, pos |-> read_pos + 1] \in Packets
      BY <1>24, BoundsAssumption
         DEF PInv, TypeOK, NumberTypeOK, ReaderInv, PutPacket, Opened, InLoop, Packets, AudioPackets
    <3>2. audio_queue' \in Seq(Packets)
      BY <1>24, <3>1, AppendProperties DEF PInv, TypeOK, DataTypeOK, PutPacket
    <3> QED
      BY <1>24, <3>2 DEF PInv, TypeOK, DataTypeOK, PutPacket
  <2>3. NumberTypeOK'
    BY <1>24, BoundsAssumption DEF PutPacket
  <2>4. /\ ReaderInv' /\ StartInv' /\ LoadInv' /\ CopyInv' /\ QuietInv' /\ FreeInv' /\ DecodeInv'
        /\ NoStaleFile' /\ NoMoreDataMeansEmpty' /\ CrashInv'
    BY <1>24 DEF PutPacket
  <2> QED
    BY <2>1, <2>2, <2>3, <2>4 DEF PInv, TypeOK
<1> QED
  BY <1>1, <1>2, <1>3, <1>4, <1>5, <1>6, <1>7, <1>8, <1>9, <1>10, <1>11, <1>12, <1>13,
     <1>14, <1>15, <1>16, <1>17, <1>18, <1>19, <1>20, <1>21, <1>22, <1>23, <1>24 DEF ReaderNext

\* The audio callback keeps it.
LEMMA CallbackStepKeeps == ASSUME PInv, CallbackNext PROVE PInv'
<1> USE DEF Goto, CallbackStep, DecodeStep, StoreSize, QueuePut, QueueFlush,
        requestVars, readVars, queueVars, pktVars, bufVars, flagVars, statusVars,
        localVars
<1>b1. ASSUME GetNothing PROVE FlagTypeOK'
  BY <1>b1 DEF PInv, TypeOK, FlagTypeOK, GetNothing
<1>b2. ASSUME GetPacket PROVE FlagTypeOK'
  BY <1>b2 DEF PInv, TypeOK, FlagTypeOK, GetPacket
<1> USE ThreadNames
    DEF PInv, TypeOK, PcTypeOK, ReaderPoints, CallbackPoints, GtkPoints, DogPoints, LoadPoints,
        Restarting, InLoop, Opened, Reopening, FlagTypeOK, DataTypeOK, Packets,
        NumberTypeOK, ReaderInv, StartInv, LoadInv, CopyInv, QuietInv, FreeInv, DecodeInv,
        ReloadPending, LoadUnderWay, Resuming, NoStaleFile, NoMoreDataMeansEmpty, CrashInv
<1>1. CASE CallbackBegin
  BY <1>1, BoundsAssumption DEF CallbackBegin
<1>2. CASE CheckBuffer
  BY <1>2 DEF CheckBuffer
<1>3. CASE CheckPacket
  BY <1>3 DEF CheckPacket
<1>4. CASE DecodeError
  BY <1>4 DEF DecodeError
<1>5. CASE DecodeNothing
  BY <1>5 DEF DecodeNothing
<1>6. CASE DecodeFrame
  BY <1>6 DEF DecodeFrame
<1>7. CASE GetNothing
  <2>1. FlagTypeOK'
    BY <1>7, <1>b1
  <2>2. PcTypeOK' /\ DataTypeOK' /\ NumberTypeOK'
    BY <1>7 DEF GetNothing
  <2>3. /\ ReaderInv' /\ StartInv' /\ LoadInv' /\ CopyInv' /\ QuietInv' /\ FreeInv' /\ DecodeInv'
        /\ NoStaleFile' /\ NoMoreDataMeansEmpty' /\ CrashInv'
    BY <1>7 DEF GetNothing
  <2> QED
    BY <2>1, <2>2, <2>3 DEF PInv, TypeOK
<1>8. CASE GetPacket
  <2>1. FlagTypeOK'
    BY <1>8, <1>b2
  <2>2. PcTypeOK' /\ DataTypeOK' /\ NumberTypeOK'
    BY <1>8 DEF GetPacket
  <2>3. /\ ReaderInv' /\ StartInv' /\ LoadInv' /\ CopyInv' /\ QuietInv' /\ FreeInv' /\ DecodeInv'
        /\ NoStaleFile' /\ NoMoreDataMeansEmpty' /\ CrashInv'
    BY <1>8 DEF GetPacket
  <2> QED
    BY <2>1, <2>2, <2>3 DEF PInv, TypeOK
<1>9. CASE GotFlush
  BY <1>9 DEF GotFlush
<1>10. CASE GotPacket
  BY <1>10 DEF GotPacket
\* Without a codec there is nothing to decode (DecodeInv), unless resumed too early.
<1>11. CASE CrashOnCodec
  BY <1>11 DEF CrashOnCodec
<1>12. CASE StoreFrame
  BY <1>12, BoundsAssumption DEF StoreFrame
<1>13. CASE StoreSilence
  BY <1>13, BoundsAssumption DEF StoreSilence
<1>14. CASE Rewind
  BY <1>14 DEF Rewind
\* What is copied fits: no reset of the reader can come between (QuietInv).
<1>15. CASE CopyOut
  BY <1>15 DEF CopyOut
<1>16. CASE Advance
  BY <1>16 DEF Advance
\* len1 is negative only if resumed too early (CopyInv).
<1>17. CASE CrashOnCopy
  BY <1>17 DEF CrashOnCopy
<1> QED
  BY <1>1, <1>2, <1>3, <1>4, <1>5, <1>6, <1>7, <1>8, <1>9, <1>10, <1>11, <1>12, <1>13,
     <1>14, <1>15, <1>16, <1>17 DEF CallbackNext

\* The calls of the GTK thread and of the watchdog keep it.
LEMMA ControlStep == ASSUME PInv, ControlNext PROVE PInv'
<1> USE DEF Goto, LoadBegin, DataUnchanged, CallUnchanged, GtkUnchanged, QueueFlush,
        PauseAudio, requestVars, readVars, queueVars, pktVars, bufVars, flagVars,
        statusVars, localVars
<1>b1. ASSUME PauseDevice PROVE FlagTypeOK'
  BY <1>b1 DEF PInv, TypeOK, FlagTypeOK, Resuming, PauseDevice
<1>b2. ASSUME FreeStatus PROVE FlagTypeOK'
  BY <1>b2 DEF PInv, TypeOK, FlagTypeOK, FreeStatus
<1>b3. ASSUME NEW t \in Controllers, LoadFlag(t) PROVE FlagTypeOK'
  BY <1>b3 DEF PInv, TypeOK, FlagTypeOK, LoadFlag
<1> USE ThreadNames
    DEF PInv, TypeOK, PcTypeOK, ReaderPoints, CallbackPoints, GtkPoints, DogPoints, LoadPoints,
        Restarting, InLoop, Opened, Reopening, FlagTypeOK, DataTypeOK, Packets,
        NumberTypeOK, ReaderInv, StartInv, LoadInv, CopyInv, QuietInv, FreeInv, DecodeInv,
        ReloadPending, LoadUnderWay, Resuming, NoStaleFile, NoMoreDataMeansEmpty, CrashInv
<1>1. ASSUME NEW f \in Files, InitPlayer(f) PROVE PInv'
  BY <1>1 DEF InitPlayer
<1>2. ASSUME NEW f \in Files, LoadSong(f) PROVE PInv'
  BY <1>2 DEF LoadSong
<1>3. ASSUME NEW f \in Files, DogLoad(f) PROVE PInv'
  BY <1>3 DEF DogLoad
\* SDL_PauseAudio leaves the device paused and the callback idle: QuietInv begins.
<1>4. ASSUME NEW t \in Controllers, LoadPause(t) PROVE PInv'
  BY <1>4 DEF LoadPause
<1>5. ASSUME NEW t \in Controllers, LoadFlag(t) PROVE PInv'
  <2>1. FlagTypeOK'
    BY <1>5, <1>b3
  <2>2. PcTypeOK' /\ DataTypeOK' /\ NumberTypeOK'
    BY <1>5 DEF LoadFlag
  <2>3. /\ ReaderInv' /\ StartInv' /\ LoadInv' /\ CopyInv' /\ QuietInv' /\ FreeInv' /\ DecodeInv'
        /\ NoStaleFile' /\ NoMoreDataMeansEmpty' /\ CrashInv'
    BY <1>5 DEF LoadFlag
  <2> QED
    BY <2>1, <2>2, <2>3 DEF PInv, TypeOK
<1>6. ASSUME NEW t \in Controllers, LoadName(t) PROVE PInv'
  BY <1>6 DEF LoadName
<1>7. ASSUME NEW t \in Controllers, LoadAbord(t) PROVE PInv'
  BY <1>7 DEF LoadAbord
<1>8. ASSUME NEW t \in Controllers, LoadStatus(t) PROVE PInv'
  BY <1>8 DEF LoadStatus
<1>9. CASE StopSong
  BY <1>9 DEF StopSong
<1>10. CASE StopPause
  BY <1>10 DEF StopPause
<1>11. CASE StopFlush
  BY <1>11 DEF StopFlush
<1>12. CASE StopStatus
  BY <1>12 DEF StopStatus
<1>13. CASE PauseSong
  BY <1>13 DEF PauseSong
\* A resume during a reload is recorded, a pause disturbs nothing.
<1>14. CASE PauseDevice
  <2>1. FlagTypeOK'
    BY <1>14, <1>b1
  <2>2. PcTypeOK' /\ DataTypeOK' /\ NumberTypeOK'
    BY <1>14 DEF PauseDevice
  <2>3. /\ ReaderInv' /\ StartInv' /\ LoadInv' /\ CopyInv' /\ QuietInv' /\ FreeInv' /\ DecodeInv'
        /\ NoStaleFile' /\ NoMoreDataMeansEmpty' /\ CrashInv'
    <3>1. CASE paused
      BY <1>14, <3>1 DEF PauseDevice
    <3>2. CASE ~paused
      BY <1>14, <3>2 DEF PauseDevice
    <3> QED
      BY <3>1, <3>2
  <2> QED
    BY <2>1, <2>2, <2>3 DEF PInv, TypeOK
<1>15. CASE Seek
  BY <1>15 DEF Seek
<1>16. CASE FreePlayer
  BY <1>16 DEF FreePlayer
<1>17. CASE FreeWait
  BY <1>17 DEF FreeWait
<1>18. CASE FreePause
  BY <1>18 DEF FreePause
\* Nobody is left: the read thread has exited, the device was paused (FreeInv).
<1>19. CASE FreeRelease
  BY <1>19 DEF FreeRelease
<1>20. CASE FreeStatus
  <2>1. FlagTypeOK'
    BY <1>20, <1>b2
  <2>2. PcTypeOK' /\ DataTypeOK' /\ NumberTypeOK'
    BY <1>20 DEF FreeStatus
  <2>3. /\ ReaderInv' /\ StartInv' /\ LoadInv' /\ CopyInv' /\ QuietInv' /\ FreeInv' /\ DecodeInv'
        /\ NoStaleFile' /\ NoMoreDataMeansEmpty' /\ CrashInv'
    BY <1>20 DEF FreeStatus
  <2> QED
    BY <2>1, <2>2, <2>3 DEF PInv, TypeOK
<1>21. CASE DogPoll
  BY <1>21 DEF DogPoll
<1>22. CASE DogReturns
  BY <1>22 DEF DogReturns
<1> QED
  BY <1>1, <1>2, <1>3, <1>4, <1>5, <1>6, <1>7, <1>8, <1>9, <1>10, <1>11, <1>12, <1>13,
     <1>14, <1>15, <1>16, <1>17, <1>18, <1>19, <1>20, <1>21, <1>22 DEF ControlNext

-------------------------------------------------------------------------------
(* The invariant, and what follows from it.                                 *)

\* Nothing runs yet.
LEMMA InitPInv == Init => PInv
<1> SUFFICES ASSUME Init PROVE PInv
  OBVIOUS
<1>1. audio_queue \in Seq(Packets)
  BY EmptySeq DEF Init
<1>2. PcTypeOK
  BY ThreadNames DEF Init, PcTypeOK, ReaderPoints, CallbackPoints, GtkPoints, DogPoints, LoadPoints
<1>3. FlagTypeOK
  BY DEF Init, FlagTypeOK
<1>4. DataTypeOK
  BY <1>1 DEF Init, DataTypeOK
<1>5. NumberTypeOK
  BY BoundsAssumption DEF Init, NumberTypeOK
<1>6. pc["reader"] = "none" /\ \A t \in Threads : t # "reader" => pc[t] = "idle"
  BY ThreadNames DEF Init
<1>7. ReaderInv /\ StartInv /\ NoStaleFile
  BY <1>6, ThreadNames DEF Init, ReaderInv, StartInv, NoStaleFile, Opened, InLoop
<1>8. LoadInv /\ CopyInv /\ FreeInv
  BY <1>6, ThreadNames DEF Init, LoadInv, CopyInv, FreeInv
<1>9. QuietInv /\ DecodeInv
  BY <1>6, ThreadNames
     DEF Init, QuietInv, DecodeInv, Restarting, InLoop, Reopening
<1>10. NoMoreDataMeansEmpty /\ CrashInv
  BY <1>6, ThreadNames DEF Init, NoMoreDataMeansEmpty, CrashInv
<1> QED
  BY <1>2, <1>3, <1>4, <1>5, <1>7, <1>8, <1>9, <1>10 DEF PInv, TypeOK

\* Every step of every thread, and stuttering, keeps the invariant.
LEMMA NextPInv == PInv /\ [Next]_vars => PInv'
<1> SUFFICES ASSUME PInv, [Next]_vars PROVE PInv'
  OBVIOUS
<1>1. CASE ReaderNext
  BY <1>1, ReaderStep
<1>2. CASE CallbackNext
  BY <1>2, CallbackStepKeeps
<1>3. CASE ControlNext
  BY <1>3, ControlStep
<1>4. CASE UNCHANGED vars
  <2> USE <1>4 DEF vars, requestVars, readVars, queueVars, pktVars, bufVars, flagVars,
                   statusVars, localVars
  <2>1. TypeOK'
    BY DEF PInv, TypeOK, PcTypeOK, FlagTypeOK, DataTypeOK, NumberTypeOK
  <2>2. ReaderInv' /\ StartInv' /\ LoadInv' /\ CopyInv' /\ FreeInv' /\ DecodeInv'
    BY DEF PInv, ReaderInv, StartInv, LoadInv, CopyInv, FreeInv, DecodeInv
  <2>3. QuietInv' /\ NoStaleFile' /\ NoMoreDataMeansEmpty' /\ CrashInv'
    BY DEF PInv, QuietInv, ReloadPending, LoadUnderWay, NoStaleFile, NoMoreDataMeansEmpty,
           CrashInv
  <2> QED
    BY <2>1, <2>2, <2>3 DEF PInv
<1> QED
  BY <1>1, <1>2, <1>3, <1>4 DEF Next

\* The inductive invariant holds in every reachable state of the player.
THEOREM PlayerInvariance == Spec => []PInv
<1> QED
  BY InitPInv, NextPInv, PTL DEF Spec

\* Every variable of the player stays in its range.
THEOREM PlayerTypeCorrect == Spec => []TypeOK
<1>1. PInv => TypeOK
  BY DEF PInv
<1> QED
  BY <1>1, PlayerInvariance, PTL

\* The read thread never settles on another file than the one asked for last, for
\* any interleaving of cp_load_file, on two threads, with read_thread.
THEOREM LoadsAreNotLost == Spec => []NoStaleFile
<1>1. PInv => NoStaleFile
  BY DEF PInv
<1> QED
  BY <1>1, PlayerInvariance, PTL

\* The watchdog's flag is never up over a queue that holds a packet, although
\* cp_load_file, cp_stop_audio, a seek and a reload touch one or the other.
THEOREM PollIsTruthful == Spec => []NoMoreDataMeansEmpty
<1>1. PInv => NoMoreDataMeansEmpty
  BY DEF PInv
<1> QED
  BY <1>1, PlayerInvariance, PTL

\* The audio_close of cp_load_file keeps the callback out of a reload, as long as
\* nobody resumes the device while a reload is pending.
THEOREM ReloadIsQuiet == Spec => []QuietRestart
<1>1. PInv => QuietRestart
  BY DEF PInv, QuietInv, QuietRestart
<1> QED
  BY <1>1, PlayerInvariance, PTL

\* stream_close frees the AudioState only when no thread is left to use it.
THEOREM ReleaseIsSafe == Spec => []ReleasedUnused
<1>1. PInv => ReleasedUnused
  BY DEF PInv, FreeInv, ReleasedUnused
<1> QED
  BY <1>1, PlayerInvariance, PTL

-------------------------------------------------------------------------------
(* The queue: what is in it, in which order, and how much.                  *)

\* q holds packets of f up to position n, in order, behind at most one flush packet.
Ordered(q, f, n) ==
    \A i \in DOMAIN q : \/ q[i] = [file |-> f, pos |-> n - Len(q) + i]
                        \/ q[i] = FlushPkt /\ i = 1

\* How many flush packets that are.
Front(q) == IF q # <<>> /\ q[1] = FlushPkt THEN 1 ELSE 0

Data(q) == {i \in DOMAIN q : q[i] # FlushPkt}

\* A packet of a file is no flush packet.
LEMMA FilePacket ==
    ASSUME NEW f, NEW n
    PROVE  [file |-> f, pos |-> n] # FlushPkt
<1>1. "file" \in DOMAIN [file |-> f, pos |-> n] /\ "file" \notin DOMAIN FlushPkt
  BY DEF FlushPkt
<1> QED
  BY <1>1

LEMMA OrderedSize ==
    ASSUME NEW q \in Seq(Packets), NEW f, NEW n, Ordered(q, f, n)
    PROVE  Cardinality(Data(q)) = Len(q) - Front(q)
<1>1. Len(q) \in Nat /\ DOMAIN q = 1 .. Len(q) /\ (q = <<>> <=> Len(q) = 0)
  BY LenProperties, EmptySeq
<1>2. Front(q) \in {0, 1}
  BY DEF Front
<1>3. \A i \in 1 .. Len(q) : q[i] # FlushPkt <=> i >= Front(q) + 1
  BY <1>1, FilePacket DEF Ordered, Front
<1>4. Data(q) = Front(q) + 1 .. Len(q)
  BY <1>1, <1>2, <1>3 DEF Data
<1>5. Len(q) = 0 => Front(q) = 0
  BY <1>1 DEF Front
<1>6. Cardinality(Front(q) + 1 .. Len(q)) =
        IF Front(q) + 1 > Len(q) THEN 0 ELSE Len(q) - (Front(q) + 1) + 1
  BY <1>1, <1>2, FS_Interval
<1> QED
  BY <1>1, <1>2, <1>4, <1>5, <1>6

LEMMA OrderedEmpty ==
    ASSUME NEW f, NEW n
    PROVE  Ordered(<<>>, f, n) /\ Cardinality(Data(<<>>)) = 0
<1>1. DOMAIN <<>> = {}
  OBVIOUS
<1>2. Data(<<>>) = {}
  BY <1>1 DEF Data
<1> QED
  BY <1>1, <1>2, FS_EmptySet DEF Ordered

LEMMA OrderedTail ==
    ASSUME NEW q \in Seq(Packets), q # <<>>, NEW f, NEW n \in Int, Ordered(q, f, n)
    PROVE  Ordered(Tail(q), f, n)
<1>1. /\ Tail(q) \in Seq(Packets) /\ Len(Tail(q)) = Len(q) - 1
      /\ \A i \in 1 .. Len(Tail(q)) : Tail(q)[i] = q[i + 1]
  BY HeadTailProperties
<1>2. Len(q) \in Nat /\ DOMAIN q = 1 .. Len(q) /\ DOMAIN Tail(q) = 1 .. Len(q) - 1
  BY <1>1, LenProperties
<1>3. ASSUME NEW i \in 1 .. Len(q) - 1
      PROVE  Tail(q)[i] = [file |-> f, pos |-> n - Len(Tail(q)) + i]
  <2>1. i + 1 \in DOMAIN q /\ i + 1 # 1
    BY <1>2, <1>3
  <2>2. q[i + 1] = [file |-> f, pos |-> n - Len(q) + (i + 1)]
    BY <2>1 DEF Ordered
  <2>3. n - Len(q) + (i + 1) = n - Len(Tail(q)) + i
    BY <1>1, <1>2, <1>3
  <2> QED
    BY <1>1, <1>3, <2>2, <2>3
<1> QED
  BY <1>2, <1>3 DEF Ordered

LEMMA OrderedAppend ==
    ASSUME NEW q \in Seq(Packets), NEW f \in Files, NEW n \in Int, n + 1 \in 1 .. NPackets,
           Ordered(q, f, n)
    PROVE  Ordered(Append(q, [file |-> f, pos |-> n + 1]), f, n + 1)
<1> DEFINE p == [file |-> f, pos |-> n + 1]
           r == Append(q, p)
<1>1. p \in Packets
  BY DEF Packets, AudioPackets
<1>2. /\ r \in Seq(Packets) /\ Len(r) = Len(q) + 1
      /\ \A i \in 1 .. Len(q) : r[i] = q[i]
      /\ r[Len(q) + 1] = p
  BY <1>1, AppendProperties
<1>3. Len(q) \in Nat /\ DOMAIN q = 1 .. Len(q) /\ DOMAIN r = 1 .. Len(q) + 1
  BY <1>2, LenProperties
<1> HIDE DEF r
<1>4. ASSUME NEW i \in 1 .. Len(q) + 1
      PROVE  \/ r[i] = [file |-> f, pos |-> (n + 1) - Len(r) + i]
             \/ r[i] = FlushPkt /\ i = 1
  <2>1. CASE i = Len(q) + 1
    <3>1. (n + 1) - Len(r) + i = n + 1
      BY <1>2, <1>3, <2>1
    <3> QED
      BY <1>2, <2>1, <3>1
  <2>2. CASE i # Len(q) + 1
    <3>1. i \in 1 .. Len(q) /\ (n + 1) - Len(r) + i = n - Len(q) + i
      BY <1>2, <1>3, <1>4, <2>2
    <3>2. r[i] = q[i]
      BY <1>2, <3>1
    <3> QED
      BY <1>3, <3>1, <3>2 DEF Ordered
  <2> QED
    BY <2>1, <2>2
<1>5. Ordered(r, f, n + 1)
  BY <1>3, <1>4 DEF Ordered
<1> QED
  BY <1>5 DEF r

LEMMA OrderedFlush ==
    ASSUME NEW f, NEW n
    PROVE  Ordered(Append(<<>>, FlushPkt), f, n) /\ Cardinality(Data(Append(<<>>, FlushPkt))) = 0
<1>1. Append(<<>>, FlushPkt) = <<FlushPkt>>
  OBVIOUS
<1>2. DOMAIN <<FlushPkt>> = {1} /\ <<FlushPkt>>[1] = FlushPkt
  OBVIOUS
<1>3. Data(<<FlushPkt>>) = {}
  BY <1>2 DEF Data
<1> QED
  BY <1>1, <1>2, <1>3, FS_EmptySet DEF Ordered

\* A get takes a packet of the file off, or the flush packet; a put adds one.
LEMMA TailSize ==
    ASSUME NEW q \in Seq(Packets), q # <<>>, NEW f, NEW n \in Int, Ordered(q, f, n)
    PROVE  /\ Front(Tail(q)) = 0
           /\ Cardinality(Data(Tail(q))) = Cardinality(Data(q)) - (1 - Front(q))
<1>1. /\ Tail(q) \in Seq(Packets) /\ Len(Tail(q)) = Len(q) - 1
      /\ \A i \in 1 .. Len(Tail(q)) : Tail(q)[i] = q[i + 1]
  BY HeadTailProperties
<1>2. Len(q) \in Nat \ {0} /\ DOMAIN q = 1 .. Len(q) /\ (Tail(q) # <<>> => Len(q) - 1 # 0)
  BY <1>1, LenProperties, EmptySeq
<1>3. Tail(q) # <<>> => Tail(q)[1] # FlushPkt
  <2> SUFFICES ASSUME Tail(q) # <<>> PROVE Tail(q)[1] # FlushPkt
    OBVIOUS
  <2>1. Tail(q)[1] = q[2] /\ 2 \in DOMAIN q
    BY <1>1, <1>2
  <2>2. q[2] = [file |-> f, pos |-> n - Len(q) + 2]
    BY <2>1 DEF Ordered
  <2> QED
    BY <2>1, <2>2, FilePacket
<1>4. Front(Tail(q)) = 0
  BY <1>3 DEF Front
<1>5. Cardinality(Data(q)) = Len(q) - Front(q)
  BY OrderedSize
<1>6. Cardinality(Data(Tail(q))) = Len(Tail(q)) - Front(Tail(q))
  BY <1>1, OrderedTail, OrderedSize
<1>7. Front(q) \in {0, 1}
  BY DEF Front
<1> QED
  BY <1>1, <1>2, <1>4, <1>5, <1>6, <1>7

LEMMA AppendSize ==
    ASSUME NEW q \in Seq(Packets), NEW f \in Files, NEW n \in Int, n + 1 \in 1 .. NPackets,
           Ordered(q, f, n)
    PROVE  Cardinality(Data(Append(q, [file |-> f, pos |-> n + 1]))) = Cardinality(Data(q)) + 1
<1> DEFINE p == [file |-> f, pos |-> n + 1]
           r == Append(q, p)
<1>1. p \in Packets /\ p # FlushPkt
  BY FilePacket DEF Packets, AudioPackets
<1>2. /\ r \in Seq(Packets) /\ r # <<>> /\ Len(r) = Len(q) + 1
      /\ \A i \in 1 .. Len(q) : r[i] = q[i]
      /\ r[Len(q) + 1] = p
  BY <1>1, AppendProperties
<1>3. Len(q) \in Nat /\ (q = <<>> <=> Len(q) = 0)
  BY LenProperties, EmptySeq
<1>4. Ordered(r, f, n + 1)
  BY OrderedAppend
<1> HIDE DEF r
<1>5. Front(r) = Front(q)
  <2>1. CASE q = <<>>
    BY <1>1, <1>2, <1>3, <2>1 DEF Front
  <2>2. CASE q # <<>>
    BY <1>2, <1>3, <2>2 DEF Front
  <2> QED
    BY <2>1, <2>2
<1>6. Cardinality(Data(r)) = Len(r) - Front(r) /\ Cardinality(Data(q)) = Len(q) - Front(q)
  BY <1>2, <1>4, OrderedSize
<1>7. Front(q) \in {0, 1}
  BY DEF Front
<1>8. Cardinality(Data(r)) = Cardinality(Data(q)) + 1
  BY <1>2, <1>3, <1>5, <1>6, <1>7
<1> QED
  BY <1>8 DEF r

\* What is queued is of the open file, in order.
OrderInv == Ordered(audio_queue, format_ctx, read_pos)

\* Between the two operations of a seek the queue is empty, a seek is done only on
\* request, and a file is opened from its start.
SeekInv ==
    /\ pc["reader"] = "seek_put" => audio_queue = <<>>
    /\ pc["reader"] = "seek" => seek_req
    /\ pc["reader"] = "open" => format_ctx = NULL /\ read_pos = 0

\* The test of the size holds until the put that follows it.
LimitInv ==
    /\ pc["reader"] = "put" => QueueSize <= MaxQueue
    /\ QueueBounded

\* What the callback has in hand, or just got, is a packet of the open file.
InHand == \E n \in 1 .. NPackets : audio_pkt = [file |-> format_ctx, pos |-> n]

PacketInv ==
    ~resumed_early =>
      /\ audio_pkt_size > 0 /\ player # "freed" => InHand
      /\ pc["audio"] = "cb_got" /\ audio_pkt # FlushPkt => InHand
      /\ pc["audio"] \in {"cb_get", "cb_got"} => audio_pkt_size <= 0

SInv == OrderInv /\ SeekInv /\ LimitInv /\ PacketInv

\* The steps that leave the open file, its position and the queue alone.
QueueKept == UNCHANGED <<audio_queue, read_pos, format_ctx>>

\* The ones that do not.
QueueSteps ==
    \/ RestartFlush \/ StopFlush \/ SeekFlush \/ SeekPut \/ PutPacket \/ GetPacket
    \/ Clean \/ OpenFile \/ OpenFails \/ FreeRelease

LEMMA QueueEffect == ASSUME [Next]_vars PROVE QueueKept \/ QueueSteps
<1> USE DEF QueueKept, QueueSteps, requestVars, readVars, queueVars, pktVars, bufVars, flagVars,
            statusVars, localVars
<1>1. CASE ReaderNext
  BY <1>1 DEF ReaderNext, ResetIndex, ResetSize, ResetPkt, DeviceClose, DeviceClosed, DeviceOpen,
     DeviceOpenFails, Unpause, OpenCodec, OpenCodecFails, TestQuit, TestAbord, TestSeek,
     SeekFails, Throttle, ReadFails, ReadFrame, Reset, LoopStep, DeviceStep
<1>2. CASE CallbackNext
  BY <1>2 DEF CallbackNext, CallbackBegin, CheckBuffer, CheckPacket, DecodeError, DecodeNothing,
     DecodeFrame, GetNothing, GotFlush, GotPacket, CrashOnCodec, StoreFrame, StoreSilence,
     Rewind, CopyOut, Advance, CrashOnCopy, CallbackStep, DecodeStep, StoreSize
<1>3. CASE ControlNext
  BY <1>3 DEF ControlNext, InitPlayer, LoadSong, DogLoad, LoadBegin, LoadPause, LoadFlag, LoadName,
     LoadAbord, LoadStatus, StopSong, StopPause, StopStatus, PauseSong, PauseDevice, Seek,
     FreePlayer, FreeWait, FreePause, FreeStatus, DogPoll, DogReturns, DataUnchanged,
     CallUnchanged, GtkUnchanged
<1>4. CASE UNCHANGED vars
  BY <1>4 DEF vars
<1> QED
  BY <1>1, <1>2, <1>3, <1>4 DEF Next

\* No step brings the queue out of order.
LEMMA OrderStep == ASSUME PInv, SInv, [Next]_vars PROVE OrderInv'
<1> USE DEF OrderInv
<1>1. /\ audio_queue \in Seq(Packets) /\ read_pos \in Int
      /\ Ordered(audio_queue, format_ctx, read_pos)
  BY BoundsAssumption DEF PInv, TypeOK, DataTypeOK, NumberTypeOK, SInv
<1>2. CASE audio_queue' = <<>>
  BY <1>2, OrderedEmpty
<1>3. CASE QueueKept
  BY <1>1, <1>3 DEF QueueKept
\* A seek puts its flush packet into an empty queue.
<1>4. CASE SeekPut
  <2>1. audio_queue = <<>>
    BY <1>4 DEF SInv, SeekInv, SeekPut, LoopStep, Goto
  <2>2. audio_queue' = Append(<<>>, FlushPkt)
    BY <1>4, <2>1 DEF SeekPut, QueuePut
  <2> QED
    BY <2>2, OrderedFlush
<1>5. CASE PutPacket
  <2>1. /\ audio_queue' = Append(audio_queue, [file |-> format_ctx, pos |-> read_pos + 1])
        /\ format_ctx' = format_ctx /\ read_pos' = read_pos + 1
    BY <1>5 DEF PutPacket, LoopStep, QueuePut
  <2>2. format_ctx \in Files /\ read_pos + 1 \in 1 .. NPackets
    BY <1>5, BoundsAssumption DEF PInv, TypeOK, NumberTypeOK, ReaderInv, PutPacket, LoopStep, Goto, Opened, InLoop
  <2> QED
    BY <1>1, <2>1, <2>2, OrderedAppend
<1>6. CASE GetPacket
  <2>1. /\ audio_queue # <<>> /\ audio_queue' = Tail(audio_queue)
        /\ format_ctx' = format_ctx /\ read_pos' = read_pos
    BY <1>6 DEF GetPacket, CallbackStep, readVars
  <2> QED
    BY <1>1, <2>1, OrderedTail
<1>7. CASE Clean \/ OpenFile \/ OpenFails
  <2>1. audio_queue = <<>>
    BY <1>7 DEF PInv, DecodeInv, Restarting, Clean, OpenFile, OpenFails, Goto
  <2>2. audio_queue' = audio_queue
    BY <1>7 DEF Clean, OpenFile, OpenFails, queueVars
  <2> QED
    BY <1>2, <2>1, <2>2
<1>8. CASE RestartFlush \/ StopFlush \/ SeekFlush \/ FreeRelease
  BY <1>2, <1>8 DEF RestartFlush, StopFlush, SeekFlush, FreeRelease, QueueFlush
<1> QED
  BY <1>3, <1>4, <1>5, <1>6, <1>7, <1>8, QueueEffect DEF QueueSteps

\* A seek finds what it needs.
LEMMA SeekStep == ASSUME PInv, SInv, [Next]_vars PROVE SeekInv'
<1> USE ThreadNames
    DEF SInv, SeekInv, Goto, requestVars, readVars, queueVars, pktVars, bufVars, flagVars,
        statusVars, localVars, QueueFlush, QueuePut
<1>0. pc = [t \in Threads |-> pc[t]]
  BY DEF PInv, TypeOK, PcTypeOK
<1>1. CASE ReaderNext
  BY <1>0, <1>1 DEF ReaderNext, ResetIndex, ResetSize, ResetPkt, Clean, OpenFile, OpenFails,
     DeviceClose, DeviceClosed, DeviceOpen, DeviceOpenFails, Unpause, OpenCodec, OpenCodecFails,
     TestQuit, TestAbord, RestartFlush, TestSeek, SeekFlush, SeekPut, SeekFails, Throttle,
     ReadFails, ReadFrame, PutPacket, Reset, LoopStep, DeviceStep
<1>2. CASE CallbackNext
  <2>1. UNCHANGED <<pc["reader"], seek_req, format_ctx, read_pos>>
    BY <1>0, <1>2 DEF CallbackNext, CallbackBegin, CheckBuffer, CheckPacket, DecodeError,
       DecodeNothing, DecodeFrame, GetNothing, GetPacket, GotFlush, GotPacket, CrashOnCodec,
       StoreFrame, StoreSilence, Rewind, CopyOut, Advance, CrashOnCopy, CallbackStep, DecodeStep,
       StoreSize
  <2>2. audio_queue = <<>> => audio_queue' = <<>>
    BY <1>2, QueueEffect DEF QueueKept, CallbackNext, CallbackBegin, CheckBuffer, CheckPacket,
       DecodeError, DecodeNothing, DecodeFrame, GetNothing, GetPacket, GotFlush, GotPacket,
       CrashOnCodec, StoreFrame, StoreSilence, Rewind, CopyOut, Advance, CrashOnCopy, DecodeStep,
       StoreSize
  <2> QED
    BY <2>1, <2>2
<1>3. CASE ControlNext
  <2>1. CASE \E f \in Files : InitPlayer(f)
    BY <1>0, <2>1 DEF InitPlayer
  <2>2. CASE FreeRelease
    BY <1>0, <2>2 DEF FreeRelease, PInv, FreeInv
  <2>3. CASE ~(\E f \in Files : InitPlayer(f)) /\ ~FreeRelease
    <3>1. UNCHANGED <<pc["reader"], format_ctx, read_pos>> /\ (seek_req => seek_req')
          /\ (audio_queue = <<>> => audio_queue' = <<>>)
      BY <1>0, <1>3, <2>3 DEF ControlNext, LoadSong, DogLoad, LoadBegin, LoadPause, LoadFlag,
         LoadName, LoadAbord, LoadStatus, StopSong, StopPause, StopFlush, StopStatus, PauseSong,
         PauseDevice, Seek, FreePlayer, FreeWait, FreePause, FreeStatus, DogPoll, DogReturns,
         DataUnchanged, CallUnchanged, GtkUnchanged
    <3> QED
      BY <3>1
  <2> QED
    BY <2>1, <2>2, <2>3
<1>4. CASE UNCHANGED vars
  BY <1>4 DEF vars
<1> QED
  BY <1>1, <1>2, <1>3, <1>4 DEF Next

\* The size of the queue, and what a put and a get make of it.
LEMMA QueueSizes ==
    ASSUME PInv, SInv
    PROVE  /\ QueueSize \in Nat /\ QueueSize = Len(audio_queue) - Front(audio_queue)
           /\ QueueSize <= Len(audio_queue)
           /\ audio_queue = <<>> => QueueSize = 0
           /\ audio_queue' = audio_queue => QueueSize' = QueueSize
           /\ audio_queue' = <<>> => QueueSize' = 0
           /\ SeekPut => QueueSize = 0 /\ QueueSize' = 0
           /\ PutPacket => QueueSize' = QueueSize + 1
           /\ GetPacket => QueueSize' = QueueSize - (1 - Front(audio_queue))
<1>1. /\ audio_queue \in Seq(Packets) /\ read_pos \in Int
      /\ Ordered(audio_queue, format_ctx, read_pos)
  BY BoundsAssumption DEF PInv, TypeOK, DataTypeOK, NumberTypeOK, SInv, OrderInv
<1>2. QueueSize = Cardinality(Data(audio_queue)) /\ QueueSize' = Cardinality(Data(audio_queue'))
  BY DEF QueueSize, Data
<1>3. /\ QueueSize \in Nat /\ QueueSize = Len(audio_queue) - Front(audio_queue)
      /\ QueueSize <= Len(audio_queue)
  <2>1. QueueSize = Len(audio_queue) - Front(audio_queue)
    BY <1>1, <1>2, OrderedSize
  <2>2. Len(audio_queue) \in Nat /\ (audio_queue # <<>> => Len(audio_queue) # 0)
    BY <1>1, LenProperties, EmptySeq
  <2>3. Front(audio_queue) \in {0, 1} /\ (audio_queue = <<>> => Front(audio_queue) = 0)
    BY DEF Front
  <2> QED
    BY <2>1, <2>2, <2>3
<1>4. (audio_queue = <<>> => QueueSize = 0) /\ (audio_queue' = <<>> => QueueSize' = 0)
  BY <1>2, OrderedEmpty
<1>5. audio_queue' = audio_queue => QueueSize' = QueueSize
  BY <1>2
<1>6. ASSUME SeekPut PROVE QueueSize = 0 /\ QueueSize' = 0
  <2>1. audio_queue = <<>>
    BY <1>6 DEF SInv, SeekInv, SeekPut, LoopStep, Goto
  <2>2. audio_queue' = Append(<<>>, FlushPkt)
    BY <1>6, <2>1 DEF SeekPut, QueuePut
  <2> QED
    BY <1>2, <1>4, <2>1, <2>2, OrderedFlush
<1>7. ASSUME PutPacket PROVE QueueSize' = QueueSize + 1
  <2>1. audio_queue' = Append(audio_queue, [file |-> format_ctx, pos |-> read_pos + 1])
    BY <1>7 DEF PutPacket, QueuePut
  <2>2. format_ctx \in Files /\ read_pos + 1 \in 1 .. NPackets
    BY <1>7, BoundsAssumption
       DEF PInv, TypeOK, NumberTypeOK, ReaderInv, PutPacket, LoopStep, Goto, Opened, InLoop
  <2> QED
    BY <1>1, <1>2, <2>1, <2>2, AppendSize
<1>8. ASSUME GetPacket PROVE QueueSize' = QueueSize - (1 - Front(audio_queue))
  <2>1. audio_queue # <<>> /\ audio_queue' = Tail(audio_queue)
    BY <1>8 DEF GetPacket
  <2> QED
    BY <1>1, <1>2, <2>1, TailSize
<1> QED
  BY <1>3, <1>4, <1>5, <1>6, <1>7, <1>8

\* The read thread gets to its put only by a test of the size.
LEMMA PutEntered ==
    ASSUME PInv, [Next]_vars, pc'["reader"] = "put"
    PROVE  pc["reader"] = "put" \/ ReadFrame
<1> USE ThreadNames DEF Goto
<1>0. pc = [t \in Threads |-> pc[t]]
  BY DEF PInv, TypeOK, PcTypeOK
<1>1. CASE ReaderNext
  BY <1>0, <1>1 DEF ReaderNext, ResetIndex, ResetSize, ResetPkt, Clean, OpenFile, OpenFails,
     DeviceClose, DeviceClosed, DeviceOpen, DeviceOpenFails, Unpause, OpenCodec, OpenCodecFails,
     TestQuit, TestAbord, RestartFlush, TestSeek, SeekFlush, SeekPut, SeekFails, Throttle,
     ReadFails, PutPacket, Reset, LoopStep, DeviceStep
<1>2. CASE CallbackNext
  BY <1>0, <1>2 DEF CallbackNext, CallbackBegin, CheckBuffer, CheckPacket, DecodeError,
     DecodeNothing, DecodeFrame, GetNothing, GetPacket, GotFlush, GotPacket, CrashOnCodec,
     StoreFrame, StoreSilence, Rewind, CopyOut, Advance, CrashOnCopy, CallbackStep, DecodeStep,
     StoreSize
<1>3. CASE ControlNext
  BY <1>0, <1>3 DEF ControlNext, InitPlayer, LoadSong, DogLoad, LoadBegin, LoadPause, LoadFlag,
     LoadName, LoadAbord, LoadStatus, StopSong, StopPause, StopFlush, StopStatus, PauseSong,
     PauseDevice, Seek, FreePlayer, FreeWait, FreePause, FreeRelease, FreeStatus, DogPoll,
     DogReturns
<1>4. CASE UNCHANGED vars
  BY <1>4 DEF vars
<1> QED
  BY <1>1, <1>2, <1>3, <1>4 DEF Next

\* The others only empty the queue between the test of the size and the put.
LEMMA LimitStep == ASSUME PInv, SInv, [Next]_vars PROVE LimitInv'
<1> USE QueueSizes, BoundsAssumption DEF SInv, LimitInv, QueueBounded
<1>1. CASE QueueKept
  <2>1. QueueSize' = QueueSize
    BY <1>1 DEF QueueKept
  <2>2. ReadFrame => QueueSize <= MaxQueue
    BY DEF ReadFrame
  <2> QED
    BY <2>1, <2>2, PutEntered
<1>2. CASE PutPacket
  <2>1. pc["reader"] = "put" /\ pc'["reader"] # "put"
    BY <1>2, ThreadNames DEF PInv, TypeOK, PcTypeOK, PutPacket, LoopStep, Goto
  <2> QED
    BY <1>2, <2>1
<1>3. CASE GetPacket
  <2>1. QueueSize' <= QueueSize
    <3>1. Front(audio_queue) \in {0, 1}
      BY DEF Front
    <3> QED
      BY <1>3, <3>1
  <2>2. pc'["reader"] = pc["reader"]
    BY <1>3, ThreadNames DEF PInv, TypeOK, PcTypeOK, GetPacket, CallbackStep, Goto
  <2>3. QueueSize' \in Int
    <3>1. Front(audio_queue) \in {0, 1}
      BY DEF Front
    <3> QED
      BY <1>3, <3>1
  <2> QED
    BY <2>1, <2>2, <2>3
<1>4. CASE RestartFlush \/ StopFlush \/ SeekFlush \/ FreeRelease \/ SeekPut
  <2>1. QueueSize' = 0
    BY <1>4 DEF RestartFlush, StopFlush, SeekFlush, FreeRelease, QueueFlush
  <2> QED
    BY <2>1
<1>5. CASE Clean \/ OpenFile \/ OpenFails
  <2>1. audio_queue = <<>> /\ audio_queue' = audio_queue
    BY <1>5 DEF PInv, DecodeInv, Restarting, Clean, OpenFile, OpenFails, Goto, queueVars
  <2>2. QueueSize' = 0
    BY <2>1
  <2> QED
    BY <2>2
<1> QED
  BY <1>1, <1>2, <1>3, <1>4, <1>5, QueueEffect DEF QueueSteps

\* The callback has nothing in hand, or a packet of the open file.
LEMMA PacketStep == ASSUME PInv, SInv, [Next]_vars PROVE PacketInv'
<1> SUFFICES ASSUME ~resumed_early'
             PROVE  /\ audio_pkt_size' > 0 /\ player' # "freed" => InHand'
                    /\ pc'["audio"] = "cb_got" /\ audio_pkt' # FlushPkt => InHand'
                    /\ pc'["audio"] \in {"cb_get", "cb_got"} => audio_pkt_size' <= 0
  BY DEF PacketInv
<1> USE ThreadNames
    DEF Goto, requestVars, readVars, queueVars, pktVars, bufVars, flagVars, statusVars, localVars
<1>0. pc = [t \in Threads |-> pc[t]] /\ audio_pkt_size \in Int
  BY DEF PInv, TypeOK, PcTypeOK, NumberTypeOK
\* Nobody takes back that a device was resumed too early.
<1>1. ~resumed_early
  <2>1. CASE ReaderNext
    BY <2>1 DEF ReaderNext, ResetIndex, ResetSize, ResetPkt, Clean, OpenFile, OpenFails, DeviceClose,
       DeviceClosed, DeviceOpen, DeviceOpenFails, Unpause, OpenCodec, OpenCodecFails, TestQuit,
       TestAbord, RestartFlush, TestSeek, SeekFlush, SeekPut, SeekFails, Throttle, ReadFails,
       ReadFrame, PutPacket, Reset, LoopStep, AudioUnchanged, Resuming
  <2>2. CASE CallbackNext
    BY <2>2 DEF CallbackNext, CallbackBegin, CheckBuffer, CheckPacket, DecodeError, DecodeNothing,
       DecodeFrame, GetNothing, GetPacket, GotFlush, GotPacket, CrashOnCodec, StoreFrame,
       StoreSilence, Rewind, CopyOut, Advance, CrashOnCopy, CallbackStep, DecodeStep, StoreSize
  <2>3. CASE ControlNext
    BY <2>3 DEF ControlNext, InitPlayer, LoadSong, DogLoad, LoadBegin, LoadPause, LoadFlag, LoadName,
       LoadAbord, LoadStatus, StopSong, StopPause, StopFlush, StopStatus, PauseSong, PauseDevice,
       Seek, FreePlayer, FreeWait, FreePause, FreeRelease, FreeStatus, DogPoll, DogReturns, Resuming
  <2>4. CASE UNCHANGED vars
    BY <2>4 DEF vars
  <2> QED
    BY <2>1, <2>2, <2>3, <2>4 DEF Next
<1>2. /\ audio_pkt_size > 0 /\ player # "freed" => InHand
      /\ pc["audio"] = "cb_got" /\ audio_pkt # FlushPkt => InHand
      /\ pc["audio"] \in {"cb_get", "cb_got"} => audio_pkt_size <= 0
  BY <1>1 DEF SInv, PacketInv
<1>3. ASSUME UNCHANGED <<pc["audio"], player, pktVars, format_ctx>>
      PROVE  /\ audio_pkt_size' > 0 /\ player' # "freed" => InHand'
             /\ pc'["audio"] = "cb_got" /\ audio_pkt' # FlushPkt => InHand'
             /\ pc'["audio"] \in {"cb_get", "cb_got"} => audio_pkt_size' <= 0
  BY <1>2, <1>3 DEF InHand
<1>4. CASE ReaderNext
  <2>1. CASE Clean \/ OpenFile \/ OpenFails
    <3>1. /\ pc["reader"] \in {"clean", "open"} /\ player' = player
          /\ audio_pkt_size' = audio_pkt_size /\ pc'["audio"] = pc["audio"]
      BY <1>0, <2>1 DEF Clean, OpenFile, OpenFails, ControlUnchanged
    <3>2. pc["audio"] = "idle" /\ (player # "freed" => audio_pkt_size <= 0)
      BY <1>1, <3>1 DEF PInv, QuietInv, DecodeInv, Reopening, Restarting
    <3> QED
      BY <1>0, <3>1, <3>2
  <2>2. CASE ResetPkt
    <3>1. audio_pkt_size' = 0 /\ pc'["audio"] = pc["audio"] /\ pc["reader"] = "reset_pkt"
      BY <1>0, <2>2 DEF ResetPkt, Reset
    <3>2. pc["audio"] = "idle"
      BY <1>1, <3>1 DEF PInv, QuietInv, Restarting
    <3> QED
      BY <3>1, <3>2
  <2>3. CASE ~(Clean \/ OpenFile \/ OpenFails) /\ ~ResetPkt
    <3>1. UNCHANGED <<pc["audio"], player, pktVars, format_ctx>>
      BY <1>0, <1>4, <2>3 DEF ReaderNext, ResetIndex, ResetSize, DeviceClose, DeviceClosed, DeviceOpen,
         DeviceOpenFails, Unpause, OpenCodec, OpenCodecFails, TestQuit, TestAbord, RestartFlush,
         TestSeek, SeekFlush, SeekPut, SeekFails, Throttle, ReadFails, ReadFrame, PutPacket, Reset,
         LoopStep, DeviceStep, ControlUnchanged, AudioUnchanged
    <3> QED
      BY <1>3, <3>1
  <2> QED
    BY <2>1, <2>2, <2>3
<1>5. CASE CallbackNext
  <2> USE <1>0, <1>2 DEF CallbackStep, DecodeStep, StoreSize, InHand
  <2>1. CASE CheckPacket
    BY <2>1 DEF CheckPacket
  <2>2. CASE DecodeError
    BY <2>2 DEF DecodeError
  <2>3. CASE DecodeNothing \/ DecodeFrame
    BY <2>3 DEF DecodeNothing, DecodeFrame
  \* The head of the queue is the flush packet or one of the open file.
  <2>4. CASE GetPacket
    <3>1. audio_queue # <<>> /\ audio_queue \in Seq(Packets) /\ Ordered(audio_queue, format_ctx, read_pos)
      BY <2>4 DEF GetPacket, PInv, TypeOK, DataTypeOK, SInv, OrderInv
    <3>2. 1 \in DOMAIN audio_queue /\ audio_queue[1] \in Packets
      BY <3>1, LenProperties, EmptySeq, ElementOfSeq
    <3>3. audio_pkt' = audio_queue[1]
      BY <2>4 DEF GetPacket
    <3>4. ASSUME audio_queue[1] # FlushPkt PROVE InHand'
      <4>1. audio_queue[1] = [file |-> format_ctx, pos |-> read_pos - Len(audio_queue) + 1]
        BY <3>1, <3>2, <3>4 DEF Ordered
      <4>2. audio_queue[1] \in AudioPackets
        BY <3>2, <3>4 DEF Packets
      <4>3. read_pos - Len(audio_queue) + 1 \in 1 .. NPackets
        BY <4>1, <4>2 DEF AudioPackets
      <4>4. format_ctx' = format_ctx
        BY <2>4 DEF GetPacket
      <4> QED
        BY <3>3, <4>1, <4>3, <4>4
    <3>5. audio_pkt_size' = audio_pkt_size /\ pc["audio"] = "cb_get" /\ pc'["audio"] = "cb_got"
      BY <2>4 DEF GetPacket
    <3> QED
      BY <3>3, <3>4, <3>5
  <2>5. CASE GotPacket
    BY <2>5 DEF GotPacket
  <2>6. CASE GotFlush
    BY <2>6 DEF GotFlush
  <2>7. CASE GetNothing
    BY <2>7 DEF GetNothing
  <2>8. CASE CallbackBegin \/ CheckBuffer \/ CrashOnCodec \/ StoreFrame \/ StoreSilence \/ Rewind
             \/ CopyOut \/ Advance \/ CrashOnCopy
    BY <2>8 DEF CallbackBegin, CheckBuffer, CrashOnCodec, StoreFrame, StoreSilence, Rewind, CopyOut,
       Advance, CrashOnCopy
  <2> QED
    BY <1>5, <2>1, <2>2, <2>3, <2>4, <2>5, <2>6, <2>7, <2>8 DEF CallbackNext
<1>6. CASE ControlNext
  <2>1. CASE \E f \in Files : InitPlayer(f)
    <3>1. /\ UNCHANGED <<pktVars, format_ctx>> /\ pc'["audio"] = pc["audio"] /\ player # "freed"
      BY <1>0, <2>1 DEF InitPlayer, DataUnchanged, PInv, StartInv
    <3> QED
      BY <1>2, <3>1 DEF InHand
  <2>2. CASE FreeRelease
    <3>1. player' = "freed" /\ UNCHANGED pktVars /\ pc'["audio"] = pc["audio"] /\ pc["audio"] = "idle"
      BY <1>0, <2>2 DEF FreeRelease, PInv, FreeInv
    <3> QED
      BY <3>1
  <2>3. CASE ~(\E f \in Files : InitPlayer(f)) /\ ~FreeRelease
    <3>1. UNCHANGED <<pc["audio"], player, pktVars, format_ctx>>
      BY <1>0, <1>6, <2>3 DEF ControlNext, LoadSong, DogLoad, LoadBegin, LoadPause, LoadFlag,
         LoadName, LoadAbord, LoadStatus, StopSong, StopPause, StopFlush, StopStatus, PauseSong,
         PauseDevice, Seek, FreePlayer, FreeWait, FreePause, FreeStatus, DogPoll, DogReturns,
         DataUnchanged, CallUnchanged, GtkUnchanged
    <3> QED
      BY <1>3, <3>1
  <2> QED
    BY <2>1, <2>2, <2>3
<1>7. CASE UNCHANGED vars
  BY <1>3, <1>7 DEF vars
<1> QED
  BY <1>4, <1>5, <1>6, <1>7 DEF Next

\* With the inductive invariant of the threads, that of the queue is inductive.
THEOREM QueueInvariance == Spec => [](PInv /\ SInv)
<1>1. Init => SInv
  <2> SUFFICES ASSUME Init PROVE SInv
    OBVIOUS
  <2>1. pc["reader"] = "none" /\ pc["audio"] = "idle"
    BY ThreadNames DEF Init
  <2>2. OrderInv /\ QueueSize = 0
    BY OrderedEmpty DEF Init, OrderInv, QueueSize, Data
  <2>3. SeekInv /\ LimitInv
    BY <2>1, <2>2, BoundsAssumption DEF SeekInv, LimitInv, QueueBounded
  <2>4. PacketInv
    BY <2>1 DEF Init, PacketInv
  <2> QED
    BY <2>2, <2>3, <2>4 DEF SInv
<1>2. PInv /\ SInv /\ [Next]_vars => SInv'
  BY OrderStep, SeekStep, LimitStep, PacketStep DEF SInv
<1> QED
  BY <1>1, <1>2, InitPInv, NextPInv, PTL DEF Spec

\* The queue holds the open file's packets in order, and nothing during a reload, for
\* every interleaving of the threads that put, get and flush.
THEOREM QueueIsOfOpenFile == Spec => []QueueOfOpenFile
<1>1. PInv /\ SInv => QueueOfOpenFile
  BY DEF PInv, SInv, DecodeInv, OrderInv, Ordered, QueueOfOpenFile
<1> QED
  BY <1>1, QueueInvariance, PTL

\* The read thread's limit holds up to one packet, for any limit and any file.
THEOREM QueueStaysBounded == Spec => []QueueBounded
<1>1. SInv => QueueBounded
  BY DEF SInv, LimitInv
<1> QED
  BY <1>1, QueueInvariance, PTL

\* As long as nobody resumes the device while a reload is pending, the callback does
\* not crash, and decodes only packets of the file its codec context is of.
THEOREM CallbackIsSafe == Spec => []CallbackSafe
<1>1. PInv /\ SInv => CallbackSafe
  BY DEF PInv, SInv, FreeInv, CrashInv, DecodeInv, PacketInv, InHand, CallbackSafe
<1> QED
  BY <1>1, QueueInvariance, PTL

-------------------------------------------------------------------------------
(* Player implements Stream.  The steps that move the queue have a step of  *)
(* Stream each; with the others a file or a seek is asked for, a seek given *)
(* up, a packet done with, or nothing happens.                              *)

LEMMA OtherEffect ==
    ASSUME PInv, [Next]_vars
    PROVE  \/ UNCHANGED <<seek_req, audio_pkt, input_filename>>
           \/ input_filename' \in Files /\ UNCHANGED <<seek_req, audio_pkt>>
           \/ seek_req' \in BOOLEAN /\ UNCHANGED <<audio_pkt, input_filename>>
           \/ audio_pkt' = NULL /\ UNCHANGED <<seek_req, input_filename>>
           \/ GetPacket
<1> USE DEF requestVars, pktVars
<1>1. CASE ReaderNext
  BY <1>1 DEF ReaderNext, ResetIndex, ResetSize, ResetPkt, Clean, OpenFile, OpenFails, DeviceClose,
     DeviceClosed, DeviceOpen, DeviceOpenFails, Unpause, OpenCodec, OpenCodecFails, TestQuit,
     TestAbord, RestartFlush, TestSeek, SeekFlush, SeekPut, SeekFails, Throttle, ReadFails,
     ReadFrame, PutPacket, Reset, LoopStep, DeviceStep, AudioUnchanged,
     ControlUnchanged
<1>2. CASE CallbackNext
  BY <1>2 DEF CallbackNext, CallbackBegin, CheckBuffer, CheckPacket, DecodeError, DecodeNothing,
     DecodeFrame, GetNothing, GotFlush, GotPacket, CrashOnCodec, StoreFrame, StoreSilence, Rewind,
     CopyOut, Advance, CrashOnCopy, CallbackStep, DecodeStep, StoreSize
<1>3. CASE ControlNext
  BY <1>3 DEF ControlNext, InitPlayer, LoadSong, DogLoad, LoadBegin, LoadPause, LoadFlag, LoadName,
     LoadAbord, LoadStatus, StopSong, StopPause, StopFlush, StopStatus, PauseSong, PauseDevice,
     Seek, FreePlayer, FreeWait, FreePause, FreeRelease, FreeStatus, DogPoll, DogReturns,
     DataUnchanged, CallUnchanged, GtkUnchanged, PInv, LoadInv, Goto
<1>4. CASE UNCHANGED vars
  BY <1>4 DEF vars
<1> QED
  BY <1>1, <1>2, <1>3, <1>4 DEF Next

\* A get of the callback is a delivery, or takes the flush packet.
LEMMA GetDelivers == ASSUME PInv, SInv, GetPacket PROVE Ahead!Deliver \/ Ahead!Done
<1>1. /\ audio_queue \in Seq(Packets) /\ read_pos \in Nat
      /\ Ordered(audio_queue, format_ctx, read_pos)
  BY BoundsAssumption DEF PInv, TypeOK, DataTypeOK, NumberTypeOK, SInv, OrderInv
<1>2. audio_queue # <<>> /\ audio_pkt' = Head(audio_queue)
  BY DEF GetPacket
<1>3. 1 \in DOMAIN audio_queue /\ audio_queue[1] \in Packets /\ Len(audio_queue) \in Nat \ {0}
  BY <1>1, <1>2, LenProperties, EmptySeq, ElementOfSeq
<1>4. audio_pkt' = audio_queue[1]
  BY <1>2
<1>5. UNCHANGED <<input_filename, format_ctx, read_pos, seek_req>>
  BY DEF GetPacket, CallbackStep, readVars, requestVars
<1>6. QueueSize' = QueueSize - (1 - Front(audio_queue)) /\ QueueSize \in Nat
      /\ QueueSize = Len(audio_queue) - Front(audio_queue)
  BY QueueSizes
<1>7. UNCHANGED PacketsRead
  BY <1>5 DEF PacketsRead
<1>8. CASE audio_queue[1] = FlushPkt
  <2>1. QueueSize' = QueueSize
    BY <1>2, <1>6, <1>8 DEF Front
  <2>2. UNCHANGED NextPacket /\ PacketHeld' = NULL
    BY <1>4, <1>5, <1>8, <2>1 DEF NextPacket, PacketHeld
  <2> QED
    BY <1>5, <1>7, <2>2 DEF Ahead!Done
<1>9. CASE audio_queue[1] # FlushPkt
  <2>1. audio_queue[1] = [file |-> format_ctx, pos |-> read_pos - Len(audio_queue) + 1]
    BY <1>1, <1>3, <1>9 DEF Ordered
  <2>2. format_ctx \in Files
    BY <1>3, <1>9, <2>1 DEF Packets, AudioPackets
  <2>3. format_ctx # NULL
    BY <2>2, FilesAssumption
  <2>4. Front(audio_queue) = 0
    BY <1>9 DEF Front
  <2>5. /\ PacketsRead = read_pos /\ NextPacket = read_pos - Len(audio_queue) + 1
        /\ NextPacket' = read_pos - Len(audio_queue) + 1 + 1
    BY <1>1, <1>3, <1>5, <1>6, <2>3, <2>4 DEF PacketsRead, NextPacket
  <2>6. NextPacket' = NextPacket + 1 /\ NextPacket <= PacketsRead
    BY <1>1, <1>3, <2>5
  <2>7. PacketHeld' = [file |-> format_ctx, pos |-> NextPacket]
    BY <1>4, <1>9, <2>1, <2>5 DEF PacketHeld
  <2> QED
    BY <1>5, <1>7, <2>3, <2>6, <2>7 DEF Ahead!Deliver
<1> QED
  BY <1>8, <1>9

\* Every step of the player is one of Stream, or none.
LEMMA StreamStep == ASSUME PInv, SInv, [Next]_vars PROVE [Ahead!Next]_(Ahead!vars)
<1> USE DEF Goto, LoopStep, requestVars, readVars, queueVars, pktVars, bufVars, flagVars, statusVars,
            localVars
<1>1. read_pos \in Nat /\ QueueSize \in Nat
  BY QueueSizes, BoundsAssumption DEF PInv, TypeOK, NumberTypeOK
<1>2. CASE GetPacket
  BY <1>2, GetDelivers DEF Ahead!Next
<1>3. CASE RestartFlush \/ StopFlush
  <2>1. UNCHANGED <<input_filename, format_ctx, read_pos, seek_req, audio_pkt>> /\ QueueSize' = 0
    BY <1>3, QueueSizes
       DEF RestartFlush, StopFlush, QueueFlush, AudioUnchanged, ControlUnchanged, GtkUnchanged, CallUnchanged, DataUnchanged
  <2>2. UNCHANGED <<PacketsRead, PacketHeld>>
    BY <2>1 DEF PacketsRead, PacketHeld
  <2>3. CASE format_ctx = NULL
    BY <2>1, <2>2, <2>3 DEF NextPacket, Ahead!vars
  <2>4. CASE format_ctx # NULL
    <3>1. NextPacket' = PacketsRead + 1
      BY <1>1, <2>1, <2>4 DEF NextPacket, PacketsRead
    <3> QED
      BY <2>1, <2>2, <2>4, <3>1 DEF Ahead!Drop, Ahead!Next
  <2> QED
    BY <2>3, <2>4
<1>4. CASE SeekFlush
  <2>1. /\ UNCHANGED <<input_filename, format_ctx, seek_req, audio_pkt>> /\ QueueSize' = 0
        /\ read_pos' \in 0 .. NPackets /\ pc["reader"] = "seek"
    BY <1>4, QueueSizes DEF SeekFlush, QueueFlush, AudioUnchanged, ControlUnchanged
  <2>2. seek_req /\ format_ctx # NULL
    BY <2>1, FilesAssumption DEF SInv, SeekInv, PInv, ReaderInv, Opened, InLoop
  <2>3. PacketsRead' = read_pos' /\ NextPacket' = read_pos' + 1 /\ UNCHANGED PacketHeld
    BY <2>1, <2>2, BoundsAssumption DEF PacketsRead, NextPacket, PacketHeld
  <2> QED
    BY <2>1, <2>2, <2>3 DEF Ahead!Seek, Ahead!Next
<1>5. CASE SeekPut
  <2>1. /\ UNCHANGED <<input_filename, format_ctx, read_pos, audio_pkt>>
        /\ seek_req' = FALSE /\ UNCHANGED QueueSize
    BY <1>5, QueueSizes DEF SeekPut, AudioUnchanged, ControlUnchanged
  <2>2. UNCHANGED <<PacketsRead, NextPacket, PacketHeld>>
    BY <2>1 DEF PacketsRead, NextPacket, PacketHeld
  <2> QED
    BY <2>1, <2>2 DEF Ahead!SeekDone, Ahead!Next
<1>6. CASE PutPacket
  <2>1. /\ UNCHANGED <<input_filename, format_ctx, seek_req, audio_pkt>> /\ read_pos' = read_pos + 1
        /\ QueueSize' = QueueSize + 1 /\ pc["reader"] = "put"
    BY <1>6, QueueSizes DEF PutPacket, AudioUnchanged, ControlUnchanged
  <2>2. format_ctx # NULL /\ read_pos < NPackets /\ QueueSize <= MaxQueue
    BY <2>1, FilesAssumption DEF SInv, LimitInv, PInv, ReaderInv, Opened, InLoop
  <2>3. /\ PacketsRead = read_pos /\ PacketsRead' = read_pos + 1
        /\ NextPacket = read_pos - QueueSize + 1 /\ UNCHANGED <<NextPacket, PacketHeld>>
    BY <1>1, <2>1, <2>2 DEF PacketsRead, NextPacket, PacketHeld
  <2>4. PacketsRead + 1 - NextPacket <= MaxQueue
    BY <1>1, <2>2, <2>3, BoundsAssumption
  <2> QED
    BY <2>1, <2>2, <2>3, <2>4 DEF Ahead!Read, Ahead!Next
<1>7. CASE Clean \/ FreeRelease
  <2>1. UNCHANGED <<input_filename, seek_req, audio_pkt>> /\ format_ctx' = NULL
    BY <1>7 DEF Clean, FreeRelease, AudioUnchanged, ControlUnchanged
  <2>2. PacketsRead' = 0 /\ NextPacket' = 1 /\ UNCHANGED PacketHeld
    BY <2>1 DEF PacketsRead, NextPacket, PacketHeld
  <2> QED
    BY <2>1, <2>2 DEF Ahead!Close, Ahead!Next
<1>8. CASE OpenFile \/ OpenFails
  <2>1. /\ UNCHANGED <<input_filename, read_pos, seek_req, audio_pkt, audio_queue>>
        /\ pc["reader"] = "open"
        /\ format_ctx' = NULL \/ format_ctx' = input_filename
    BY <1>8 DEF OpenFile, OpenFails, AudioUnchanged, ControlUnchanged
  <2>2. /\ format_ctx = NULL /\ read_pos = 0 /\ audio_queue = <<>> /\ input_filename \in Files
    BY <2>1 DEF SInv, SeekInv, PInv, ReaderInv, DecodeInv, Restarting
  <2>3. QueueSize' = 0
    BY <2>1, <2>2, QueueSizes
  <2>4. /\ PacketsRead = 0 /\ NextPacket = 1
        /\ PacketsRead' = 0 /\ NextPacket' = 1 /\ UNCHANGED PacketHeld
    BY <2>1, <2>2, <2>3 DEF PacketsRead, NextPacket, PacketHeld
  <2>5. CASE format_ctx' = NULL
    BY <2>1, <2>2, <2>4, <2>5 DEF Ahead!vars
  <2>6. CASE format_ctx' = input_filename
    <3>1. Ahead!Open
      BY <2>1, <2>2, <2>4, <2>6, FilesAssumption DEF Ahead!Open
    <3> QED
      BY <3>1 DEF Ahead!Next
  <2> QED
    BY <2>1, <2>5, <2>6
<1>9. CASE QueueKept /\ ~GetPacket
  <2>1. UNCHANGED <<format_ctx, read_pos, QueueSize>>
    BY <1>9, QueueSizes DEF QueueKept
  <2>2. UNCHANGED <<PacketsRead, NextPacket>>
    BY <2>1 DEF PacketsRead, NextPacket
  <2>3. CASE UNCHANGED <<seek_req, audio_pkt, input_filename>>
    BY <2>1, <2>2, <2>3 DEF PacketHeld, Ahead!vars
  <2>4. CASE seek_req' \in BOOLEAN /\ UNCHANGED <<audio_pkt, input_filename>>
    <3>1. UNCHANGED PacketHeld
      BY <2>4 DEF PacketHeld
    <3>2. seek_req' = TRUE \/ seek_req' = FALSE
      BY <2>4
    <3>3. Ahead!AskSeek \/ Ahead!SeekDone
      BY <2>1, <2>2, <2>4, <3>1, <3>2 DEF Ahead!AskSeek, Ahead!SeekDone
    <3> QED
      BY <3>3 DEF Ahead!Next
  <2>5. CASE audio_pkt' = NULL /\ UNCHANGED <<seek_req, input_filename>>
    <3>1. PacketHeld' = NULL
      BY <2>5 DEF PacketHeld
    <3> QED
      BY <2>1, <2>2, <2>5, <3>1 DEF Ahead!Done, Ahead!Next
  <2>6. CASE input_filename' \in Files /\ UNCHANGED <<seek_req, audio_pkt>>
    <3>1. UNCHANGED PacketHeld
      BY <2>6 DEF PacketHeld
    <3>2. Ahead!Ask(input_filename')
      BY <2>1, <2>2, <2>6, <3>1 DEF Ahead!Ask
    <3> QED
      BY <2>6, <3>2 DEF Ahead!Next
  <2> QED
    BY <1>9, <2>3, <2>4, <2>5, <2>6, OtherEffect
<1> QED
  BY <1>2, <1>3, <1>4, <1>5, <1>6, <1>7, <1>8, <1>9, QueueEffect DEF QueueSteps

\* The four threads over their queue play a file as Stream says: every packet of it
\* once and in order, but for what a seek that was asked for or a flush leaves out,
\* for any files, any limit and all calls at once.
THEOREM RefinesStream == Spec => ImplementsStream
<1>1. Init => Ahead!Init
  <2> SUFFICES ASSUME Init PROVE Ahead!Init
    OBVIOUS
  <2>1. NULL # FlushPkt => PacketHeld = NULL
    BY DEF Init, PacketHeld
  <2>2. NULL = FlushPkt => PacketHeld = NULL
    BY DEF Init, PacketHeld
  <2> QED
    BY <2>1, <2>2 DEF Init, Ahead!Init, PacketsRead, NextPacket
<1>2. PInv /\ SInv /\ [Next]_vars => [Ahead!Next]_(Ahead!vars)
  BY StreamStep
<1> QED
  BY <1>1, <1>2, QueueInvariance, PTL DEF Spec, Ahead!Spec, ImplementsStream

===============================================================================
