-------------------------------- MODULE Player --------------------------------
(***************************************************************************)
(* The player: the read thread, SDL's audio thread, the GTK main loop and   *)
(* the watchdog of Cplayer, interleaved over the state they share.          *)
(***************************************************************************)
EXTENDS ReadThread, AudioCallback, PlayerControl

\* The process has neither crashed nor returned from main.
Running == pc["audio"] # "crashed" /\ pc["gtk"] # "ended"

Next == Running /\ (ReaderNext \/ CallbackNext \/ ControlNext)

Spec == Init /\ [][Next]_vars

-------------------------------------------------------------------------------
(* Fairness: every thread is scheduled, a call that has begun goes on, and  *)
(* the mixer lock, which a callback holds for a fraction of its period, is  *)
(* eventually taken by a thread that wants it.  Nobody has to make a call.  *)

Fairness ==
    /\ WF_vars(Running /\ ReaderNext) /\ SF_vars(Running /\ Unpause)
    /\ WF_vars(Running /\ CallbackNext)
    /\ \A t \in Controllers :
         /\ SF_vars(Running /\ LoadPause(t))
         /\ WF_vars(Running /\ (LoadFlag(t) \/ LoadName(t) \/ LoadAbord(t) \/ LoadStatus(t)))
    /\ SF_vars(Running /\ (StopPause \/ PauseDevice \/ FreePause))
    /\ WF_vars(Running /\ (StopFlush \/ StopStatus \/ FreeWait \/ FreeRelease \/ FreeStatus))

FairSpec == Spec /\ Fairness

-------------------------------------------------------------------------------
(* Properties.                                                              *)

\* The read thread's program points between the opening of a file and its end.
InLoop  == {"loop_quit", "loop_abord", "loop_seek", "seek", "seek_put", "fill", "put"}
Opened  == InLoop \cup {"dev_close", "dev_closing", "dev_open", "unpause", "open_codec"}

ReaderPoints   == {"none", "exited"} \cup Restarting \cup Opened
CallbackPoints == {"idle", "cb_check", "cb_pkt", "cb_decode", "cb_get", "cb_got", "cb_silence",
                   "cb_store", "cb_rewind", "cb_copy", "cb_advance", "crashed"}
LoadPoints     == {"idle", "load_pause", "load_flag", "load_name", "load_abord", "load_status"}
GtkPoints      == LoadPoints \cup
                  {"stop_pause", "stop_flush", "stop_status", "pause_device", "free_wait",
                   "free_pause", "free_release", "free_status", "ended"}
DogPoints      == LoadPoints \cup {"stopping"}

PcTypeOK ==
    /\ pc \in [Threads -> ReaderPoints \cup CallbackPoints \cup GtkPoints \cup DogPoints]
    /\ pc["reader"] \in ReaderPoints /\ pc["audio"] \in CallbackPoints
    /\ pc["gtk"] \in GtkPoints /\ pc["dog"] \in DogPoints

FlagTypeOK ==
    /\ read_thread_abord \in BOOLEAN /\ quit \in BOOLEAN /\ seek_req \in BOOLEAN
    /\ no_more_data_in_the_queue \in BOOLEAN
    /\ audio_opend \in BOOLEAN /\ paused \in BOOLEAN /\ stopped \in BOOLEAN
    /\ alive \in BOOLEAN /\ watch_dog_started \in BOOLEAN
    /\ resumed_early \in BOOLEAN

DataTypeOK ==
    /\ player \in {"none", "live", "freed"}
    /\ input_filename \in Files \cup {NULL} /\ format_ctx \in Files \cup {NULL}
    /\ audio_codec_ctx \in {"null", "copied", "open"}
    /\ audio_queue \in Seq(Packets)
    /\ audio_pkt \in Packets \cup {NULL}
    /\ device \in {"closed", "paused", "running", "closing"}
    /\ playing_status \in {"STOP", "PLAYING", "PAUSE"}
    /\ song \in [Controllers -> Files \cup {NULL}]

NumberTypeOK ==
    /\ read_pos \in 0 .. NPackets
    /\ audio_pkt_size \in Int
    /\ audio_buf_size \in Nat /\ audio_buf_index \in Nat
    /\ len \in Nat /\ len1 \in Int

\* Every variable stays in its range.
TypeOK == PcTypeOK /\ FlagTypeOK /\ DataTypeOK /\ NumberTypeOK

\* No request is lost: a read thread that has opened a file and has no reload to
\* serve has opened the file asked for last, though file name and request are two
\* unlocked stores, of two threads, and the read thread clears the request.
NoStaleFile ==
    /\ pc["reader"] \in Opened
    /\ ~read_thread_abord
    /\ \A t \in Controllers : pc[t] # "load_abord"
    => format_ctx = input_filename

\* The queue holds consecutive packets of the open file, up to the last one read, at
\* all times; only in front can the flush packet of a seek be; and nothing is queued
\* between the flush of a reload and the opening of the codec.
QueueOfOpenFile ==
    /\ \A i \in DOMAIN audio_queue :
         \/ audio_queue[i] = [file |-> format_ctx, pos |-> read_pos - Len(audio_queue) + i]
         \/ audio_queue[i] = FlushPkt /\ i = 1
    /\ pc["reader"] \in (Restarting \ {"restart_flush"}) \cup {"open_codec"} =>
         audio_queue = <<>>

\* The read thread overshoots its limit by one packet at most, whatever seeks,
\* stops and reloads flush between its test of the size and its put.
QueueBounded == QueueSize <= MaxQueue + 1

\* The flag the watchdog polls is never up while a packet is queued.
NoMoreDataMeansEmpty == no_more_data_in_the_queue => audio_queue = <<>>

\* While a reload tears down the decoder and builds the next, no callback runs,
\* unless a device was resumed while a reload was pending: audio_close in
\* cp_load_file is all that keeps the two threads apart.
QuietRestart ==
    ~resumed_early /\ pc["reader"] \in Restarting
    => device # "running" /\ pc["audio"] = "idle"

\* The audio thread neither decodes with a codec context that is gone, nor a packet of
\* another file than the one whose context it is, nor copies a negative length, unless
\* a device was resumed while a reload was pending.
CallbackSafe ==
    ~resumed_early =>
      /\ pc["audio"] # "crashed"
      /\ pc["audio"] = "cb_decode" =>
           \E n \in 1 .. NPackets : audio_pkt = [file |-> format_ctx, pos |-> n]

\* When stream_close releases the AudioState, neither the read thread nor a
\* callback is left to use it, and none can start.
ReleasedUnused ==
    player = "freed" =>
      pc["reader"] = "exited" /\ pc["audio"] = "idle" /\ device # "running"

\* Every request to play a file is served: the read thread opens it and goes on to
\* read it, unless another one is asked for, the thread has ended (an earlier file
\* could not be opened, or the player closes), or the process has crashed.
RequestServed ==
    \A f \in Files :
      input_filename = f ~> \/ format_ctx = f /\ pc["reader"] \in InLoop
                            \/ input_filename # f
                            \/ pc["reader"] = "exited"
                            \/ ~Running

\* A seek is served, or refused, though the queue may be full, the device paused or
\* the file at its end, unless a load is asked for meanwhile, which goes first.
SeekServed ==
    seek_req ~> ~seek_req \/ read_thread_abord \/ pc["reader"] = "exited" \/ ~Running

\* The window's closing ends: stream_close gets its read thread, which may be in the
\* middle of a reload, to exit and the device to stop.
FreeEnds == quit ~> player = "freed" \/ ~Running

-------------------------------------------------------------------------------
(* What the player promises of a song, refined.                             *)

PacketsRead == IF format_ctx = NULL THEN 0 ELSE read_pos
NextPacket  == IF format_ctx = NULL THEN 1 ELSE read_pos - QueueSize + 1
PacketHeld  == IF audio_pkt = FlushPkt THEN NULL ELSE audio_pkt

Ahead == INSTANCE Stream WITH asked <- input_filename, file <- format_ctx, read <- PacketsRead,
                              next <- NextPacket, seeking <- seek_req, pkt <- PacketHeld

\* The file opened is the one asked for last, and the decoder is handed its packets from
\* the first on, one after the other, none twice and none left out, whatever stops, loads
\* and seeks come between reading and decoding, but that a flush drops all that was read
\* ahead, never a part of it, and a seek that was asked for goes on elsewhere.
ImplementsStream == Ahead!Spec

-------------------------------------------------------------------------------
(* What comments of the code say, and the code does not do.                 *)

\* "if there are no more data in the queue, we think the audio is stopping": the
\* watchdog moves on only when the read thread has no more to read.
SkipsOnlyAtEnd ==
    [][\A f \in Files : DogLoad(f) => read_pos = NPackets]_vars

\* The read thread plays the file asked for last: no reload is to be served.
Reading == pc["reader"] \in InLoop /\ ~read_thread_abord

\* playing_status is the "play status": the call of pause_song that has set it to PAUSE
\* leaves the device silent.
PauseIsSilent ==
    [][PauseDevice /\ playing_status = "PAUSE" /\ Reading => device' # "running"]_vars

\* playing_status = STOP is a "playing status" too: a call of stop_song that ends a song
\* and leaves the device alone finds it silent.
StopIsSilent ==
    [][StopSong /\ playing_status # "STOP" /\ pc'["gtk"] = "stop_status" /\ Reading
         => device # "running"]_vars

===============================================================================
