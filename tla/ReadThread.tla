------------------------------ MODULE ReadThread ------------------------------
(***************************************************************************)
(* read_thread of src/player_core/player.c: opens the file asked for, opens *)
(* the device and fills the packet queue; starts over when a reload is      *)
(* requested, seeks when asked, ends on quit or on a failure to open.       *)
(***************************************************************************)
EXTENDS AudioState

\* The thread writes nothing of the controllers' state.
ControlUnchanged ==
    UNCHANGED <<player, input_filename, quit, flagVars, statusVars, song, localVars>>

AudioUnchanged == UNCHANGED <<audio_pkt, audio_opend, device, resumed_early>>

Reset(from, to) ==
    /\ Goto("reader", from, to)
    /\ ControlUnchanged /\ AudioUnchanged
    /\ UNCHANGED <<read_thread_abord, seek_req, readVars, queueVars>>

(* "prepare clean stuff": three stores the audio thread may come between.   *)
ResetIndex ==
    /\ Reset("reset_index", "reset_size")
    /\ audio_buf_index' = 0
    /\ UNCHANGED <<audio_buf_size, audio_pkt_size>>

ResetSize ==
    /\ Reset("reset_size", "reset_pkt")
    /\ audio_buf_size' = 0
    /\ UNCHANGED <<audio_buf_index, audio_pkt_size>>

ResetPkt ==
    /\ Reset("reset_pkt", "clean")
    /\ audio_pkt_size' = 0
    /\ UNCHANGED bufVars

\* "clean work": the codec contexts and the input of the file before.
Clean ==
    /\ Goto("reader", "clean", "open")
    /\ audio_codec_ctx' = "null"
    /\ format_ctx' = NULL
    /\ read_pos' = 0
    /\ ControlUnchanged /\ AudioUnchanged
    /\ UNCHANGED <<read_thread_abord, seek_req, queueVars, audio_pkt_size, bufVars>>

\* Open the input, find its audio stream and decoder, copy the codec context.
OpenFile ==
    /\ Goto("reader", "open", "dev_close")
    /\ format_ctx' = input_filename
    /\ audio_codec_ctx' = "copied"
    /\ ControlUnchanged /\ AudioUnchanged
    /\ UNCHANGED <<read_thread_abord, seek_req, read_pos, queueVars, audio_pkt_size, bufVars>>

\* Any failure on the way ends the thread: without an input, or with one but no
\* usable decoder.
OpenFails ==
    /\ Goto("reader", "open", "exited")
    /\ input_filename \in Unplayable
    /\ format_ctx' \in {NULL, input_filename}
    /\ audio_codec_ctx' \in IF format_ctx' = NULL THEN {"null"} ELSE {"null", "copied"}
    /\ ControlUnchanged /\ AudioUnchanged
    /\ UNCHANGED <<read_thread_abord, seek_req, read_pos, queueVars, audio_pkt_size, bufVars>>

-------------------------------------------------------------------------------
(* audio_open.  SDL_CloseAudio lets a callback under way end first.         *)

DeviceStep(from, to) ==
    /\ Goto("reader", from, to)
    /\ ControlUnchanged
    /\ UNCHANGED <<read_thread_abord, seek_req, readVars, queueVars, pktVars, bufVars>>

DeviceClose ==
    /\ \/ audio_opend /\ DeviceStep("dev_close", "dev_closing") /\ device' = "closing"
       \/ ~audio_opend /\ DeviceStep("dev_close", "dev_open") /\ UNCHANGED device
    /\ UNCHANGED <<audio_opend, resumed_early>>

DeviceClosed ==
    /\ DeviceStep("dev_closing", "dev_open")
    /\ pc["audio"] = "idle"
    /\ device' = "closed"
    /\ UNCHANGED <<audio_opend, resumed_early>>

DeviceOpen ==
    /\ DeviceStep("dev_open", "unpause")
    /\ device' = "paused"
    /\ audio_opend' = TRUE
    /\ UNCHANGED resumed_early

\* read_thread ignores that audio_open failed.
DeviceOpenFails ==
    /\ DeviceStep("dev_open", "open_codec")
    /\ UNCHANGED <<device, audio_opend, resumed_early>>

Unpause ==
    /\ DeviceStep("unpause", "open_codec")
    /\ PauseAudio(FALSE)
    /\ Resuming("reader")
    /\ UNCHANGED audio_opend

-------------------------------------------------------------------------------
\* Mutant of OpenCodec: the request is taken for served once the file is open.
OpenCodecClearsRequest ==
    /\ Goto("reader", "open_codec", "loop_quit")
    /\ audio_codec_ctx' = "open"
    /\ read_thread_abord' = FALSE
    /\ ControlUnchanged /\ AudioUnchanged
    /\ UNCHANGED <<seek_req, format_ctx, read_pos, queueVars, audio_pkt_size, bufVars>>

OpenCodec ==
    /\ Goto("reader", "open_codec", "loop_quit")
    /\ audio_codec_ctx' = "open"
    /\ ControlUnchanged /\ AudioUnchanged
    /\ UNCHANGED <<read_thread_abord, seek_req, format_ctx, read_pos, queueVars,
                   audio_pkt_size, bufVars>>

OpenCodecFails ==
    /\ Goto("reader", "open_codec", "exited")
    /\ format_ctx \in Unplayable
    /\ ControlUnchanged /\ AudioUnchanged
    /\ UNCHANGED <<read_thread_abord, seek_req, readVars, queueVars, audio_pkt_size, bufVars>>

(* The loop: quit, reload, seek, throttle, read; each test a step.          *)

LoopStep(from, to) ==
    /\ Goto("reader", from, to)
    /\ ControlUnchanged /\ AudioUnchanged
    /\ UNCHANGED <<format_ctx, audio_codec_ctx, audio_pkt_size, bufVars>>

TestQuit ==
    /\ LoopStep("loop_quit", IF quit THEN "exited" ELSE "loop_abord")
    /\ UNCHANGED <<read_thread_abord, seek_req, read_pos, queueVars>>

TestAbord ==
    /\ LoopStep("loop_abord", IF read_thread_abord THEN "restart_flush" ELSE "loop_seek")
    /\ read_thread_abord' = FALSE
    /\ UNCHANGED <<seek_req, read_pos, queueVars>>

\* Mutant of RestartFlush: what is queued of the old file stays.
RestartKeepsQueue ==
    /\ LoopStep("restart_flush", "reset_index")
    /\ UNCHANGED <<read_thread_abord, seek_req, read_pos, queueVars>>

RestartFlush ==
    /\ LoopStep("restart_flush", "reset_index")
    /\ QueueFlush
    /\ UNCHANGED <<read_thread_abord, seek_req, read_pos>>

TestSeek ==
    /\ LoopStep("loop_seek", IF seek_req THEN "seek" ELSE "fill")
    /\ UNCHANGED <<read_thread_abord, seek_req, read_pos, queueVars>>

\* Mutant of SeekFlush: what was read before the seek stays queued.
SeekKeepsQueue ==
    /\ LoopStep("seek", "seek_put")
    /\ read_pos' \in 0 .. NPackets
    /\ UNCHANGED <<read_thread_abord, seek_req, queueVars>>

\* av_seek_frame to any position, then the flush of the queue.
SeekFlush ==
    /\ LoopStep("seek", "seek_put")
    /\ read_pos' \in 0 .. NPackets
    /\ QueueFlush
    /\ UNCHANGED <<read_thread_abord, seek_req>>

SeekPut ==
    /\ LoopStep("seek_put", "fill")
    /\ QueuePut(FlushPkt)
    /\ seek_req' = FALSE
    /\ UNCHANGED <<read_thread_abord, read_pos>>

SeekFails ==
    /\ LoopStep("seek", "fill")
    /\ seek_req' = FALSE
    /\ UNCHANGED <<read_thread_abord, read_pos, queueVars>>

\* Mutant of Throttle: it waits for room without going round the loop.
ThrottleWaits ==
    /\ LoopStep("fill", "fill")
    /\ QueueSize > MaxQueue
    /\ UNCHANGED <<read_thread_abord, seek_req, read_pos, queueVars>>

\* The queue is over its limit: once around the loop after a delay.
Throttle ==
    /\ LoopStep("fill", "loop_quit")
    /\ QueueSize > MaxQueue
    /\ UNCHANGED <<read_thread_abord, seek_req, read_pos, queueVars>>

\* Mutant of ReadFails: it waits for a reload without going round the loop.
ReadFailsWaits ==
    /\ LoopStep("fill", IF read_thread_abord THEN "restart_flush" ELSE "fill")
    /\ QueueSize <= MaxQueue /\ read_pos = NPackets
    /\ read_thread_abord' = FALSE
    /\ UNCHANGED <<seek_req, read_pos, queueVars>>

\* av_read_frame at the end of the file: wait for the user, or serve a reload.
ReadFails ==
    /\ LoopStep("fill", IF read_thread_abord THEN "restart_flush" ELSE "loop_quit")
    /\ QueueSize <= MaxQueue /\ read_pos = NPackets
    /\ read_thread_abord' = FALSE
    /\ UNCHANGED <<seek_req, read_pos, queueVars>>

\* Mutants of ReadFrame: no throttle; one frame past the end of the file.
ReadFrameUnthrottled ==
    /\ LoopStep("fill", "put")
    /\ read_pos < NPackets
    /\ UNCHANGED <<read_thread_abord, seek_req, read_pos, queueVars>>

ReadFramePastEnd ==
    /\ LoopStep("fill", "put")
    /\ QueueSize <= MaxQueue /\ read_pos <= NPackets
    /\ UNCHANGED <<read_thread_abord, seek_req, read_pos, queueVars>>

ReadFrame ==
    /\ LoopStep("fill", "put")
    /\ QueueSize <= MaxQueue /\ read_pos < NPackets
    /\ UNCHANGED <<read_thread_abord, seek_req, read_pos, queueVars>>

PutPacket ==
    /\ LoopStep("put", "loop_quit")
    /\ read_pos' = read_pos + 1
    /\ QueuePut([file |-> format_ctx, pos |-> read_pos + 1])
    /\ UNCHANGED <<read_thread_abord, seek_req>>

ReaderNext ==
    \/ ResetIndex \/ ResetSize \/ ResetPkt \/ Clean
    \/ OpenFile \/ OpenFails
    \/ DeviceClose \/ DeviceClosed \/ DeviceOpen \/ DeviceOpenFails \/ Unpause
    \/ OpenCodec \/ OpenCodecFails
    \/ TestQuit \/ TestAbord \/ RestartFlush
    \/ TestSeek \/ SeekFlush \/ SeekPut \/ SeekFails
    \/ Throttle \/ ReadFails \/ ReadFrame \/ PutPacket

===============================================================================
