------------------------------ MODULE AudioState ------------------------------
(***************************************************************************)
(* The state the threads of the player share: struct AudioState of         *)
(* src/player_core/player_def.h, the globals of player.c and player_core.c, *)
(* and the SDL audio device.  ReadThread, AudioCallback and PlayerControl   *)
(* hold the steps of the threads, Player composes them.                     *)
(*                                                                         *)
(* A packet is a file and a position in it.  The packet queue is the FIFO  *)
(* that PacketQueue is shown to implement, each of its operations a step.  *)
(***************************************************************************)
EXTENDS Integers, Sequences, FiniteSets

CONSTANTS Files,       \* songs that can be asked for
          Unplayable,  \* those whose opening may fail, at some stage
          NPackets,    \* packets per file
          MaxQueue,    \* MAX_AUDIOQ_SIZE, in packets
          StreamLen,   \* bytes one callback must deliver
          FrameLen,    \* bytes one decoded frame yields
          SilenceLen,  \* SDL_AUDIO_MIN_BUFFER_SIZE
          Calls,       \* what the user does: calls of the control interface
          NULL

ASSUME FilesAssumption  == NULL \notin Files /\ Unplayable \subseteq Files
ASSUME CallsAssumption  == Calls \subseteq {"load", "stop", "pause", "seek", "free"}
ASSUME BoundsAssumption ==
    /\ NPackets \in Nat /\ MaxQueue \in Nat
    /\ StreamLen \in Nat \ {0} /\ FrameLen \in Nat \ {0} /\ SilenceLen \in Nat \ {0}

VARIABLES
    player,             \* global_cplayer_ctx and its AudioState: "none", "live", "freed"
    input_filename,     \* the file asked for last
    read_thread_abord,  \* a reload is requested
    quit,               \* stream_close has begun
    seek_req,           \* a seek is requested
    format_ctx,         \* the open file, or NULL
    read_pos,           \* packets of it read so far
    audio_codec_ctx,    \* "null", "copied" (not opened) or "open"
    audio_queue, no_more_data_in_the_queue,
    audio_pkt, audio_pkt_size,       \* the packet being decoded, bytes left in it
    audio_buf_size, audio_buf_index, \* decoded bytes, and how many were delivered
    audio_opend, paused, stopped,    \* control flags of AudioState
    device,             \* SDL: "closed", "paused", "running" or "closing"
    playing_status, alive, watch_dog_started,  \* globals of player_core.c, main.c
    pc, song,           \* where each thread is; the file a controller is loading
    len, len1,          \* locals of audio_callback
    resumed_early       \* history variable: see Resuming

requestVars == <<input_filename, read_thread_abord, quit, seek_req>>
readVars    == <<format_ctx, read_pos, audio_codec_ctx>>
queueVars   == <<audio_queue, no_more_data_in_the_queue>>
pktVars     == <<audio_pkt, audio_pkt_size>>
bufVars     == <<audio_buf_size, audio_buf_index>>
flagVars    == <<paused, stopped>>
statusVars  == <<playing_status, alive, watch_dog_started>>
localVars   == <<len, len1>>
vars == <<player, requestVars, readVars, queueVars, pktVars, bufVars, flagVars,
          audio_opend, device, statusVars, pc, song, localVars, resumed_early>>

Controllers == {"gtk", "dog"}   \* the GTK main loop and the watchdog thread
Threads == {"reader", "audio"} \cup Controllers

AudioPackets == [file : Files, pos : 1 .. NPackets]
FlushPkt     == [flush |-> TRUE]
Packets      == AudioPackets \cup {FlushPkt}

\* Bytes queued: the flush packet has size 0.
QueueSize == Cardinality({i \in DOMAIN audio_queue : audio_queue[i] # FlushPkt})

Init ==
    /\ player = "none"
    /\ input_filename = NULL /\ read_thread_abord = FALSE
    /\ quit = FALSE /\ seek_req = FALSE
    /\ format_ctx = NULL /\ read_pos = 0 /\ audio_codec_ctx = "null"
    /\ audio_queue = <<>> /\ no_more_data_in_the_queue = FALSE
    /\ audio_pkt = NULL /\ audio_pkt_size = 0
    /\ audio_buf_size = 0 /\ audio_buf_index = 0
    /\ audio_opend = FALSE /\ paused = FALSE /\ stopped = FALSE
    /\ device = "closed"
    /\ playing_status = "STOP" /\ alive = FALSE /\ watch_dog_started = FALSE
    /\ pc = [t \in Threads |-> IF t = "reader" THEN "none" ELSE "idle"]
    /\ song = [t \in Controllers |-> NULL]
    /\ len = 0 /\ len1 = 0
    /\ resumed_early = FALSE

Goto(t, from, to) ==
    /\ pc[t] = from
    /\ pc' = [pc EXCEPT ![t] = to]

-------------------------------------------------------------------------------
(* packet_queue_put and packet_queue_flush, as one step each.               *)

QueuePut(p) ==
    /\ audio_queue' = Append(audio_queue, p)
    /\ no_more_data_in_the_queue' = FALSE

QueueFlush ==
    /\ audio_queue' = <<>>
    /\ UNCHANGED no_more_data_in_the_queue

(* SDL_PauseAudio takes the lock the audio thread holds during a callback,  *)
(* and does nothing while no device is open.                                *)
PauseAudio(on) ==
    /\ pc["audio"] = "idle"
    /\ device' = IF device \in {"paused", "running"}
                 THEN IF on THEN "paused" ELSE "running"
                 ELSE device

-------------------------------------------------------------------------------
(* A reload: cp_load_file has paused the device and the read thread has not *)
(* yet set up the decoder of the file asked for.                            *)

Restarting == {"restart_flush", "reset_index", "reset_size", "reset_pkt", "clean",
               "open", "dev_close", "dev_closing", "dev_open", "unpause"}

LoadUnderWay(t) == pc[t] \in {"load_flag", "load_name", "load_abord"}

ReloadPending == read_thread_abord \/ \E t \in Controllers : LoadUnderWay(t)

\* resumed_early records that a device was set running although a reload is
\* pending or, for a thread other than the read thread, still under way there.
Resuming(t) ==
    resumed_early' = (\/ resumed_early
                      \/ ReloadPending
                      \/ t # "reader" /\ pc["reader"] \in Restarting)

===============================================================================
