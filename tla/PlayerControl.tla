----------------------------- MODULE PlayerControl -----------------------------
(***************************************************************************)
(* The control interface: src/player_core.c over the cp_* functions of      *)
(* src/player_core/player.c, called by the GTK main loop (buttons, slider,  *)
(* window) and by the watchdog thread of src/main.c.  A call is a sequence  *)
(* of steps, one per access to what other threads read or write.            *)
(***************************************************************************)
EXTENDS AudioState

DataUnchanged ==
    UNCHANGED <<readVars, pktVars, bufVars, audio_opend, localVars>>

CallUnchanged ==
    DataUnchanged /\ UNCHANGED <<player, flagVars, song>>

-------------------------------------------------------------------------------
(* load_song and cp_load_file, on the GTK thread or on the watchdog's.      *)

\* First load: init_player, then player_create and stream_open, which starts the
\* read thread.  One step here, as the watchdog is started after it and the GTK thread
\* makes the call; the display's thread, which may find the player half made, is in
\* module Clock, where the load takes its steps.
InitPlayer(f) ==
    /\ pc["gtk"] = "idle" /\ pc["reader"] = "none"
    /\ ~alive
    /\ pc' = [pc EXCEPT !["gtk"] = "load_status", !["reader"] = "reset_index"]
    /\ player' = "live"
    /\ input_filename' = f
    /\ playing_status' = "PLAYING"
    /\ alive' = TRUE
    /\ DataUnchanged
    /\ UNCHANGED <<read_thread_abord, quit, seek_req, queueVars, flagVars, device,
                   watch_dog_started, song, resumed_early>>

LoadBegin(t, from, f) ==
    /\ Goto(t, from, "load_pause")
    /\ song' = [song EXCEPT ![t] = f]
    /\ DataUnchanged
    /\ UNCHANGED <<player, requestVars, queueVars, flagVars, device, statusVars, resumed_early>>

LoadSong(f) == "load" \in Calls /\ alive /\ LoadBegin("gtk", "idle", f)

\* Mutant of LoadPause: the device runs on.
LoadPauseOmitted(t) ==
    /\ Goto(t, "load_pause", "load_flag")
    /\ CallUnchanged
    /\ UNCHANGED <<requestVars, queueVars, device, statusVars, resumed_early>>

LoadPause(t) ==
    /\ Goto(t, "load_pause", "load_flag")
    /\ PauseAudio(TRUE)
    /\ CallUnchanged
    /\ UNCHANGED <<requestVars, queueVars, statusVars, resumed_early>>

LoadFlag(t) ==
    /\ Goto(t, "load_flag", "load_name")
    /\ no_more_data_in_the_queue' = FALSE
    /\ CallUnchanged
    /\ UNCHANGED <<requestVars, audio_queue, device, statusVars, resumed_early>>

LoadName(t) ==
    /\ Goto(t, "load_name", "load_abord")
    /\ input_filename' = song[t]
    /\ CallUnchanged
    /\ UNCHANGED <<read_thread_abord, quit, seek_req, queueVars, device, statusVars,
                   resumed_early>>

\* Mutant of LoadAbord: the read thread is not told.
LoadAbordOmitted(t) ==
    /\ Goto(t, "load_abord", "load_status")
    /\ CallUnchanged
    /\ UNCHANGED <<requestVars, queueVars, device, statusVars, resumed_early>>

LoadAbord(t) ==
    /\ Goto(t, "load_abord", "load_status")
    /\ read_thread_abord' = TRUE
    /\ CallUnchanged
    /\ UNCHANGED <<input_filename, quit, seek_req, queueVars, device, statusVars,
                   resumed_early>>

\* playing_status, then start_watch_dog in the caller.
LoadStatus(t) ==
    /\ Goto(t, "load_status", "idle")
    /\ playing_status' = "PLAYING"
    /\ watch_dog_started' = TRUE
    /\ song' = [song EXCEPT ![t] = NULL]
    /\ DataUnchanged
    /\ UNCHANGED <<player, requestVars, queueVars, flagVars, device, alive, resumed_early>>

-------------------------------------------------------------------------------
(* stop_song and cp_stop_audio                                              *)

GtkUnchanged ==
    CallUnchanged /\ UNCHANGED <<requestVars, alive, watch_dog_started>>

StopSong ==
    /\ "stop" \in Calls
    /\ alive
    /\ Goto("gtk", "idle", IF playing_status # "STOP" /\ ~stopped
                           THEN "stop_pause" ELSE "stop_status")
    /\ stopped' = (stopped \/ playing_status # "STOP")
    /\ DataUnchanged
    /\ UNCHANGED <<player, requestVars, queueVars, paused, device, statusVars, song,
                   resumed_early>>

StopPause ==
    /\ Goto("gtk", "stop_pause", "stop_flush")
    /\ PauseAudio(TRUE)
    /\ GtkUnchanged
    /\ UNCHANGED <<queueVars, playing_status, resumed_early>>

StopFlush ==
    /\ Goto("gtk", "stop_flush", "stop_status")
    /\ QueueFlush
    /\ GtkUnchanged
    /\ UNCHANGED <<device, playing_status, resumed_early>>

StopStatus ==
    /\ Goto("gtk", "stop_status", "idle")
    /\ playing_status' = "STOP"
    /\ GtkUnchanged
    /\ UNCHANGED <<queueVars, device, resumed_early>>

-------------------------------------------------------------------------------
(* pause_song and cp_pause_audio                                            *)

PauseSong ==
    /\ "pause" \in Calls
    /\ alive /\ playing_status # "STOP"
    /\ Goto("gtk", "idle", "pause_device")
    /\ playing_status' = IF playing_status = "PAUSE" THEN "PLAYING" ELSE "PAUSE"
    /\ paused' = ~paused
    /\ DataUnchanged
    /\ UNCHANGED <<player, requestVars, queueVars, stopped, device, alive,
                   watch_dog_started, song, resumed_early>>

PauseDevice ==
    /\ Goto("gtk", "pause_device", "idle")
    /\ PauseAudio(paused)
    /\ IF paused THEN UNCHANGED resumed_early ELSE Resuming("gtk")
    /\ GtkUnchanged
    /\ UNCHANGED <<queueVars, playing_status>>

(* seek, cp_seek_audio and stream_seek: a request already pending stays.    *)
Seek ==
    /\ "seek" \in Calls
    /\ pc["gtk"] = "idle"
    /\ alive /\ playing_status = "PLAYING"
    /\ seek_req' = TRUE
    /\ CallUnchanged
    /\ UNCHANGED <<input_filename, read_thread_abord, quit, queueVars, device, statusVars,
                   pc, resumed_early>>

-------------------------------------------------------------------------------
(* free_player after gtk_main: stream_close waits for the read thread, then *)
(* pauses the device, then releases what the audio thread uses.             *)

FreePlayer ==
    /\ "free" \in Calls
    /\ Goto("gtk", "idle", IF player = "live" THEN "free_wait" ELSE "free_status")
    /\ quit' = (player = "live")
    /\ CallUnchanged
    /\ UNCHANGED <<input_filename, read_thread_abord, seek_req, queueVars, device,
                   statusVars, resumed_early>>

\* Mutant of FreeWait: the read thread is not waited for.
FreeWaitOmitted ==
    /\ Goto("gtk", "free_wait", "free_pause")
    /\ GtkUnchanged
    /\ UNCHANGED <<queueVars, device, playing_status, resumed_early>>

FreeWait ==
    /\ Goto("gtk", "free_wait", "free_pause")
    /\ pc["reader"] = "exited"
    /\ GtkUnchanged
    /\ UNCHANGED <<queueVars, device, playing_status, resumed_early>>

FreePause ==
    /\ Goto("gtk", "free_pause", "free_release")
    /\ PauseAudio(TRUE)
    /\ GtkUnchanged
    /\ UNCHANGED <<queueVars, playing_status, resumed_early>>

FreeRelease ==
    /\ Goto("gtk", "free_release", "free_status")
    /\ player' = "freed"
    /\ audio_codec_ctx' = "null"
    /\ format_ctx' = NULL
    /\ QueueFlush
    /\ UNCHANGED <<requestVars, read_pos, pktVars, bufVars, flagVars, audio_opend, device,
                   statusVars, song, localVars, resumed_early>>

FreeStatus ==
    /\ Goto("gtk", "free_status", "ended")
    /\ playing_status' = "STOP"
    /\ alive' = FALSE
    /\ CallUnchanged
    /\ UNCHANGED <<requestVars, queueVars, device, watch_dog_started, resumed_early>>

-------------------------------------------------------------------------------
(* watch_dog and stopping of src/main.c: once a second, or three seconds    *)
(* after it acted, poll the flag; unless stopped, play the cursor's song or *)
(* the one below.                                                           *)

DogPoll ==
    /\ watch_dog_started
    /\ no_more_data_in_the_queue
    /\ Goto("dog", "idle", "stopping")
    /\ CallUnchanged
    /\ UNCHANGED <<requestVars, queueVars, device, statusVars, resumed_early>>

\* playing_status is STOP, or the playlist has no row to play.
DogReturns ==
    /\ Goto("dog", "stopping", "idle")
    /\ CallUnchanged
    /\ UNCHANGED <<requestVars, queueVars, device, statusVars, resumed_early>>

DogLoad(f) == playing_status # "STOP" /\ LoadBegin("dog", "stopping", f)

ControlNext ==
    \/ \E f \in Files : InitPlayer(f) \/ LoadSong(f) \/ DogLoad(f)
    \/ \E t \in Controllers : \/ LoadPause(t) \/ LoadFlag(t) \/ LoadName(t)
                              \/ LoadAbord(t) \/ LoadStatus(t)
    \/ StopSong \/ StopPause \/ StopFlush \/ StopStatus
    \/ PauseSong \/ PauseDevice \/ Seek
    \/ FreePlayer \/ FreeWait \/ FreePause \/ FreeRelease \/ FreeStatus
    \/ DogPoll \/ DogReturns

===============================================================================
