-------------------------------- MODULE Clock --------------------------------
(***************************************************************************)
(* The time display and the slider: AudioState.duration and audio_clock are  *)
(* written by the read thread, the audio callback and the stop button, and   *)
(* read without a lock by the thread of update_tick (src/main.c), which      *)
(* moves the slider; a slider that moves far asks for a seek, whoever moved  *)
(* it.  Every value carries the file it is about.                            *)
(*                                                                           *)
(* Times of packets and of the clock are tenths of a second, lengths are     *)
(* whole seconds, positions of the slider percents.  The threads' steps on   *)
(* the queue, the device and the requests are module Player's; here each is  *)
(* as fine as what the display can see, the first load among them, which     *)
(* announces the player before it has made it.                               *)
(***************************************************************************)
EXTENDS Integers, Sequences

CONSTANTS
    Files,
    NoFile,
    Packets,    \* how many packets a file has
    Stated,     \* how long its container says that it is, in tenths
    Bare,       \* files that state no length and whose packets carry no time
    Tenths,     \* the length of a packet
    MaxQueue,   \* packets that fit under MAX_AUDIOQ_SIZE
    MaxClock,   \* bound: the clock of a bare file
    MaxInt,     \* the largest int
    Drags,      \* where the user moves the slider
    DogFiles    \* bound: files the watchdog goes on to

ASSUME ClockAssumption ==
    /\ NoFile \notin Files /\ Bare \subseteq Files /\ DogFiles \subseteq Files
    /\ Packets \in [Files -> Nat] /\ Stated \in [Files -> Nat] /\ Tenths \in Nat \ {0} /\ MaxQueue \in Nat
    /\ MaxClock \in Nat /\ \A f \in Files : Packets[f] * Tenths <= MaxClock
    /\ MaxInt \in Nat /\ MaxInt > 100 /\ Drags \subseteq 0 .. 100

VARIABLES
    playing_status, input_filename, read_thread_abord, paused, stopped,
    player, pc,                         \* the player, and where the two threads that load are
    reader, file, next,                 \* the read thread, the open file, its next packet
    queue, packet, decoded,             \* packets [file, at]; the one being decoded, if any;
                                        \* history: the open file's clock has been set
    duration, duration_of, audio_clock, clock_of,
    seek_req, seek_pos, seek_of,
    seek_calm,                          \* history: no load met the seek
    slider, global_slider_value,
    tick, length, length_of, pos, pos_of, percent,
    moved                               \* history: the user moved the slider meanwhile

controlVars == <<playing_status, input_filename, read_thread_abord, paused, stopped, player, pc>>
readVars == <<reader, file, next, queue, decoded>>
timeVars == <<duration, duration_of, audio_clock, clock_of>>
seekVars == <<seek_req, seek_pos, seek_of, seek_calm>>
sliderVars == <<slider, global_slider_value, moved>>
tickVars == <<tick, length, length_of, pos, pos_of, percent>>
vars == <<controlVars, readVars, packet, timeVars, seekVars, sliderVars, tickVars>>

\* How long a file lasts, and the whole seconds of what it states, which need not be
\* the same: the container's length may be an estimate.
Lasts(f) == Packets[f] * Tenths
Length(f) == Stated[f] \div 10
Shortfall(f) == IF Lasts(f) > Stated[f] THEN Lasts(f) - Stated[f] ELSE 0

Loaders == {"gtk", "dog"}
Goto(t, from, to) == pc[t] = from /\ pc' = [pc EXCEPT ![t] = to]

NoPacket == [file |-> NoFile, at |-> 0]
Upto(b, x) == IF x < b THEN x ELSE b

\* Converting a double that is not an int's, or is no number, yields whatever the
\* processor puts there.
Garbage == {-MaxInt - 1, 0, MaxInt}
ToInt(x) == IF x \in -MaxInt .. MaxInt THEN x ELSE -MaxInt - 1
Clamp(v) == IF v < 0 THEN 0 ELSE Upto(100, v)

Init ==
    /\ playing_status = "STOP" /\ input_filename = NoFile /\ read_thread_abord = FALSE
    /\ paused = TRUE /\ stopped = FALSE
    /\ player = "none" /\ pc = [t \in Loaders |-> "idle"]
    /\ reader = "none" /\ file = NoFile /\ next = 0 /\ queue = <<>>
    /\ packet = NoPacket /\ decoded = FALSE
    /\ duration = 0 /\ duration_of = NoFile /\ audio_clock = 0 /\ clock_of = NoFile
    /\ seek_req = FALSE /\ seek_pos = 0 /\ seek_of = NoFile /\ seek_calm = FALSE
    /\ slider = 0 /\ global_slider_value = 0 /\ moved = FALSE
    /\ tick = "idle" /\ length = 0 /\ length_of = NoFile
    /\ pos = 0 /\ pos_of = NoFile /\ percent = 0

-----------------------------------------------------------------------------
(* The user loads and stops songs, the watchdog loads them.  The first load   *)
(* is the user's: it announces a song, then the player, then what the player *)
(* consists of, and starts the read thread.                                  *)

InitPlayer(f) ==
    /\ player = "none" /\ Goto("gtk", "idle", "create")
    /\ playing_status' = "PLAYING" /\ input_filename' = f
    /\ UNCHANGED <<read_thread_abord, paused, stopped, player, readVars, packet, timeVars,
                   seekVars, sliderVars, tickVars>>

PlayerCreate ==
    /\ Goto("gtk", "create", "stream") /\ player' = "created"
    /\ UNCHANGED <<playing_status, input_filename, read_thread_abord, paused, stopped,
                   readVars, packet, timeVars, seekVars, sliderVars, tickVars>>

StreamOpen ==
    /\ tick # "crashed"
    /\ Goto("gtk", "stream", "idle") /\ player' = "live" /\ reader' = "open"
    /\ UNCHANGED <<playing_status, input_filename, read_thread_abord, paused, stopped, file,
                   next, queue, decoded, packet, timeVars, seekVars, sliderVars, tickVars>>

\* The other loads.  Pausing the device waits for a callback to return.  The watchdog
\* may load after a stop too: it looks at the status before it scrolls.
LoadPause(t, f) ==
    /\ player = "live" /\ packet = NoPacket
    /\ t = "dog" => f \in DogFiles
    /\ Goto(t, "idle", "load")
    /\ paused' = TRUE /\ input_filename' = f
    /\ UNCHANGED <<playing_status, read_thread_abord, stopped, player, readVars, packet,
                   timeVars, seekVars, sliderVars, tickVars>>

LoadAbord(t) ==
    /\ Goto(t, "load", "status")
    /\ read_thread_abord' = TRUE /\ seek_calm' = FALSE
    /\ UNCHANGED <<playing_status, input_filename, paused, stopped, player, readVars, packet,
                   timeVars, seek_req, seek_pos, seek_of, sliderVars, tickVars>>

LoadStatus(t) ==
    /\ Goto(t, "status", "idle") /\ playing_status' = "PLAYING"
    /\ UNCHANGED <<input_filename, read_thread_abord, paused, stopped, player, readVars, packet,
                   timeVars, seekVars, sliderVars, tickVars>>

\* cp_stop_audio, the first time it is called: `stopped` stays.
StopAudio ==
    /\ playing_status # "STOP"
    /\ stopped \/ packet = NoPacket
    /\ Goto("gtk", "idle", IF stopped THEN "stop" ELSE "zero") /\ stopped' = TRUE
    /\ IF stopped
       THEN UNCHANGED <<paused, queue, duration, duration_of>>
       ELSE paused' = TRUE /\ queue' = <<>> /\ duration' = 0 /\ duration_of' = NoFile
    /\ UNCHANGED <<playing_status, input_filename, read_thread_abord, player, reader, file,
                   next, decoded, packet, audio_clock, clock_of, seekVars, sliderVars, tickVars>>

StopClock ==
    /\ Goto("gtk", "zero", "stop")
    /\ audio_clock' = 0 /\ clock_of' = NoFile /\ decoded' = FALSE
    /\ UNCHANGED <<playing_status, input_filename, read_thread_abord, paused, stopped, player,
                   reader, file, next, queue, packet, duration, duration_of, seekVars,
                   sliderVars, tickVars>>

StopStatus ==
    /\ Goto("gtk", "stop", "idle") /\ playing_status' = "STOP"
    /\ UNCHANGED <<input_filename, read_thread_abord, paused, stopped, player, readVars, packet,
                   timeVars, seekVars, sliderVars, tickVars>>

-----------------------------------------------------------------------------
(* The read thread                                                           *)

OpenFile ==
    /\ reader = "open" /\ reader' = "length"
    /\ file' = input_filename /\ next' = 0 /\ decoded' = FALSE
    /\ UNCHANGED <<controlVars, queue, packet, timeVars, seekVars, sliderVars, tickVars>>

\* Mutant of SetDuration: only a length not known yet is set.
SetDurationOnce ==
    /\ reader = "length" /\ reader' = "device"
    /\ IF file \in Bare \/ duration # 0
       THEN UNCHANGED <<duration, duration_of>>
       ELSE duration' = Length(file) /\ duration_of' = file
    /\ UNCHANGED <<controlVars, file, next, queue, decoded, packet, audio_clock, clock_of,
                   seekVars, sliderVars, tickVars>>

SetDuration ==
    /\ reader = "length" /\ reader' = "device"
    /\ IF file \in Bare
       THEN UNCHANGED <<duration, duration_of>>
       ELSE duration' = Length(file) /\ duration_of' = file
    /\ UNCHANGED <<controlVars, file, next, queue, decoded, packet, audio_clock, clock_of,
                   seekVars, sliderVars, tickVars>>

AudioOpen ==
    /\ reader = "device" /\ reader' = "loop"
    /\ paused' = FALSE
    /\ UNCHANGED <<playing_status, input_filename, read_thread_abord, stopped, player, pc, file,
                   next, queue, decoded, packet, timeVars, seekVars, sliderVars, tickVars>>

\* Mutant of StartOver: the packets of the last file stay queued.
StartOverKeepsQueue ==
    /\ reader = "loop" /\ read_thread_abord /\ reader' = "open"
    /\ read_thread_abord' = FALSE
    /\ file' = NoFile /\ next' = 0 /\ decoded' = FALSE
    /\ UNCHANGED <<playing_status, input_filename, paused, stopped, player, pc, queue, packet,
                   timeVars, seekVars, sliderVars, tickVars>>

\* What it starts with is to close the file.
StartOver ==
    /\ reader = "loop" /\ read_thread_abord /\ reader' = "open"
    /\ read_thread_abord' = FALSE /\ queue' = <<>>
    /\ file' = NoFile /\ next' = 0 /\ decoded' = FALSE
    /\ UNCHANGED <<playing_status, input_filename, paused, stopped, player, pc, packet,
                   timeVars, seekVars, sliderVars, tickVars>>

\* av_seek_frame may refuse any target; one past the end may lead to the end.
SeekFrame ==
    /\ reader = "loop" /\ seek_req
    /\ seek_req' = FALSE /\ seek_pos' = 0 /\ seek_of' = NoFile /\ seek_calm' = FALSE
    /\ \/ /\ next' = Upto(Packets[file], seek_pos \div Tenths)
          /\ queue' = <<>>
       \/ UNCHANGED <<next, queue>>
    /\ UNCHANGED <<controlVars, reader, file, decoded, packet, timeVars, sliderVars, tickVars>>

\* Mutant of ReadFrame: the size of the queue is not looked at.
ReadFrameUnthrottled ==
    /\ reader = "loop" /\ ~seek_req /\ next < Packets[file]
    /\ queue' = Append(queue, [file |-> file, at |-> next * Tenths]) /\ next' = next + 1
    /\ UNCHANGED <<controlVars, reader, file, decoded, packet, timeVars, seekVars, sliderVars,
                   tickVars>>

ReadFrame ==
    /\ reader = "loop" /\ ~seek_req /\ next < Packets[file] /\ Len(queue) < MaxQueue
    /\ queue' = Append(queue, [file |-> file, at |-> next * Tenths]) /\ next' = next + 1
    /\ UNCHANGED <<controlVars, reader, file, decoded, packet, timeVars, seekVars, sliderVars,
                   tickVars>>

-----------------------------------------------------------------------------
(* The audio callback: a packet's time, then the samples decoded from it.  A *)
(* packet without a time lets the clock run on from where another file left it. *)

GetPacket ==
    /\ ~paused /\ packet = NoPacket /\ queue # <<>>
    /\ packet' = Head(queue) /\ queue' = Tail(queue)
    /\ IF packet'.file \in Bare
       THEN clock_of' = NoFile /\ UNCHANGED <<audio_clock, decoded>>
       ELSE audio_clock' = packet'.at /\ clock_of' = packet'.file /\ decoded' = TRUE
    /\ UNCHANGED <<controlVars, reader, file, next, duration, duration_of, seekVars,
                   sliderVars, tickVars>>

\* Mutant of DecodeFrame: two bytes a sample are forgotten.
DecodeFrameTwice ==
    /\ packet # NoPacket /\ packet' = NoPacket
    /\ audio_clock' = audio_clock + 2 * Tenths
    /\ UNCHANGED <<controlVars, readVars, duration, duration_of, clock_of, seekVars,
                   sliderVars, tickVars>>

DecodeFrame ==
    /\ packet # NoPacket /\ packet' = NoPacket
    /\ audio_clock' = Upto(MaxClock, audio_clock + Tenths)
    /\ UNCHANGED <<controlVars, readVars, duration, duration_of, clock_of, seekVars,
                   sliderVars, tickVars>>

-----------------------------------------------------------------------------
(* slider_value_changed, seek, cp_seek_audio and stream_seek.                *)

SeekAudio(p) ==
    IF playing_status = "PLAYING" /\ player = "live" /\ ~seek_req
    THEN /\ seek_req' = TRUE /\ seek_pos' = (duration * p) \div 10 /\ seek_of' = duration_of
         /\ seek_calm' = (reader = "loop" /\ ~read_thread_abord)
    ELSE UNCHANGED seekVars

Far(v, g) == LET d == ToInt(v - g) IN d # -MaxInt - 1 /\ (d > 5 \/ -d > 5)

\* The slider is set to v while the last value stored is g; its handler runs on
\* the thread that set it, and only if the value is another.
Seeks(v, g) == Clamp(v) # slider /\ Far(Clamp(v), g)

SetValue(v, g) ==
    /\ slider' = Clamp(v)
    /\ IF Seeks(v, g)
       THEN global_slider_value' = slider' /\ SeekAudio(slider')
       ELSE global_slider_value' = g /\ UNCHANGED seekVars

DragSlider(v) ==
    /\ pc["gtk"] = "idle" /\ v # slider
    /\ SetValue(v, global_slider_value)
    /\ moved' = (tick \in {"set", "zero"})
    /\ UNCHANGED <<controlVars, readVars, packet, timeVars, tickVars>>

-----------------------------------------------------------------------------
(* update_tick                                                               *)

TickStopped ==
    /\ tick = "idle" /\ playing_status = "STOP" /\ tick' = "zero"
    /\ global_slider_value' = 0 /\ moved' = FALSE
    /\ UNCHANGED <<controlVars, readVars, packet, timeVars, seekVars, slider, length, length_of,
                   pos, pos_of, percent>>

TickPlaying ==
    /\ tick = "idle" /\ playing_status = "PLAYING" /\ tick' = "length"
    /\ UNCHANGED <<controlVars, readVars, packet, timeVars, seekVars, sliderVars, length,
                   length_of, pos, pos_of, percent>>

\* Each getter reads the status again, and gives 0 while there is no player.
Silent == playing_status = "STOP" \/ player = "none"

TickLength ==
    /\ tick = "length" /\ tick' = "pos"
    /\ IF Silent THEN length' = 0 /\ length_of' = NoFile
                 ELSE player = "live" /\ length' = duration /\ length_of' = duration_of
    /\ UNCHANGED <<controlVars, readVars, packet, timeVars, seekVars, sliderVars, pos, pos_of,
                   percent>>

\* The percentage is the thread's own until it is stored.
TickPos ==
    /\ tick = "pos" /\ tick' = "store"
    /\ IF Silent THEN pos' = 0 /\ pos_of' = NoFile
                 ELSE player = "live" /\ pos' = audio_clock /\ pos_of' = clock_of
    /\ UNCHANGED <<controlVars, readVars, packet, timeVars, seekVars, sliderVars, length,
                   length_of, percent>>

\* The player was announced and has no AudioState yet: whoever asks it for a time, or
\* to seek, follows a null pointer, and the program ends: the load goes no further.
TickCrash ==
    /\ player = "created" /\ playing_status = "PLAYING"
    /\ \/ tick \in {"length", "pos"}
       \/ tick \in {"set", "zero"} /\ Seeks(percent, global_slider_value)
    /\ tick' = "crashed"
    /\ UNCHANGED <<controlVars, readVars, packet, timeVars, seekVars, sliderVars, length,
                   length_of, pos, pos_of, percent>>

\* Mutant of TickStore: the slider is moved without saying so.
TickStoreOmitted ==
    /\ tick = "store" /\ tick' = "set" /\ moved' = FALSE
    /\ percent' \in IF length = 0 THEN Garbage ELSE {(pos * 10) \div length}
    /\ UNCHANGED <<controlVars, readVars, packet, timeVars, seekVars, slider,
                   global_slider_value, length, length_of, pos, pos_of>>

TickStore ==
    /\ tick = "store" /\ tick' = "set"
    /\ percent' \in IF length = 0 THEN Garbage ELSE {(pos * 10) \div length}
    /\ global_slider_value' = percent' /\ moved' = FALSE
    /\ UNCHANGED <<controlVars, readVars, packet, timeVars, seekVars, slider, length, length_of,
                   pos, pos_of>>

\* Setting the slider, with the handler the change calls.
TickSet ==
    /\ tick \in {"set", "zero"} /\ tick' = "idle"
    /\ Seeks(percent, global_slider_value) => player # "created"
    /\ SetValue(percent, global_slider_value)
    /\ length' = 0 /\ length_of' = NoFile /\ pos' = 0 /\ pos_of' = NoFile /\ percent' = 0
    /\ moved' = FALSE
    /\ UNCHANGED <<controlVars, readVars, packet, timeVars>>

-----------------------------------------------------------------------------
ControlNext ==
    \/ \E f \in Files : InitPlayer(f) \/ \E t \in Loaders : LoadPause(t, f)
    \/ PlayerCreate \/ StreamOpen
    \/ \E t \in Loaders : LoadAbord(t) \/ LoadStatus(t)
    \/ StopAudio \/ StopClock \/ StopStatus

PlayerNext ==
    \/ OpenFile \/ SetDuration \/ AudioOpen \/ StartOver \/ SeekFrame \/ ReadFrame
    \/ GetPacket \/ DecodeFrame

DisplayNext ==
    \/ \E v \in Drags : DragSlider(v)
    \/ TickStopped \/ TickPlaying \/ TickLength \/ TickPos \/ TickCrash \/ TickStore \/ TickSet

Next == ControlNext \/ PlayerNext \/ DisplayNext

Spec == Init /\ [][Next]_vars

-----------------------------------------------------------------------------
Known == Files \cup {NoFile}
ControlTypeOK ==
    /\ playing_status \in {"STOP", "PLAYING"} /\ player \in {"none", "created", "live"}
    /\ pc \in [Loaders -> {"idle", "create", "stream", "load", "status", "zero", "stop"}]
    /\ input_filename \in Known
    /\ read_thread_abord \in BOOLEAN /\ paused \in BOOLEAN /\ stopped \in BOOLEAN
ReadTypeOK ==
    /\ reader \in {"none", "open", "length", "device", "loop"}
    /\ file \in Known /\ next \in Nat /\ decoded \in BOOLEAN
    /\ queue \in Seq([file : Files, at : Nat]) /\ Len(queue) <= MaxQueue
    /\ packet = NoPacket \/ packet \in [file : Files, at : Nat]
TimeTypeOK ==
    /\ duration \in Nat /\ duration_of \in Known
    /\ audio_clock \in 0 .. MaxClock /\ clock_of \in Known
SeekTypeOK ==
    /\ seek_req \in BOOLEAN /\ seek_calm \in BOOLEAN
    /\ seek_pos \in Nat /\ seek_of \in Known
DisplayTypeOK ==
    /\ slider \in 0 .. 100 /\ global_slider_value \in Garbage \cup Nat
    /\ moved \in BOOLEAN /\ tick \in {"idle", "zero", "length", "pos", "store", "set", "crashed"}
    /\ length \in Nat /\ length_of \in Known /\ pos \in 0 .. MaxClock /\ pos_of \in Known
    /\ percent \in Garbage \cup Nat
TypeOK == ControlTypeOK /\ ReadTypeOK /\ TimeTypeOK /\ SeekTypeOK /\ DisplayTypeOK

\* The clock and the length are those of the file that is open as soon as one of
\* its packets was decoded, whatever file was playing, queued or being decoded
\* when the load came, if it states its length and times and no stop has zeroed
\* them since.
TimesOfOpenFile ==
    decoded /\ reader = "loop" => clock_of = file /\ duration_of \in {file, NoFile}

\* The position shown is never past the end of its file; nor is it past the length
\* shown, if the two are of the same file, by more than the second that the length lost
\* and what the container's statement falls short of the file.
ShownWithinLength ==
    tick \in {"store", "set"} /\ pos_of # NoFile =>
        /\ pos <= Lasts(pos_of)
        /\ length_of = pos_of => pos < 10 * (length + 1) + Shortfall(pos_of)

\* A seek asked for while the read thread was reading the file it asks about is
\* performed on that file, and within its length, unless a load came between.
SeekFitsItsFile ==
    reader = "loop" /\ seek_req /\ seek_calm =>
        /\ seek_of \in {file, NoFile} \/ file \in Bare
        /\ seek_of = file => seek_pos <= 10 * Length(file)

\* A file that lasts 6 percent more than the whole seconds it states, as one of 10.9
\* seconds does: near its end the percentage is beyond 105.
Overlong(f) == 10 * Lasts(f) >= 106 * Length(f)

\* What is set divides by 0, by the length of another file, or is near the end of an
\* overlong one.
NoPercentage ==
    /\ tick = "set"
    /\ \/ length_of # pos_of \/ length = 0
       \/ Overlong(pos_of) /\ 10 * pos >= 106 * length

\* Though it moves the slider ten times a second the display seeks only if the user
\* moved the slider between the display's two stores, or if what it has set is no
\* percentage of the song, as near the end of one that is overlong.
DisplaySeeksOnlyIfRaced ==
    [][tick' = "idle" /\ tick \in {"set", "zero"} /\ ~moved /\ ~NoPercentage
          => global_slider_value' = global_slider_value]_vars
=============================================================================
