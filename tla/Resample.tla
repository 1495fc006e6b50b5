------------------------------ MODULE Resample ------------------------------
(***************************************************************************)
(* audio_resampling (player_core/player.c:59): one call for each decoded    *)
(* frame, on the audio callback's thread, which takes a resampling context,  *)
(* an array of pointers and a buffer, may fail at eleven points, and hands   *)
(* its samples over in audio_buf.                                            *)
(***************************************************************************)
EXTENDS Integers

CONSTANTS
    Samples,    \* samples a decoded frame may have
    Channels,   \* channels a file may have
    Rates,      \* sample rates of the codec and of frames, in units of 22050
    Delays      \* what swr_get_delay may say

ASSUME ResampleAssumption ==
    /\ Samples \subseteq Nat /\ Channels \subseteq Nat /\ Delays \subseteq Nat
    /\ Rates \subseteq Nat \ {0}

VARIABLES
    pc, frame,
    taken,                  \* how many of each resource this call holds
    data,                   \* resampled_data[0]: "none", "live", or "freed" and kept
    room,                   \* samples the live buffer has room for
    out_nb_samples, max_out_nb_samples,
    converted, result       \* samples converted; what the call returns

bufferVars == <<taken, data, room>>
countVars == <<out_nb_samples, max_out_nb_samples>>
vars == <<pc, frame, bufferVars, countVars, converted, result>>

Frames == [samples : Samples, channels : Channels, codec_rate : Rates, rate : Rates]
Resources == {"context", "array", "buffer"}
Nothing == [r \in Resources |-> 0]
Take(R) == [r \in Resources |-> IF r \in R THEN taken[r] + 1 ELSE taken[r]]
Free(R) == [r \in Resources |-> IF r \in R THEN taken[r] - 1 ELSE taken[r]]

AudioBufSize == (192000 * 3) \div 2

\* Mutant of OutChannels: as many as the file has.
OutChannelsOfFile == frame.channels

\* AV_CH_LAYOUT_SURROUND has three channels.
OutChannels == IF frame.channels \in {1, 2} THEN frame.channels ELSE 3

\* av_rescale_rnd with AV_ROUND_UP
Rescaled(n) == (n * frame.rate + frame.codec_rate - 1) \div frame.codec_rate
Bytes(n) == 2 * OutChannels * n

Goto(from, to) == pc = from /\ pc' = to

Init ==
    /\ pc = "idle" /\ frame \in Frames
    /\ taken = Nothing /\ data = "none" /\ room = 0
    /\ out_nb_samples = 0 /\ max_out_nb_samples = 0 /\ converted = 0 /\ result = 0

Call(f) ==
    /\ Goto("idle", "alloc")
    /\ frame' = f
    /\ taken' = Nothing /\ data' = "none" /\ room' = 0
    /\ out_nb_samples' = 0 /\ max_out_nb_samples' = 0 /\ converted' = 0 /\ result' = 0

\* Each failing path returns at once.
Fail ==
    /\ pc \in {"alloc", "layout", "init", "samples", "delay", "convert", "size"}
    /\ pc' = "idle" /\ result' = -1
    /\ UNCHANGED <<frame, bufferVars, countVars, converted>>

SwrAlloc ==
    /\ Goto("alloc", "layout")
    /\ taken' = Take({"context"})
    /\ UNCHANGED <<frame, data, room, countVars, converted, result>>

CheckFrame ==
    /\ frame.channels > 0 /\ frame.samples > 0
    /\ Goto("layout", "init")
    /\ UNCHANGED <<frame, bufferVars, countVars, converted, result>>

SwrInit ==
    /\ Goto("init", "samples")
    /\ max_out_nb_samples' = Rescaled(frame.samples)
    /\ out_nb_samples' = max_out_nb_samples'
    /\ UNCHANGED <<frame, bufferVars, converted, result>>

SamplesAlloc ==
    /\ Goto("samples", "delay")
    /\ taken' = Take({"array", "buffer"}) /\ data' = "live" /\ room' = out_nb_samples
    /\ UNCHANGED <<frame, countVars, converted, result>>

Delay ==
    /\ Goto("delay", "grow")
    /\ \E d \in Delays : out_nb_samples' = Rescaled(d + frame.samples)
    /\ UNCHANGED <<frame, bufferVars, max_out_nb_samples, converted, result>>

Enough ==
    /\ out_nb_samples <= max_out_nb_samples
    /\ Goto("grow", "convert")
    /\ UNCHANGED <<frame, bufferVars, countVars, converted, result>>

\* Mutant of Grow: the first buffer is not freed.
GrowKeepsFirst ==
    /\ out_nb_samples > max_out_nb_samples
    /\ Goto("grow", "convert")
    /\ \/ data' = "live" /\ room' = out_nb_samples /\ taken' = Take({"buffer"})
       \/ data' = "live" /\ UNCHANGED <<room, taken>>
    /\ max_out_nb_samples' = out_nb_samples
    /\ UNCHANGED <<frame, out_nb_samples, converted, result>>

\* Mutant of Grow: the buffer is kept as it is.
GrowOmitted ==
    /\ out_nb_samples > max_out_nb_samples
    /\ Goto("grow", "convert")
    /\ UNCHANGED <<frame, bufferVars, countVars, converted, result>>

\* The buffer is freed and another one asked for, whose result is not looked at: if
\* there is none the pointer stays, to memory that was freed.
Grow ==
    /\ out_nb_samples > max_out_nb_samples
    /\ Goto("grow", "convert")
    /\ \/ data' = "live" /\ room' = out_nb_samples /\ UNCHANGED taken
       \/ data' = "freed" /\ room' = 0 /\ taken' = Free({"buffer"})
    /\ max_out_nb_samples' = out_nb_samples
    /\ UNCHANGED <<frame, out_nb_samples, converted, result>>

\* swr_convert gives no more samples than asked for.
Convert ==
    /\ data = "live"
    /\ Goto("convert", "size")
    /\ converted' \in {n \in {0, frame.samples, out_nb_samples} : n <= out_nb_samples}
    /\ result' = Bytes(converted')
    /\ UNCHANGED <<frame, bufferVars, countVars>>

\* swr_convert writes to memory that was freed, or the copy past the end of audio_buf,
\* before audio_decode_frame asserts that there was room: anything may follow.
Undefined ==
    /\ \/ Goto("convert", "undefined") /\ data = "freed"
       \/ Goto("size", "undefined") /\ result > AudioBufSize
    /\ UNCHANGED <<frame, bufferVars, countVars, converted, result>>

CopyAndFree ==
    /\ result <= AudioBufSize
    /\ Goto("size", "idle")
    /\ taken' = Free(Resources) /\ data' = "none" /\ room' = 0
    /\ UNCHANGED <<frame, countVars, converted, result>>

Next ==
    \/ \E f \in Frames : Call(f)
    \/ Fail \/ SwrAlloc \/ CheckFrame \/ SwrInit \/ SamplesAlloc \/ Delay \/ Enough \/ Grow
    \/ Convert \/ Undefined \/ CopyAndFree

Spec == Init /\ [][Next]_vars

-----------------------------------------------------------------------------
TypeOK ==
    /\ pc \in {"idle", "alloc", "layout", "init", "samples", "delay", "grow", "convert", "size",
               "undefined"}
    /\ frame \in Frames
    /\ taken \in [Resources -> Int] /\ data \in {"none", "live", "freed"}
    /\ {room, out_nb_samples, max_out_nb_samples, converted} \subseteq Nat
    /\ result \in Nat \cup {-1}

\* A call that succeeds has released each thing as often as it took it, also when it
\* took a second buffer for the first.  A failing one keeps what it holds, which is at
\* most a context, an array and a buffer for each frame that cannot be resampled.
SuccessReleases ==
    /\ \A r \in Resources : taken[r] \in {0, 1}
    /\ pc = "idle" /\ result >= 0 => taken = Nothing

\* swr_convert has room for the samples it is asked for, whatever the two rates and the
\* delay are, unless a delay made a second buffer necessary and there was none: then it
\* is given the first one, which was freed.
ConvertFits ==
    pc = "convert" => \/ data = "live" /\ out_nb_samples <= room
                      \/ data = "freed" /\ out_nb_samples > Rescaled(frame.samples)

\* "assert(data_size <= buf_size)": but for that failure, a call overruns audio_buf only
\* if it asked for more than 72000 samples of one or two channels, or 48000 of three,
\* which stand for any greater number the file may have.
FitsAudioBuf ==
    pc = "undefined" =>
        \/ data = "freed"
        \/ out_nb_samples > IF frame.channels <= 2 THEN 72000 ELSE 48000
=============================================================================
