--------------------------- MODULE ResampleProofs ---------------------------
(* Proofs about Resample, for any frames, rates, delays and buffer sizes.  *)
EXTENDS Resample, TLAPS

\* What a call holds at each of its points.
Holds(n) ==
    /\ taken["context"] = IF n > 0 THEN 1 ELSE 0
    /\ taken["array"] = IF n > 1 THEN 1 ELSE 0
    /\ taken["buffer"] = IF n > 1 /\ data = "live" THEN 1 ELSE 0

TakenInv ==
    /\ pc = "alloc" => Holds(0)
    /\ pc \in {"layout", "init", "samples"} => Holds(1)
    /\ pc \in {"delay", "grow", "convert", "size"} => Holds(2)
    /\ pc \in {"delay", "grow", "size"} => data = "live"

\* What it knows of its numbers: the buffer has the room the call believes it has, and
\* the bytes are those of the samples converted, no more than were asked for.
PointInv ==
    /\ pc \in {"init", "samples", "delay", "grow", "convert", "size"} => frame.channels > 0
    /\ pc = "samples" => out_nb_samples = max_out_nb_samples
    /\ pc \in {"samples", "delay", "grow"} => max_out_nb_samples = Rescaled(frame.samples)
    /\ pc \in {"delay", "grow"} => room = max_out_nb_samples
    /\ ConvertFits
    /\ pc = "size" => result = Bytes(converted) /\ converted <= out_nb_samples
    /\ FitsAudioBuf

Inv == TypeOK /\ TakenInv /\ PointInv /\ SuccessReleases

LEMMA FrameNumbers ==
    ASSUME frame \in Frames
    PROVE  /\ frame.samples \in Nat /\ frame.channels \in Nat
           /\ frame.codec_rate \in Nat \ {0} /\ frame.rate \in Nat \ {0}
<1>1. /\ frame.samples \in Samples /\ frame.channels \in Channels
      /\ frame.codec_rate \in Rates /\ frame.rate \in Rates
  BY DEF Frames
<1> QED
  BY <1>1, ResampleAssumption DEF ResampleAssumption

\* Rescaling never leaves the natural numbers.
LEMMA RescaledIsNat ==
    ASSUME frame \in Frames, NEW n \in Nat
    PROVE  Rescaled(n) \in Nat
<1>1. frame.rate \in Nat \ {0} /\ frame.codec_rate \in Nat \ {0}
  BY FrameNumbers
<1>2. n * frame.rate \in Nat
  BY <1>1
<1>3. n * frame.rate + frame.codec_rate - 1 \in Nat
  BY <1>1, <1>2
<1>4. \A a \in Nat, b \in Nat \ {0} : a \div b \in Nat
  BY SMT
<1> QED
  BY <1>1, <1>3, <1>4 DEF Rescaled

LEMMA BytesIsNat ==
    ASSUME frame \in Frames, NEW n \in Nat
    PROVE  Bytes(n) \in Nat
<1>1. OutChannels \in {1, 2, 3}
  BY DEF OutChannels
<1> QED
  BY <1>1 DEF Bytes

\* What does not fit audio_buf is the frame's: the bytes are at most two for each sample
\* asked for of each of at most three channels.
LEMMA LongFrames ==
    ASSUME frame \in Frames, frame.channels > 0, NEW n \in Nat, NEW m \in Nat, n <= m, Bytes(n) > AudioBufSize
    PROVE  m > IF frame.channels <= 2 THEN 72000 ELSE 48000
<1>1. frame.channels \in Nat /\ AudioBufSize = 288000
  BY FrameNumbers DEF AudioBufSize
<1>2. CASE frame.channels = 1
  BY <1>1, <1>2 DEF Bytes, OutChannels
<1>3. CASE frame.channels = 2
  BY <1>1, <1>3 DEF Bytes, OutChannels
<1>4. CASE frame.channels > 2
  BY <1>1, <1>4 DEF Bytes, OutChannels
<1> QED
  BY <1>1, <1>2, <1>3, <1>4

LEMMA InvInit == Init => Inv
<1> SUFFICES ASSUME Init PROVE Inv
  OBVIOUS
<1>1. TypeOK
  BY DEF Init, TypeOK, Nothing
<1>2. TakenInv /\ PointInv /\ SuccessReleases
  BY DEF Init, TakenInv, PointInv, ConvertFits, FitsAudioBuf, SuccessReleases, Nothing
<1> QED
  BY <1>1, <1>2 DEF Inv

\* Each step keeps the types.
LEMMA TypeNext == Inv /\ [Next]_vars => TypeOK'
<1> SUFFICES ASSUME Inv, [Next]_vars PROVE TypeOK'
  OBVIOUS
<1> USE DEF Inv, TypeOK, Goto, bufferVars, countVars, Take, Free, Nothing
<1>1. ASSUME NEW f \in Frames, Call(f) PROVE TypeOK'
  BY <1>1 DEF Call
<1>2. CASE Fail
  BY <1>2 DEF Fail
<1>3. CASE SwrAlloc
  BY <1>3 DEF SwrAlloc
<1>4. CASE CheckFrame
  BY <1>4 DEF CheckFrame
<1>5. CASE SwrInit
  <2>1. frame.samples \in Nat
    BY FrameNumbers
  <2>2. max_out_nb_samples' \in Nat
    BY <1>5, <2>1, RescaledIsNat DEF SwrInit
  <2> QED
    BY <1>5, <2>2 DEF SwrInit
<1>6. CASE SamplesAlloc
  BY <1>6 DEF SamplesAlloc
<1>7. CASE Delay
  <2>1. PICK d \in Delays : out_nb_samples' = Rescaled(d + frame.samples)
    BY <1>7 DEF Delay
  <2>2. d + frame.samples \in Nat
    BY FrameNumbers, ResampleAssumption DEF ResampleAssumption
  <2>3. out_nb_samples' \in Nat
    BY <2>1, <2>2, RescaledIsNat
  <2> QED
    BY <1>7, <2>3 DEF Delay
<1>8. CASE Enough
  BY <1>8 DEF Enough
<1>9. CASE Grow
  BY <1>9 DEF Grow
<1>10. CASE Convert
  <2>1. converted' \in Nat
    BY <1>10, FrameNumbers DEF Convert
  <2>2. result' \in Nat
    BY <1>10, <2>1, BytesIsNat DEF Convert
  <2> QED
    BY <1>10, <2>1, <2>2 DEF Convert
<1>11. CASE Undefined
  BY <1>11 DEF Undefined
<1>12. CASE CopyAndFree
  BY <1>12 DEF CopyAndFree
<1>13. CASE UNCHANGED vars
  BY <1>13 DEF vars
<1> QED
  BY <1>1, <1>2, <1>3, <1>4, <1>5, <1>6, <1>7, <1>8, <1>9, <1>10, <1>11, <1>12, <1>13 DEF Next

\* Each step takes and frees what the call's point says.
LEMMA TakenNext == Inv /\ [Next]_vars => TakenInv' /\ SuccessReleases'
<1> SUFFICES ASSUME Inv, [Next]_vars PROVE TakenInv' /\ SuccessReleases'
  OBVIOUS
<1> USE DEF Inv, TypeOK, TakenInv, SuccessReleases, Holds, Goto, bufferVars, countVars,
        Resources, Take, Free, Nothing
<1>1. ASSUME NEW f \in Frames, Call(f) PROVE TakenInv' /\ SuccessReleases'
  BY <1>1 DEF Call
<1>2. CASE Fail
  BY <1>2 DEF Fail
<1>3. CASE SwrAlloc
  BY <1>3 DEF SwrAlloc
<1>4. CASE CheckFrame \/ SwrInit \/ Delay \/ Enough
  BY <1>4 DEF CheckFrame, SwrInit, Delay, Enough
<1>5. CASE SamplesAlloc
  BY <1>5 DEF SamplesAlloc
<1>6. CASE Grow
  BY <1>6 DEF Grow
<1>7. CASE Convert
  BY <1>7 DEF Convert
<1>8. CASE Undefined
  BY <1>8 DEF Undefined
<1>9. CASE CopyAndFree
  BY <1>9 DEF CopyAndFree
<1>10. CASE UNCHANGED vars
  BY <1>10 DEF vars
<1> QED
  BY <1>1, <1>2, <1>3, <1>4, <1>5, <1>6, <1>7, <1>8, <1>9, <1>10 DEF Next

\* Each step keeps the numbers right.
LEMMA PointNext == Inv /\ [Next]_vars => PointInv'
<1> SUFFICES ASSUME Inv, [Next]_vars PROVE PointInv'
  OBVIOUS
<1> USE DEF Inv, TypeOK, PointInv, ConvertFits, FitsAudioBuf, Goto, bufferVars, countVars
<1>1. ASSUME NEW f \in Frames, Call(f) PROVE PointInv'
  BY <1>1 DEF Call
<1>2. CASE Fail
  BY <1>2 DEF Fail
<1>3. CASE SwrAlloc \/ CheckFrame
  BY <1>3 DEF SwrAlloc, CheckFrame
<1>4. CASE SwrInit
  BY <1>4 DEF SwrInit, Rescaled
<1>5. CASE SamplesAlloc
  BY <1>5 DEF SamplesAlloc, Rescaled
<1>6. CASE Delay
  BY <1>6 DEF Delay, Rescaled
<1>7. CASE Enough
  BY <1>7 DEF Enough, TakenInv, Holds
<1>8. CASE Grow
  <2>1. (Rescaled(frame.samples))' = Rescaled(frame.samples)
    BY <1>8 DEF Grow, Rescaled
  <2> QED
    BY <1>8, <2>1 DEF Grow
<1>9. CASE Convert
  <2>1. (result = Bytes(converted))' /\ converted' <= out_nb_samples'
    BY <1>9, FrameNumbers DEF Convert, Bytes, OutChannels
  <2> QED
    BY <1>9, <2>1 DEF Convert
<1>10. CASE Undefined
  <2>1. CASE pc = "convert"
    BY <1>10, <2>1 DEF Undefined
  <2>2. CASE pc = "size"
    <3>1. out_nb_samples > IF frame.channels <= 2 THEN 72000 ELSE 48000
      BY <1>10, <2>2, LongFrames DEF Undefined
    <3> QED
      BY <1>10, <2>2, <3>1 DEF Undefined
  <2> QED
    BY <1>10, <2>1, <2>2 DEF Undefined
<1>11. CASE CopyAndFree
  BY <1>11 DEF CopyAndFree
<1>12. CASE UNCHANGED vars
  <2>1. (Rescaled(frame.samples))' = Rescaled(frame.samples) /\ Bytes(converted)' = Bytes(converted)
    BY <1>12 DEF vars, Rescaled, Bytes, OutChannels
  <2> QED
    BY <1>12, <2>1 DEF vars
<1> QED
  BY <1>1, <1>2, <1>3, <1>4, <1>5, <1>6, <1>7, <1>8, <1>9, <1>10, <1>11, <1>12 DEF Next

LEMMA SpecInv == Spec => []Inv
<1>1. Inv /\ [Next]_vars => Inv'
  BY TypeNext, TakenNext, PointNext DEF Inv
<1> QED
  BY <1>1, InvInit, PTL DEF Spec

\* What a successful call took it has released, as often as it took it, and a failing
\* one holds at most one of each (player.c:78, 129, 146, 147, 171 to 179).
THEOREM SuccessLeaksNothing == Spec => []SuccessReleases
  BY SpecInv, PTL DEF Inv

\* swr_convert has room for the samples it is asked for, or is given the buffer that was
\* freed when the second allocation, which only a delay can call for, failed
\* (player.c:139 to 154).
THEOREM BufferIsLargeEnough == Spec => []ConvertFits
<1>1. Inv => ConvertFits
  BY DEF Inv, PointInv
<1> QED
  BY <1>1, SpecInv, PTL

\* The assertion of audio_decode_frame (player.c:204), which comes after the copy it is
\* about, holds of all but very long frames, whatever the rates and delays are.
THEOREM LongFramesOnlyOverrun == Spec => []FitsAudioBuf
<1>1. Inv => FitsAudioBuf
  BY DEF Inv, PointInv
<1> QED
  BY <1>1, SpecInv, PTL
=============================================================================
