----------------------------- MODULE AudioCallback -----------------------------
(***************************************************************************)
(* audio_callback and audio_decode_frame of src/player_core/player.c, run   *)
(* by SDL's audio thread while the device is running.  Every access to a    *)
(* field another thread writes is a step of its own.                        *)
(***************************************************************************)
EXTENDS AudioState

CallbackStep(from, to) ==
    /\ Goto("audio", from, to)
    /\ UNCHANGED <<player, requestVars, readVars, flagVars, audio_opend, device,
                   statusVars, song, resumed_early>>

\* SDL calls back only a running device, one callback at a time.
CallbackBegin ==
    /\ device = "running"
    /\ CallbackStep("idle", "cb_check")
    /\ len' = StreamLen
    /\ UNCHANGED <<queueVars, pktVars, bufVars, len1>>

CheckBuffer ==
    /\ CallbackStep("cb_check", IF audio_buf_index >= audio_buf_size THEN "cb_pkt" ELSE "cb_copy")
    /\ UNCHANGED <<queueVars, pktVars, bufVars, localVars>>

-------------------------------------------------------------------------------
(* audio_decode_frame                                                       *)

CheckPacket ==
    /\ CallbackStep("cb_pkt", IF audio_pkt_size > 0 THEN "cb_decode" ELSE "cb_get")
    /\ audio_pkt' = IF audio_pkt_size > 0 THEN audio_pkt ELSE NULL
    /\ UNCHANGED <<queueVars, audio_pkt_size, bufVars, localVars>>

DecodeStep(to) ==
    /\ CallbackStep("cb_decode", to)
    /\ audio_codec_ctx # "null"
    /\ UNCHANGED <<queueVars, bufVars, localVars>>

\* "error, skip frame".  A context that was copied and never opened has its internals
\* unset: the call is undefined, here an error or, in CrashOnCodec, the end of the process.
DecodeError ==
    /\ DecodeStep("cb_get")
    /\ audio_pkt' = NULL
    /\ audio_pkt_size' = 0

DecodeNothing ==
    /\ DecodeStep("cb_pkt")
    /\ audio_codec_ctx = "open"
    /\ audio_pkt_size' = audio_pkt_size - 1
    /\ UNCHANGED audio_pkt

DecodeFrame ==
    /\ DecodeStep("cb_store")
    /\ audio_codec_ctx = "open"
    /\ audio_pkt_size' = audio_pkt_size - 1
    /\ UNCHANGED audio_pkt

\* packet_queue_get, or the quit test before it.
GetNothing ==
    /\ CallbackStep("cb_get", "cb_silence")
    /\ quit \/ audio_queue = <<>>
    /\ no_more_data_in_the_queue' = IF quit THEN no_more_data_in_the_queue ELSE TRUE
    /\ UNCHANGED <<audio_queue, pktVars, bufVars, localVars>>

GetPacket ==
    /\ CallbackStep("cb_get", "cb_got")
    /\ ~quit /\ audio_queue # <<>>
    /\ no_more_data_in_the_queue' = FALSE
    /\ audio_pkt' = Head(audio_queue)
    /\ audio_queue' = Tail(audio_queue)
    /\ UNCHANGED <<audio_pkt_size, bufVars, localVars>>

GotFlush ==
    /\ CallbackStep("cb_got", "cb_pkt")
    /\ audio_pkt = FlushPkt
    /\ audio_codec_ctx # "null"
    /\ UNCHANGED <<queueVars, pktVars, bufVars, localVars>>

GotPacket ==
    /\ CallbackStep("cb_got", "cb_pkt")
    /\ audio_pkt # FlushPkt
    /\ audio_pkt_size' = 1
    /\ UNCHANGED <<queueVars, audio_pkt, bufVars, localVars>>

\* The decoder is called on a codec context that the read thread has taken away, or
\* has not opened yet.
CrashOnCodec ==
    /\ \/ CallbackStep("cb_decode", "crashed")
       \/ CallbackStep("cb_got", "crashed") /\ audio_pkt = FlushPkt
    /\ audio_codec_ctx # "open"
    /\ UNCHANGED <<queueVars, pktVars, bufVars, localVars>>

-------------------------------------------------------------------------------
(* Back in audio_callback                                                   *)

StoreSize(from, n) ==
    /\ CallbackStep(from, "cb_rewind")
    /\ audio_buf_size' = n
    /\ UNCHANGED <<queueVars, pktVars, audio_buf_index, localVars>>

StoreFrame   == StoreSize("cb_store", FrameLen)
StoreSilence == StoreSize("cb_silence", SilenceLen)

\* Mutant of Rewind: the index stays where the buffer before ended.
RewindOmitted ==
    /\ CallbackStep("cb_rewind", "cb_copy")
    /\ UNCHANGED <<queueVars, pktVars, bufVars, localVars>>

Rewind ==
    /\ CallbackStep("cb_rewind", "cb_copy")
    /\ audio_buf_index' = 0
    /\ UNCHANGED <<queueVars, pktVars, audio_buf_size, localVars>>

CopyOut ==
    /\ CallbackStep("cb_copy", "cb_advance")
    /\ len1' = IF audio_buf_size - audio_buf_index > len THEN len
                                                        ELSE audio_buf_size - audio_buf_index
    /\ UNCHANGED <<queueVars, pktVars, bufVars, len>>

\* A negative len1 is a huge size to memcpy.
CrashOnCopy ==
    /\ CallbackStep("cb_advance", "crashed")
    /\ len1 < 0
    /\ UNCHANGED <<queueVars, pktVars, bufVars, localVars>>

Advance ==
    /\ len1 >= 0
    /\ CallbackStep("cb_advance", IF len > len1 THEN "cb_check" ELSE "idle")
    /\ len' = len - len1
    /\ len1' = 0
    /\ audio_buf_index' = audio_buf_index + len1
    /\ UNCHANGED <<queueVars, pktVars, audio_buf_size>>

CallbackNext ==
    \/ CallbackBegin \/ CheckBuffer \/ CheckPacket
    \/ DecodeError \/ DecodeNothing \/ DecodeFrame
    \/ GetNothing \/ GetPacket \/ GotFlush \/ GotPacket \/ CrashOnCodec
    \/ StoreFrame \/ StoreSilence \/ Rewind \/ CopyOut \/ Advance \/ CrashOnCopy

===============================================================================
