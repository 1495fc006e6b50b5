----------------------------- MODULE MCPacketQueue -----------------------------
(* PacketQueue on a small instance, for TLC.                                 *)
EXTENDS PacketQueue, TLC

CONSTANTS audioPkt, flushPkt

\* An audio packet of one unit and the flush packet, whose size field is 0.
MCPackets    == {audioPkt, flushPkt}
MCPacketSize == [p \in MCPackets |-> IF p = flushPkt THEN 0 ELSE 1]

===============================================================================
