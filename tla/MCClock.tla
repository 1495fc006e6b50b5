------------------------------- MODULE MCClock -------------------------------
(* Clock on a small instance, for TLC.                                       *)
EXTENDS Clock, TLC

CONSTANTS f1, f2

\* With packets of 10.9 seconds: a song of 10.9 seconds, of which the last tenths are
\* lost and which is overlong, and one of 21.8.
OneAndTwo == (f1 :> 1) @@ (f2 :> 2)
Lengths == (f1 :> 109) @@ (f2 :> 218)
=============================================================================
