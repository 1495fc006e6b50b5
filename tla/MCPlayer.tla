------------------------------- MODULE MCPlayer -------------------------------
(* Player on small instances, for TLC.                                       *)
EXTENDS Player

===============================================================================
