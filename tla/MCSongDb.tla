------------------------------ MODULE MCSongDb ------------------------------
(* SongDb on a small instance, for TLC: the program's two threads.         *)
EXTENDS SongDb

=============================================================================
