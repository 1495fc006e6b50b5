----------------------------- MODULE MCPlaylist -----------------------------
(* Playlist on small instances, for TLC.                                   *)
EXTENDS Playlist

Symmetry == Permutations(Files)
=============================================================================
