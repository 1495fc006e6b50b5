----------------------------- MODULE MCResample -----------------------------
(* Resample on a small instance, for TLC.                                  *)
EXTENDS Resample

=============================================================================
