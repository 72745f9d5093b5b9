---------------------------- MODULE MCHlcClock ----------------------------
(* TLC instance of HlcClock; the bounds are set in the .cfg files. *)
EXTENDS HlcClock
=============================================================================
