---------------------------- MODULE MCLiveWrites ----------------------------
(* A small instance of LiveWrites for TLC. *)
EXTENDS LiveWrites

CONSTANTS r1, poor, good, better
==============================================================================
