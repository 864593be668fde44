---------------------------- MODULE MCTimeOfFlight ----------------------------
(* TimeOfFlight with two threads and sample times in ms: 2000 stands for NaN. *)
EXTENDS TimeOfFlight
=============================================================================
