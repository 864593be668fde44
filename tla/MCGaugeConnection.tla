------------------------- MODULE MCGaugeConnection --------------------------
(* GaugeConnection with stamps that wrap after a few ticks: the time to    *)
(* wrap is longer than the time between two polls, as in the code.         *)
EXTENDS GaugeConnection
=============================================================================
