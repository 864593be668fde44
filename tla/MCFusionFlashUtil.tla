------------------------- MODULE MCFusionFlashUtil --------------------------
(* FusionFlashUtil with two controllers that may exchange their two        *)
(* identifiers, and a heartbeat timeout of two ticks.                      *)
EXTENDS FusionFlashUtil
=============================================================================
