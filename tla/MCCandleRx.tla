---------------------------- MODULE MCCandleRx -----------------------------
(* CandleRx with a ring of three URBs that the frames go round more than   *)
(* once, and enough failures to lose all but one of its URBs.              *)
EXTENDS CandleRx
=============================================================================
