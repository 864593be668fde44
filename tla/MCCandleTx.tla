---------------------------- MODULE MCCandleTx -----------------------------
(* CandleTx with a pool of three URBs: the frames outnumber the pool, so a *)
(* run of timeouts exhausts it.                                            *)
EXTENDS CandleTx
=============================================================================
