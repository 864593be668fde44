------------------------------ MODULE MCHalCAN ------------------------------
(* Instance of HalCAN for TLC: three places in the list, two URBs.           *)
EXTENDS HalCAN

=============================================================================
