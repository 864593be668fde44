--------------------------- MODULE MCGaugeCommands ---------------------------
(* GaugeCommands with bytes of two bits and a nickname of 2 + 1 characters:  *)
(* one name fits the first message, one is too long for both, and one        *)
(* battery has a capacity and a number of cycles that do not fit 16 bits.    *)
EXTENDS GaugeCommands

Names == {<<1>>, <<2, 1, 2, 1>>}
Healths == {[age |-> 200, cap |-> 17, cycles |-> 18]}
Cals == {[offset |-> 7, gain |-> 100]}
=============================================================================
