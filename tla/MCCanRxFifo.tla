---------------------------- MODULE MCCanRxFifo ----------------------------
(* CanRxFifo with four messages: enough for a push to meet each step of a  *)
(* pop, with the deque empty, holding one message, and holding several.    *)
EXTENDS CanRxFifo
=============================================================================
