----------------------------- MODULE RxChannel ------------------------------
(***************************************************************************)
(* What the receive side of the CAN adapter driver promises its caller: an *)
(* unordered, lossy channel without duplicates.  A frame the adapter hands *)
(* over is held by the driver until the caller gets it, once, or it is     *)
(* lost.  Nothing is said of the order: a reader that lags behind by a lap *)
(* of the ring gets the frame of the lowest URB first.                     *)
(***************************************************************************)
EXTENDS Integers, Sequences

CONSTANT MaxFrames   \* bound on the number of frames

VARIABLES
  arrived,    \* number of frames the adapter has handed over: frames 1 .. arrived
  held,       \* frames the driver holds
  delivered   \* frames the caller has got, oldest first

vars == <<arrived, held, delivered>>

Init == arrived = 0 /\ held = {} /\ delivered = <<>>

Arrive ==
  /\ arrived < MaxFrames
  /\ arrived' = arrived + 1
  /\ held' = held \cup {arrived + 1}
  /\ UNCHANGED delivered

Deliver ==
  /\ \E f \in held : held' = held \ {f} /\ delivered' = Append(delivered, f)
  /\ UNCHANGED arrived

Lose ==
  /\ \E f \in held : held' = held \ {f}
  /\ UNCHANGED <<arrived, delivered>>

Next == Arrive \/ Deliver \/ Lose

Spec == Init /\ [][Next]_vars
=============================================================================
