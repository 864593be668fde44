----------------------------- MODULE TxChannel ------------------------------
(***************************************************************************)
(* What the transmit side of the CAN adapter driver promises its caller:   *)
(* an ordered, lossy channel.  A call hands over frame number `frame`,     *)
(* which enters the queue at most once; the oldest queued frame reaches    *)
(* the wire or is lost; a call that answers TRUE had its frame put on the  *)
(* wire.  A call that answers FALSE promises nothing: its frame may still  *)
(* be queued, and reach the wire later.                                    *)
(***************************************************************************)
EXTENDS Integers, Sequences

CONSTANT MaxFrames   \* bound on the number of calls

VARIABLES
  frame,     \* number of the last call; the frame it carries has that number
  accepted,  \* whether the frame of the last call has entered the queue
  queue,     \* frames the adapter has not taken yet, oldest first
  wire,      \* frames the adapter has taken, oldest first
  reply      \* what each call has answered: "none" while it has not

vars == <<frame, accepted, queue, wire, reply>>

Init ==
  /\ frame = 0 /\ accepted = FALSE
  /\ queue = <<>> /\ wire = <<>>
  /\ reply = [f \in 1..MaxFrames |-> "none"]

Call ==
  /\ frame < MaxFrames
  /\ frame > 0 => reply[frame] # "none"
  /\ frame' = frame + 1 /\ accepted' = FALSE
  /\ UNCHANGED <<queue, wire, reply>>

Accept ==
  /\ frame > 0 /\ ~accepted /\ reply[frame] = "none"
  /\ accepted' = TRUE
  /\ queue' = Append(queue, frame)
  /\ UNCHANGED <<frame, wire, reply>>

Deliver ==
  /\ queue # <<>>
  /\ wire' = Append(wire, Head(queue))
  /\ queue' = Tail(queue)
  /\ UNCHANGED <<frame, accepted, reply>>

Lose ==
  /\ queue # <<>>
  /\ queue' = Tail(queue)
  /\ UNCHANGED <<frame, accepted, wire, reply>>

Answer(b) ==
  /\ frame > 0 /\ reply[frame] = "none"
  /\ b = "true" => \E i \in DOMAIN wire : wire[i] = frame
  /\ reply' = [reply EXCEPT ![frame] = b]
  /\ UNCHANGED <<frame, accepted, queue, wire>>

Next == Call \/ Accept \/ Deliver \/ Lose \/ \E b \in {"true", "false"} : Answer(b)

Spec == Init /\ [][Next]_vars
=============================================================================
