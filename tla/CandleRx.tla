------------------------------ MODULE CandleRx ------------------------------
(***************************************************************************)
(* Receive side of the candle (gs_usb) driver: the ring of read URBs that  *)
(* candle_dev_open arms, candle_frame_read, and the USB stack that fills   *)
(* the URBs in the order they were armed.                                  *)
(*                                                                         *)
(* One thread reads (main, in RecieveCANMessages, with a zero timeout); a  *)
(* candle_frame_read that finds no URB signaled changes nothing and is not *)
(* a step.  A frame is its number in the order the adapter sent them,      *)
(* which is also the order of its time stamp.                              *)
(***************************************************************************)
EXTENDS Integers, Sequences, FiniteSets

CONSTANTS
  UrbCount,     \* CANDLE_URB_COUNT, 30 in the code
  MaxFrames,    \* bound on the number of frames the adapter sends
  MaxRefusals   \* bound on the refusals that take the URB out of the reader's hands

ASSUME RxConstants ==
  UrbCount \in Nat \ {0} /\ MaxFrames \in Nat /\ MaxRefusals \in Nat

Urb == 0 .. UrbCount - 1

VARIABLES
  event,      \* manual-reset event of each URB: is it signaled?
  result,     \* what its OVERLAPPED says: "pending", "frame", "error", "refused"
  buf,        \* frame in each URB's buffer, 0 if never filled
  armed,      \* kernel: URBs waiting for a frame, oldest first
  arrived,    \* frames the adapter has sent
  refusals,   \* times candle_prepare_read answered FALSE and its event was reset
  pc, urb, frame,  \* the reader: where it is, urb_num, the caller's candle_frame_t
  delivered   \* frames candle_frame_read has returned with TRUE

ring == <<event, result, buf, armed>>
counts == <<arrived, refusals>>
vars == <<ring, counts, pc, urb, frame, delivered>>

Signaled == {u \in Urb : event[u]}
\* WaitForMultipleObjects returns the lowest signaled index.
WaitMultiple(u) == event[u] /\ \A v \in Signaled : u <= v

\* candle_dev_open has armed every URB, lowest index first.
Init ==
  /\ event = [u \in Urb |-> FALSE]
  /\ result = [u \in Urb |-> "pending"]
  /\ buf = [u \in Urb |-> 0]
  /\ armed = [i \in 1 .. UrbCount |-> i - 1]
  /\ arrived = 0 /\ refusals = 0
  /\ pc = "poll" /\ urb = 0 /\ frame = 0
  /\ delivered = <<>>

-----------------------------------------------------------------------------
(* The reader: candle_frame_read, called again and again. *)

\* Mutant of Poll: the last URB is not waited for.
PollOffByOne ==
  /\ pc = "poll"
  /\ \E u \in Urb \ {UrbCount - 1} : WaitMultiple(u) /\ urb' = u
  /\ pc' = "collect"
  /\ UNCHANGED <<ring, counts, frame, delivered>>

\* Mutant of Poll: the URBs are read in turn, once any has completed.
PollInTurn ==
  /\ pc = "poll" /\ Signaled # {}
  /\ urb' = (urb + 1) % UrbCount
  /\ pc' = "collect"
  /\ UNCHANGED <<ring, counts, frame, delivered>>

\* WaitForMultipleObjects finds a completed URB.
Poll ==
  /\ pc = "poll"
  /\ \E u \in Urb : WaitMultiple(u) /\ urb' = u
  /\ pc' = "collect"
  /\ UNCHANGED <<ring, counts, frame, delivered>>

\* GetOverlappedResult, then memcpy of the buffer; 0 when the transfer failed.
Collect ==
  /\ pc = "collect"
  /\ frame' = IF result[urb] = "frame" THEN buf[urb] ELSE 0
  /\ pc' = "rearm"
  /\ UNCHANGED <<ring, counts, urb, delivered>>

\* ReadPipe takes the URB: its event is reset and it queues behind the others.
Arm(u) ==
  /\ event' = [event EXCEPT ![u] = FALSE]
  /\ result' = [result EXCEPT ![u] = "pending"]
  /\ armed' = Append(armed, u)

\* Mutant of Rearm: ERROR_IO_PENDING is taken for a failure.
RearmPendingFails ==
  /\ pc = "rearm"
  /\ Arm(urb)
  /\ pc' = "poll"
  /\ UNCHANGED <<buf, counts, urb, frame, delivered>>

\* Mutant of Rearm: a URB whose transfer failed is put aside.
RearmGoodOnly ==
  /\ pc = "rearm"
  /\ \/ frame # 0 /\ Arm(urb) /\ delivered' = Append(delivered, frame)
     \/ /\ frame = 0
        /\ event' = [event EXCEPT ![urb] = FALSE]
        /\ result' = [result EXCEPT ![urb] = "refused"]
        /\ UNCHANGED <<armed, delivered>>
  /\ pc' = "poll"
  /\ UNCHANGED <<buf, counts, urb, frame>>

\* Mutant of Rearm: a failed transfer is returned as a (zeroed) frame.
RearmAnyResult ==
  /\ pc = "rearm"
  /\ Arm(urb)
  /\ delivered' = Append(delivered, frame)
  /\ pc' = "poll"
  /\ UNCHANGED <<buf, counts, urb, frame>>

\* Mutant of Rearm: the frame is returned whatever candle_prepare_read answers.
RearmIgnored ==
  /\ pc = "rearm"
  /\ Arm(urb) \/ UNCHANGED <<event, result, armed>>
  /\ delivered' = IF frame # 0 THEN Append(delivered, frame) ELSE delivered
  /\ pc' = "poll"
  /\ UNCHANGED <<buf, counts, urb, frame>>

\* candle_prepare_read answers TRUE when the read is pending.  It answers FALSE
\* when the read was refused, with the event left signaled, as often as may be, or
\* reset; and also when a frame was there at once and the read ended on the spot
\* (its Complete follows).  The caller has its frame only if a good transfer was
\* re-armed.
Rearm ==
  /\ pc = "rearm"
  /\ \/ /\ Arm(urb)
        /\ delivered' = IF frame # 0 THEN Append(delivered, frame) ELSE delivered
        /\ UNCHANGED refusals
     \/ UNCHANGED <<event, result, armed, refusals, delivered>>
     \/ /\ refusals < MaxRefusals /\ refusals' = refusals + 1
        /\ \/ armed = <<>> /\ Arm(urb)
           \/ /\ event' = [event EXCEPT ![urb] = FALSE]
              /\ result' = [result EXCEPT ![urb] = "refused"]
              /\ UNCHANGED armed
        /\ UNCHANGED delivered
  /\ pc' = "poll"
  /\ UNCHANGED <<buf, arrived, urb, frame>>

-----------------------------------------------------------------------------
(* The kernel completes the oldest armed URB: with the next frame, or badly. *)
Complete ==
  /\ armed # <<>>
  /\ armed' = Tail(armed)
  /\ event' = [event EXCEPT ![Head(armed)] = TRUE]
  /\ \/ /\ arrived < MaxFrames /\ arrived' = arrived + 1
        /\ result' = [result EXCEPT ![Head(armed)] = "frame"]
        /\ buf' = [buf EXCEPT ![Head(armed)] = arrived + 1]
     \/ /\ result' = [result EXCEPT ![Head(armed)] = "error"]
        /\ UNCHANGED <<arrived, buf>>
  /\ UNCHANGED <<refusals, pc, urb, frame, delivered>>

Reading == Poll \/ Collect \/ Rearm
Next == Reading \/ Complete

\* main keeps calling RecieveCANMessages; frames need not come.
Spec == Init /\ [][Next]_vars /\ WF_vars(Reading)

-----------------------------------------------------------------------------
TypeOK ==
  /\ event \in [Urb -> BOOLEAN]
  /\ result \in [Urb -> {"pending", "frame", "error", "refused"}]
  /\ buf \in [Urb -> 0 .. MaxFrames]
  /\ armed \in Seq(Urb)
  /\ arrived \in 0 .. MaxFrames
  /\ refusals \in 0 .. MaxRefusals
  /\ pc \in {"poll", "collect", "rearm"}
  /\ urb \in Urb /\ frame \in 0 .. MaxFrames
  /\ delivered \in Seq(1 .. MaxFrames)

\* A URB the kernel may write is never one the reader copies from or arms a
\* second time (candle.c:658-669).
BufferOwned == pc # "poll" => \A i \in DOMAIN armed : armed[i] # urb

\* URBs that hold a frame no call has returned yet.
Holding == {u \in Urb : result[u] = "frame"}
Held == {buf[u] : u \in Holding}
Got == {delivered[i] : i \in DOMAIN delivered}

\* Nothing is lost but by a refusal that resets the event, or by a read that ended
\* on the spot, and each costs one frame at most: a frame that arrived was returned,
\* or is held.  A refusal that leaves the event signaled costs none, for the URB is
\* read again (candle_frame_read).
LossAccounted == Cardinality((1 .. arrived) \ (Held \cup Got)) <= refusals

\* Likewise each of them costs the ring one URB at most, for good, and a failed
\* transfer none: a URB is armed, or signaled for the reader to find, or dead
\* (candle_prepare_read).
RingAccounted ==
  LET Armed == {armed[i] : i \in DOMAIN armed} IN
  Cardinality(Urb \ (Armed \cup Signaled)) <= refusals

\* URB u comes back to be read at once: its re-arming is refused with the event left
\* signaled, or its next transfer fails.
Refused(u) == pc = "rearm" /\ urb = u /\ pc' = "poll" /\ event'[u]
Fails(u) == armed # <<>> /\ Head(armed) = u /\ armed' = Tail(armed) /\ result'[u] = "error"

\* Once the adapter has fallen silent, a frame stays in a buffer for good only while
\* its own URB, or one before it, which hides it, is refused or fails again and again:
\* neither the URBs behind it, nor what failed a while ago, nor reads that ended on
\* the spot can hold it up (candle.c:647, 661-669).
HeldFramesLeave ==
  \A u \in Urb :
    \/ result[u] = "frame" ~> result[u] # "frame"
    \/ \E v \in 0 .. u : []<><<Refused(v) \/ Fails(v)>>_vars

-----------------------------------------------------------------------------
Channel == INSTANCE RxChannel WITH held <- Held

\* No frame is returned twice, or invented, though a URB whose re-arming is
\* refused stays signaled and is read again (candle_frame_read).
ImplementsChannel == Channel!Spec
=============================================================================
