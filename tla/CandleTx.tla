------------------------------ MODULE CandleTx ------------------------------
(***************************************************************************)
(* Transmit side of the candle (gs_usb) driver: candle_frame_send, the     *)
(* pool of write URBs behind it, and the USB stack that completes them.    *)
(*                                                                         *)
(* One thread sends (the HTTP loop, through HalCAN_Transmit, always with   *)
(* wait_send set); the kernel runs beside it, so every Win32 call of the   *)
(* sender is a step of its own.  A frame is the number of the call that    *)
(* carries it.  The kernel transfers what a URB's buffer holds when the    *)
(* transfer completes, and completes the bulk OUT pipe in order.           *)
(***************************************************************************)
EXTENDS Integers, Sequences

CONSTANTS
  UrbCount,   \* CANDLE_URB_COUNT, 30 in the code
  MaxFrames   \* bound on the number of calls of candle_frame_send

ASSUME TxConstants == UrbCount \in Nat \ {0} /\ MaxFrames \in Nat

Urb == 0 .. UrbCount - 1
Frame == 1 .. MaxFrames
Failed == {"short", "error"}    \* CANDLE_ERR_WRITE_SIZE, CANDLE_ERR_WRITE_RESULT

VARIABLES
  in_use,   \* dev->txurbs_in_use
  event,    \* manual-reset event of each URB: is it signaled?
  status,   \* outcome of the last transfer of each URB
  buf,      \* frame in each URB's buffer, 0 if never filled
  pipe,     \* kernel: URBs submitted and not completed, oldest first
  wire,     \* frames the adapter has received, oldest first
  pc, urb, frame,   \* the sender: where it is, urb_num, number of its call
  accepted,  \* has this call's frame been submitted?
  reply     \* what each call returned

vars == <<in_use, event, status, buf, pipe, wire, pc, urb, frame, accepted, reply>>
kernel == <<pipe, wire>>
pool == <<in_use, event, status, buf>>

Signaled == {u \in Urb : event[u]}
\* WaitForMultipleObjects returns the lowest signaled index.
WaitMultiple(u) == event[u] /\ \A v \in Signaled : u <= v

Init ==
  /\ in_use = 0
  /\ event = [u \in Urb |-> FALSE]
  /\ status = [u \in Urb |-> "unused"]
  /\ buf = [u \in Urb |-> 0]
  /\ pipe = <<>> /\ wire = <<>>
  /\ pc = "idle" /\ urb = 0 /\ frame = 0
  /\ accepted = FALSE
  /\ reply = [f \in Frame |-> "none"]

Goto(label) == pc' = label /\ UNCHANGED reply
Return(b) == pc' = "idle" /\ reply' = [reply EXCEPT ![frame] = b]

-----------------------------------------------------------------------------
(* The sender. *)

\* Mutant of Send: txurbs_in_use is never counted.
SendUncounted ==
  /\ pc = "idle" /\ frame < MaxFrames
  /\ frame' = frame + 1 /\ accepted' = FALSE
  /\ urb' = 0 /\ Goto("fill")
  /\ UNCHANGED <<in_use, event, status, buf, kernel>>

\* candle_frame_send is entered; the first call ever takes URB 0 unseen.
Send ==
  /\ pc = "idle" /\ frame < MaxFrames
  /\ frame' = frame + 1 /\ accepted' = FALSE
  /\ \/ in_use = 0 /\ in_use' = 1 /\ urb' = 0 /\ Goto("fill")
     \/ in_use # 0 /\ Goto("poll") /\ UNCHANGED <<in_use, urb>>
  /\ UNCHANGED <<event, status, buf, kernel>>

\* Mutant of Poll: one URB too many is handed out.
PollOffByOne ==
  /\ pc = "poll"
  /\ \/ /\ \E u \in Urb : WaitMultiple(u) /\ urb' = u
        /\ Goto("check") /\ UNCHANGED in_use
     \/ /\ Signaled = {} /\ in_use <= UrbCount
        /\ urb' = in_use /\ in_use' = in_use + 1 /\ Goto("fill")
  /\ UNCHANGED <<event, status, buf, kernel, frame, accepted>>

\* find_free_txurb polls the events: a completed URB, else one never used.
Poll ==
  /\ pc = "poll"
  /\ \/ /\ \E u \in Urb : WaitMultiple(u) /\ urb' = u
        /\ Goto("check") /\ UNCHANGED in_use
     \/ /\ Signaled = {} /\ in_use < UrbCount
        /\ urb' = in_use /\ in_use' = in_use + 1 /\ Goto("fill")
     \/ Signaled = {} /\ in_use >= UrbCount /\ Goto("block") /\ UNCHANGED <<in_use, urb>>
  /\ UNCHANGED <<event, status, buf, kernel, frame, accepted>>

\* Mutant of Block: the wait has no timeout.
BlockForever ==
  /\ pc = "block"
  /\ (\E u \in Urb : WaitMultiple(u) /\ urb' = u) /\ Goto("check")
  /\ UNCHANGED <<pool, kernel, frame, accepted>>

\* find_free_txurb blocks on the events for timeout_ms.
Block ==
  /\ pc = "block"
  /\ \/ (\E u \in Urb : WaitMultiple(u) /\ urb' = u) /\ Goto("check")
     \/ Signaled = {} /\ Return("false") /\ UNCHANGED urb
  /\ UNCHANGED <<pool, kernel, frame, accepted>>

\* Mutant of CheckFree: the outcome of the previous transfer is dropped.
CheckFreeDropped ==
  /\ pc = "check" /\ Goto("fill")
  /\ UNCHANGED <<pool, kernel, urb, frame, accepted>>

\* check_write_result of the previous transfer of the URB found.
CheckFree ==
  /\ pc = "check"
  /\ \/ status[urb] = "ok" /\ Goto("fill")
     \/ status[urb] \in Failed /\ Return("false")
  /\ UNCHANGED <<pool, kernel, urb, frame, accepted>>

\* memcpy of the frame into the URB's buffer.
Fill ==
  /\ pc = "fill"
  /\ buf' = [buf EXCEPT ![urb] = frame]
  /\ Goto("write")
  /\ UNCHANGED <<in_use, event, status, kernel, urb, frame, accepted>>

\* WinUsb_WritePipe: pending; or refused, which may leave the event as it was.
WritePipe ==
  /\ pc = "write"
  /\ \/ /\ event' = [event EXCEPT ![urb] = FALSE]
        /\ status' = [status EXCEPT ![urb] = "pending"]
        /\ pipe' = Append(pipe, urb)
        /\ accepted' = TRUE
        /\ Goto("wait")
     \/ /\ event' \in {event, [event EXCEPT ![urb] = FALSE]}
        /\ Return("false")
        /\ UNCHANGED <<status, pipe, accepted>>
  /\ UNCHANGED <<in_use, buf, wire, urb, frame>>

\* Mutant of WaitSent: a call that times out sends its frame again.
WaitSentRetries ==
  /\ pc = "wait"
  /\ \/ event[urb] /\ status[urb] = "ok" /\ Return("true")
     \/ event[urb] /\ status[urb] \in Failed /\ Return("false")
     \/ ~event[urb] /\ Goto("poll")
  /\ UNCHANGED <<pool, kernel, urb, frame, accepted>>

\* Mutant of WaitSent: the outcome of the transfer is not looked at.
WaitSentUnchecked ==
  /\ pc = "wait"
  /\ \/ event[urb] /\ Return("true")
     \/ ~event[urb] /\ Return("false")
  /\ UNCHANGED <<pool, kernel, urb, frame, accepted>>

\* WaitForSingleObject on the transfer, then check_write_result; or the
\* timeout, which leaves the transfer with the kernel.
WaitSent ==
  /\ pc = "wait"
  /\ \/ event[urb] /\ status[urb] = "ok" /\ Return("true")
     \/ event[urb] /\ status[urb] \in Failed /\ Return("false")
     \/ ~event[urb] /\ Return("false")
  /\ UNCHANGED <<pool, kernel, urb, frame, accepted>>

-----------------------------------------------------------------------------
(* The kernel. *)

\* The oldest transfer ends: in full, cut short, or in an error.
Complete ==
  /\ pipe # <<>>
  /\ pipe' = Tail(pipe)
  /\ event' = [event EXCEPT ![Head(pipe)] = TRUE]
  /\ \E r \in {"ok"} \cup Failed :
       /\ status' = [status EXCEPT ![Head(pipe)] = r]
       /\ wire' = IF r = "ok" THEN Append(wire, buf[Head(pipe)]) ELSE wire
  /\ UNCHANGED <<in_use, buf, pc, urb, frame, accepted, reply>>

Sending == Poll \/ Block \/ CheckFree \/ Fill \/ WritePipe \/ WaitSent
Next == Send \/ Sending \/ Complete

\* The sender's thread keeps running; calls, and completions, need not come.
Spec == Init /\ [][Next]_vars /\ WF_vars(Sending)

-----------------------------------------------------------------------------
TypeOK ==
  /\ in_use \in 0 .. UrbCount
  /\ event \in [Urb -> BOOLEAN]
  /\ status \in [Urb -> {"unused", "pending", "ok"} \cup Failed]
  /\ buf \in [Urb -> 0 .. MaxFrames]
  /\ pipe \in Seq(Urb) /\ wire \in Seq(0 .. MaxFrames)
  /\ pc \in {"idle", "poll", "block", "check", "fill", "write", "wait"}
  /\ urb \in Urb /\ frame \in 0 .. MaxFrames
  /\ accepted \in BOOLEAN
  /\ reply \in [Frame -> {"none", "true", "false"}]

\* The kernel owns the buffer of a URB from WritePipe to completion: the
\* sender is never about to fill or submit a URB that is in the pipe, though
\* a timed-out call leaves its URB there (find_free_txurb, candle.c:552-586).
BufferOwned ==
  pc \in {"fill", "write"} => \A i \in DOMAIN pipe : pipe[i] # urb

\* The adapter receives frames in the order of the calls, each at most once,
\* across timeouts that leave transfers behind and calls that fail.
WireInOrder == \A i, j \in DOMAIN wire : i < j => wire[i] < wire[j]

\* A URB that ended badly stays signaled and is never written again, so once
\* URB 0 has, it is what every later call finds, and no later call reaches
\* the pipe (candle.c:561-583): the transmitter is dead until reopened.
Wedged == event[0] /\ status[0] \in Failed
WedgedForGood ==
  [](Wedged /\ pc = "idle" => [](pc \notin {"fill", "write", "wait"}))

\* Every call of candle_frame_send returns: both of its waits are bounded,
\* with the whole pool in flight too (candle.c:567, 627).
SendReturns == pc # "idle" ~> pc = "idle"

-----------------------------------------------------------------------------
(* The channel the pool implements: its queue is the frames in the buffers *)
(* the kernel still has to transfer.                                       *)
Queue == [i \in DOMAIN pipe |-> buf[pipe[i]]]
Channel == INSTANCE TxChannel WITH queue <- Queue

\* A call that answers TRUE had its frame transferred, a frame is submitted at
\* most once, and no frame in flight is changed (candle_frame_send).
ImplementsChannel == Channel!Spec
=============================================================================
