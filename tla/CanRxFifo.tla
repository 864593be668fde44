----------------------------- MODULE CanRxFifo ------------------------------
(***************************************************************************)
(* canRxFifo, the std::queue through which main hands every CAN message to *)
(* the identify thread of FusionFlashUtil: push in RecieveCANMessages,     *)
(* empty, front and pop in readStreamSession, with no lock between them.   *)
(*                                                                         *)
(* The two threads race on the deque below the queue, so its updates are   *)
(* taken apart into the loads and stores of the MSVC library the project   *)
(* is built with: an offset, a size and slots.  Slots are not reused here: *)
(* the growth and the wrap-around of the deque's map are left out.  A      *)
(* message is its number in the order HalCAN_Receive returned them.        *)
(***************************************************************************)
EXTENDS Integers, Sequences

CONSTANTS
  MaxMsgs,   \* bound on the number of messages received
  MaxSlots   \* slots of the deque, as many as it can reach

ASSUME FifoConstants == MaxMsgs \in Nat /\ MaxSlots \in Nat /\ MaxSlots >= MaxMsgs

Slot == 0 .. MaxSlots

VARIABLES
  off, size,   \* the deque: index of its first slot, number of elements
  slot,        \* message in each slot, 0 if none was ever put there
  received,    \* messages main has started to push
  main, loaded,   \* main: where it is in push, the size it has loaded
  reader, msg, seen,   \* identify thread: where it is, its message, the size loaded
  read,        \* messages readStreamSession has returned, oldest first
  overlapped   \* history: were a push and a pop ever under way together?

deque == <<off, size, slot>>
mainVars == <<received, main, loaded>>
readerVars == <<reader, msg, seen, read>>
vars == <<deque, mainVars, readerVars, overlapped>>

Init ==
  /\ off = 0 /\ size = 0 /\ slot = [i \in Slot |-> 0]
  /\ received = 0 /\ main = "idle" /\ loaded = 0
  /\ reader = "idle" /\ msg = 0 /\ seen = 0
  /\ read = <<>> /\ overlapped = FALSE

-----------------------------------------------------------------------------
(* main: canRxFifo.push(canMsg). *)

\* The element is constructed behind the last one...
PushPlace ==
  /\ main = "idle" /\ received < MaxMsgs
  /\ off + size \in Slot
  /\ received' = received + 1
  /\ slot' = [slot EXCEPT ![off + size] = received + 1]
  /\ main' = "load"
  /\ overlapped' = (overlapped \/ reader # "idle")
  /\ UNCHANGED <<off, size, loaded, readerVars>>

\* ... then the size is incremented, by a load and a store.
PushLoad ==
  /\ main = "load" /\ main' = "store" /\ loaded' = size
  /\ UNCHANGED <<deque, received, readerVars, overlapped>>

\* Mutant of PushStore: the size is set to one.
PushStoreReset ==
  /\ main = "store" /\ main' = "idle" /\ size' = 1
  /\ UNCHANGED <<off, slot, received, loaded, readerVars, overlapped>>

PushStore ==
  /\ main = "store" /\ main' = "idle" /\ size' = loaded + 1
  /\ UNCHANGED <<off, slot, received, loaded, readerVars, overlapped>>

-----------------------------------------------------------------------------
(* Identify thread: readStreamSession. *)

\* Mutant of PopCheck: front and pop without the test of empty().
PopUnchecked ==
  /\ reader = "idle" /\ reader' = "front"
  /\ overlapped' = (overlapped \/ main # "idle")
  /\ UNCHANGED <<deque, mainVars, msg, seen, read>>

\* Not empty; when it is empty the call returns no message and changes nothing.
PopCheck ==
  /\ reader = "idle" /\ size > 0 /\ reader' = "front"
  /\ overlapped' = (overlapped \/ main # "idle")
  /\ UNCHANGED <<deque, mainVars, msg, seen, read>>

PopFront ==
  /\ reader = "front" /\ reader' = "load" /\ msg' = slot[off]
  /\ UNCHANGED <<deque, mainVars, seen, read, overlapped>>

\* pop decrements the size, by a load and a store...
PopLoad ==
  /\ reader = "load" /\ reader' = "store" /\ seen' = size
  /\ UNCHANGED <<deque, mainVars, msg, read, overlapped>>

PopStore ==
  /\ reader = "store" /\ reader' = "advance" /\ size' = seen - 1
  /\ UNCHANGED <<off, slot, mainVars, msg, seen, read, overlapped>>

\* Mutant of PopAdvance: the offset goes back to the start every time.
PopAdvanceReset ==
  /\ reader = "advance" /\ reader' = "idle"
  /\ off' = 0
  /\ read' = Append(read, msg)
  /\ UNCHANGED <<size, slot, mainVars, msg, seen, overlapped>>

\* ... then moves the offset, back to the start if the deque became empty.
PopAdvance ==
  /\ reader = "advance" /\ reader' = "idle"
  /\ off' = IF seen = 1 THEN 0 ELSE off + 1
  /\ read' = Append(read, msg)
  /\ UNCHANGED <<size, slot, mainVars, msg, seen, overlapped>>

Pushing == PushLoad \/ PushStore
Reading == PopCheck \/ PopFront \/ PopLoad \/ PopStore \/ PopAdvance
Next == PushPlace \/ Pushing \/ Reading

\* Both threads keep running; the identify thread calls readStreamSession for
\* ever.  Messages need not come.
Spec == Init /\ [][Next]_vars /\ WF_vars(Pushing) /\ WF_vars(Reading)

-----------------------------------------------------------------------------
\* pop never decrements a size of zero, which would leave 2^64 - 1 elements:
\* between empty() and pop() main can only make the size larger, whatever
\* updates are lost (main.cpp:125-128).
NeverUnderflows == reader = "store" => seen > 0

\* As long as no push has met a pop, the messages read are the first ones
\* received, in order, and the size counts the others (main.cpp:79, 125-128).
ExactUntilOverlap ==
  ~overlapped =>
    /\ \A i \in DOMAIN read : read[i] = i
    /\ main = "idle" /\ reader = "idle" => size = received - Len(read)

\* And then each message is read in the end.
DrainedUntilOverlap ==
  \A n \in 1 .. MaxMsgs : received = n ~> Len(read) >= n \/ overlapped
=============================================================================
