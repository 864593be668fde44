--------------------------- MODULE CanRxFifoProofs ---------------------------
(***************************************************************************)
(* The FIFO between main and the identify thread, for any number of        *)
(* messages: what its race can never do, and what it does until a push     *)
(* first meets a pop.                                                      *)
(***************************************************************************)
EXTENDS CanRxFifo, SequenceTheorems, TLAPS

TypeInv ==
  /\ off \in Nat /\ size \in Nat /\ received \in Nat /\ loaded \in Nat /\ seen \in Nat
  /\ DOMAIN slot = Slot /\ overlapped \in BOOLEAN
  /\ main \in {"idle", "load", "store"}
  /\ reader \in {"idle", "front", "load", "store", "advance"}

\* Between empty() and pop() the size is not zero, whatever main does to it.
SizeInv ==
  /\ reader \in {"front", "load"} => size > 0
  /\ reader = "store" => seen > 0

Left == received - Len(read)     \* messages not read yet
Counted == IF main = "idle" THEN 0 ELSE 1
Popped == IF reader = "advance" THEN 1 ELSE 0

\* The messages read, and those left, in the slots from the offset on.
Contents ==
  /\ read \in Seq(Nat) /\ \A i \in DOMAIN read : read[i] = i
  /\ \A i \in Nat : i < Left => slot[off + i] = Len(read) + 1 + i

\* The size counts those left but the one being pushed or popped.
Counts ==
  /\ size = Left - Counted - Popped
  /\ main = "store" => loaded = size
  /\ reader \in {"load", "store", "advance"} => msg = Len(read) + 1
  /\ reader = "store" => seen = size
  /\ reader = "advance" => seen = size + 1

ExactInv ==
  ~overlapped => (main = "idle" \/ reader = "idle") /\ Contents /\ Counts

IInv == TypeInv /\ SizeInv /\ ExactInv

LEMMA InitInv == Init => IInv
<1> SUFFICES ASSUME Init PROVE IInv
  OBVIOUS
<1>1. TypeInv /\ SizeInv
  BY DEF Init, TypeInv, SizeInv
<1>2. read = <<>> /\ received = 0 /\ main = "idle" /\ reader = "idle" /\ size = 0
  BY DEF Init
<1>3. Left = 0
  <2>1. Len(read) = 0
    BY <1>2
  <2>2. received = 0
    BY <1>2
  <2> QED
    BY ONLY <2>1, <2>2 DEF Left
<1>4. Contents
  <2>1. read \in Seq(Nat)
    BY <1>2
  <2>2. \A i \in DOMAIN read : read[i] = i
    BY <1>2
  <2> QED
    BY <2>1, <2>2, <1>3 DEF Contents
<1>5. Counts
  BY <1>2, <1>3 DEF Counts, Counted, Popped
<1> QED
  BY <1>1, <1>2, <1>4, <1>5 DEF IInv, ExactInv

LEMMA TypeStep == TypeInv /\ SizeInv /\ [Next]_vars => TypeInv' /\ SizeInv'
<1> SUFFICES ASSUME TypeInv, SizeInv, [Next]_vars PROVE TypeInv' /\ SizeInv'
  OBVIOUS
<1> USE DEF TypeInv, SizeInv, deque, mainVars, readerVars
<1>1. CASE PushPlace
  BY <1>1 DEF PushPlace
<1>2. CASE PushLoad
  BY <1>2 DEF PushLoad
<1>3. CASE PushStore
  BY <1>3 DEF PushStore
<1>4. CASE PopCheck
  BY <1>4 DEF PopCheck
<1>5. CASE PopFront
  BY <1>5 DEF PopFront
<1>6. CASE PopLoad
  BY <1>6 DEF PopLoad
<1>7. CASE PopStore
  BY <1>7 DEF PopStore
<1>8. CASE PopAdvance
  BY <1>8 DEF PopAdvance
<1>9. CASE UNCHANGED vars
  BY <1>9 DEF vars
<1> QED
  BY <1>1, <1>2, <1>3, <1>4, <1>5, <1>6, <1>7, <1>8, <1>9 DEF Next, Pushing, Reading

\* A push that no pop has met.
LEMMA PushPlaceExact == IInv /\ PushPlace => ExactInv'
<1> SUFFICES ASSUME IInv, PushPlace, ~overlapped' PROVE (main = "idle" \/ reader = "idle")' /\ Contents' /\ Counts'
  BY DEF ExactInv
<1>1. ~overlapped /\ reader = "idle" /\ main = "idle" /\ Contents /\ Counts
  BY DEF PushPlace, IInv, ExactInv, TypeInv
<1>2. /\ received' = received + 1 /\ main' = "load" /\ off + size \in Slot
      /\ slot' = [slot EXCEPT ![off + size] = received + 1]
      /\ UNCHANGED <<off, size, loaded, reader, msg, seen, read>>
  BY DEF PushPlace, readerVars
<1>3. Len(read) \in Nat
  BY <1>1, AppendProperties, LenProperties DEF Contents
<1>4. Left' = Left + 1 /\ Left \in Int /\ size = Left
  BY <1>1, <1>2, <1>3 DEF Left, Counts, Counted, Popped, IInv, TypeInv
<1>5. ASSUME NEW i \in Nat, i < Left' PROVE slot'[off + i] = Len(read) + 1 + i
  <2>1. CASE i = size
    BY <2>1, <1>2, <1>3, <1>4 DEF Left, IInv, TypeInv
  <2>2. CASE i # size
    <3>1. i < Left /\ off + i # off + size
      BY <2>2, <1>4, <1>5 DEF IInv, TypeInv
    <3>2. slot[off + i] = Len(read) + 1 + i
      BY <3>1, <1>1 DEF Contents
    <3>3. slot'[off + i] = slot[off + i]
      BY <3>1, <1>2, <1>4, <1>5 DEF IInv, TypeInv, Slot
    <3> QED
      BY <3>2, <3>3
  <2> QED
    BY <2>1, <2>2
<1>6. Contents'
  BY <1>1, <1>2, <1>5 DEF Contents
<1> QED
  BY <1>1, <1>2, <1>4, <1>6 DEF Counts, Counted, Popped

\* A pop that no push has met ends: the first message left is the last one read.
LEMMA PopAdvanceExact == IInv /\ PopAdvance => ExactInv'
<1> SUFFICES ASSUME IInv, PopAdvance, ~overlapped' PROVE (main = "idle" \/ reader = "idle")' /\ Contents' /\ Counts'
  BY DEF ExactInv
<1>1. ~overlapped /\ reader = "advance" /\ main = "idle" /\ Contents /\ Counts
  BY DEF PopAdvance, IInv, ExactInv
<1>2. /\ reader' = "idle" /\ off' = (IF seen = 1 THEN 0 ELSE off + 1) /\ read' = Append(read, msg)
      /\ UNCHANGED <<size, slot, received, main, loaded>>
  BY DEF PopAdvance, mainVars
<1>3. /\ Len(read) \in Nat /\ msg = Len(read) + 1 /\ seen = size + 1
      /\ size = Left - 1 /\ Left \in Int
  BY <1>1, AppendProperties, LenProperties DEF Contents, Counts, Counted, Popped, Left, IInv, TypeInv
<1>4. /\ read' \in Seq(Nat) /\ Len(read') = Len(read) + 1
      /\ DOMAIN read = 1 .. Len(read) /\ DOMAIN read' = 1 .. Len(read) + 1
      /\ \A i \in 1 .. Len(read) : read'[i] = read[i]
      /\ read'[Len(read) + 1] = msg
  BY <1>1, <1>2, <1>3, AppendProperties, LenProperties DEF Contents
<1>5. Left' = Left - 1
  BY <1>2, <1>3, <1>4 DEF Left, IInv, TypeInv
<1>6. \A i \in DOMAIN read' : read'[i] = i
  <2> SUFFICES ASSUME NEW i \in DOMAIN read' PROVE read'[i] = i
    OBVIOUS
  <2>1. CASE i = Len(read) + 1
    BY <2>1, <1>3, <1>4
  <2>2. CASE i # Len(read) + 1
    <3>1. i \in 1 .. Len(read)
      BY <2>2, <1>3, <1>4
    <3> QED
      BY <3>1, <1>1, <1>4 DEF Contents
  <2> QED
    BY <2>1, <2>2
<1>7. ASSUME NEW i \in Nat, i < Left' PROVE slot'[off' + i] = Len(read') + 1 + i
  <2>1. seen # 1 /\ i + 1 < Left
    BY <1>3, <1>5, <1>7
  <2>2. off' + i = off + (i + 1)
    BY <2>1, <1>2 DEF IInv, TypeInv
  <2>3. slot[off + (i + 1)] = Len(read) + 1 + (i + 1)
    BY <2>1, <1>1 DEF Contents
  <2> QED
    BY <2>2, <2>3, <1>2, <1>3, <1>4
<1>8. Contents'
  BY <1>4, <1>6, <1>7 DEF Contents
<1>9. Counts'
  <2>1. (main = "idle")' /\ (reader = "idle")' /\ size' = Left'
    BY <1>1, <1>2, <1>3, <1>5
  <2> QED
    BY <2>1, <1>3, <1>5 DEF Counts, Counted, Popped
<1>10. (reader = "idle")'
  BY <1>2
<1> QED
  BY <1>8, <1>9, <1>10

LEMMA ExactStep == IInv /\ [Next]_vars => ExactInv'
<1> SUFFICES ASSUME IInv, [Next]_vars PROVE ExactInv'
  OBVIOUS
<1> USE DEF deque, mainVars, readerVars, IInv, TypeInv, SizeInv, ExactInv
<1>0. ASSUME UNCHANGED <<off, slot, received, read>> PROVE (Contents => Contents') /\ Left' = Left
  BY <1>0 DEF Contents, Left
<1>1. CASE PushPlace
  BY <1>1, PushPlaceExact
<1>2. CASE PushLoad
  BY <1>0, <1>2 DEF PushLoad, Counts, Counted, Popped
<1>3. CASE PushStore
  <2>1. ~overlapped => Left \in Int
    BY AppendProperties, LenProperties DEF Contents, Left
  <2> QED
    BY <1>0, <1>3, <2>1 DEF PushStore, Counts, Counted, Popped
<1>4. CASE PopCheck
  BY <1>0, <1>4 DEF PopCheck, Counts, Counted, Popped
<1>5. CASE PopFront
  <2>1. ASSUME ~overlapped PROVE slot[off] = Len(read) + 1
    <3>1. Contents /\ Counts /\ size > 0 /\ main = "idle" /\ Len(read) \in Nat
      BY <1>5, <2>1, AppendProperties, LenProperties DEF PopFront, Contents
    <3>2. 0 < Left /\ 0 \in Nat /\ off + 0 = off
      BY <1>5, <3>1 DEF PopFront, Counts, Counted, Popped, Left
    <3>3. slot[off + 0] = Len(read) + 1 + 0
      BY <3>1, <3>2 DEF Contents
    <3> QED
      BY <3>1, <3>2, <3>3
  <2> QED
    BY <1>0, <1>5, <2>1 DEF PopFront, Counts, Counted, Popped
<1>6. CASE PopLoad
  BY <1>0, <1>6 DEF PopLoad, Counts, Counted, Popped
<1>7. CASE PopStore
  <2>1. ~overlapped => Left \in Int
    BY AppendProperties, LenProperties DEF Contents, Left
  <2> QED
    BY <1>0, <1>7, <2>1 DEF PopStore, Counts, Counted, Popped
<1>8. CASE PopAdvance
  BY <1>8, PopAdvanceExact
<1>9. CASE UNCHANGED vars
  BY <1>0, <1>9 DEF vars, Counts, Counted, Popped
<1> QED
  BY <1>1, <1>2, <1>3, <1>4, <1>5, <1>6, <1>7, <1>8, <1>9 DEF Next, Pushing, Reading

LEMMA Invariant == Spec => []IInv
<1>1. IInv /\ [Next]_vars => IInv'
  BY TypeStep, ExactStep DEF IInv
<1> QED
  BY InitInv, <1>1, PTL DEF Spec

\* pop never decrements a size of zero, however often pushes and pops meet, for any
\* number of messages (main.cpp:125-128).
THEOREM Underflow == Spec => []NeverUnderflows
<1>1. IInv => NeverUnderflows
  BY DEF IInv, SizeInv, NeverUnderflows
<1> QED
  BY Invariant, <1>1, PTL

\* Until a push first meets a pop, what is read is what was received, in order, and
\* the size counts the rest (main.cpp:79, 125-128).
THEOREM Exact == Spec => []ExactUntilOverlap
<1>1. IInv => ExactUntilOverlap
  <2> SUFFICES ASSUME IInv, ~overlapped
               PROVE  /\ \A i \in DOMAIN read : read[i] = i
                      /\ main = "idle" /\ reader = "idle" => size = received - Len(read)
    BY DEF ExactUntilOverlap
  <2>1. Contents /\ Counts /\ Len(read) \in Nat /\ received \in Nat
    BY AppendProperties, LenProperties DEF IInv, ExactInv, Contents, TypeInv
  <2> QED
    BY <2>1 DEF Contents, Counts, Counted, Popped, Left
<1> QED
  BY Invariant, <1>1, PTL
=============================================================================
