--------------------------- MODULE CandleRxProofs ---------------------------
(***************************************************************************)
(* Theorems about CandleRx, for every size of the ring, any number of      *)
(* frames and any number of failures.                                      *)
(***************************************************************************)
EXTENDS CandleRx, SequenceTheorems, TLAPS, FiniteSetTheorems

-----------------------------------------------------------------------------
(* Sequences by index. *)

Distinct(s) == \A i, j \in DOMAIN s : i # j => s[i] # s[j]

\* Both keep the elements of a sequence distinct, and a sequence increasing.
LEMMA AppendDistinct ==
  ASSUME NEW S, NEW s \in Seq(S), NEW e \in S,
         \A i \in DOMAIN s : s[i] # e, Distinct(s)
  PROVE  Distinct(Append(s, e))
BY AppendProperties, LenProperties DEF Distinct

LEMMA TailDistinct ==
  ASSUME NEW S, NEW s \in Seq(S), s # <<>>, Distinct(s)
  PROVE  /\ Distinct(Tail(s))
         /\ \A i \in DOMAIN Tail(s) : Tail(s)[i] # Head(s)
BY HeadTailProperties, LenProperties, EmptySeq DEF Distinct

\* What is in a longer sequence, and in a shorter one.
LEMMA AppendParts ==
  ASSUME NEW S, NEW s \in Seq(S), NEW e \in S, NEW i \in DOMAIN Append(s, e)
  PROVE  Append(s, e)[i] = e \/ \E j \in DOMAIN s : Append(s, e)[i] = s[j]
<1>1. /\ DOMAIN Append(s, e) = 1 .. Len(s) + 1 /\ DOMAIN s = 1 .. Len(s) /\ Len(s) \in Nat
      /\ \A k \in 1 .. Len(s) : Append(s, e)[k] = s[k]
      /\ Append(s, e)[Len(s) + 1] = e
  BY AppendProperties, LenProperties
<1>2. i = Len(s) + 1 \/ i \in 1 .. Len(s)
  BY <1>1
<1> QED
  BY <1>1, <1>2

LEMMA TailParts ==
  ASSUME NEW S, NEW s \in Seq(S), s # <<>>, NEW i \in DOMAIN s
  PROVE  s[i] = Head(s) \/ \E j \in DOMAIN Tail(s) : Tail(s)[j] = s[i]
<1>1. /\ Len(s) \in Nat \ {0} /\ DOMAIN s = 1 .. Len(s) /\ DOMAIN Tail(s) = 1 .. Len(s) - 1
      /\ Head(s) = s[1] /\ \A k \in 1 .. Len(s) - 1 : Tail(s)[k] = s[k + 1]
  BY HeadTailProperties, LenProperties, EmptySeq
<1>2. i = 1 \/ (i - 1 \in 1 .. Len(s) - 1 /\ (i - 1) + 1 = i)
  BY <1>1
<1> QED
  BY <1>1, <1>2

-----------------------------------------------------------------------------
\* Who has each URB: the kernel those that are armed, once each; the reader the
\* one it found.  A signaled URB is one the kernel has completed.
RingInv ==
  /\ \A u \in Urb : event[u] => result[u] \in {"frame", "error"}
  /\ \A u \in Urb : ~event[u] => result[u] \in {"pending", "refused"}
  /\ \A i \in DOMAIN armed : result[armed[i]] = "pending"
  /\ Distinct(armed)
  /\ pc # "poll" => event[urb]

\* The frames held are frames that arrived, each in one URB, and none has been
\* delivered; the reader's copy is that of the URB it found.
FrameInv ==
  /\ \A u \in Holding : 0 < buf[u] /\ buf[u] <= arrived
  /\ \A u, v \in Holding : buf[u] = buf[v] => u = v
  /\ \A i \in DOMAIN delivered : delivered[i] <= arrived
  /\ \A u \in Holding : \A i \in DOMAIN delivered : delivered[i] # buf[u]
  /\ pc = "rearm" => frame = IF result[urb] = "frame" THEN buf[urb] ELSE 0

IInv == TypeOK /\ RingInv /\ FrameInv

-----------------------------------------------------------------------------
\* The URBs as a range of numbers.
LEMMA Indices ==
  /\ UrbCount \in Nat \ {0} /\ MaxFrames \in Nat /\ MaxRefusals \in Nat
  /\ 0 \in Urb /\ Urb \subseteq Nat
BY RxConstants DEF Urb

\* The ring candle_dev_open arms: all URBs, in the order of their index.
LEMMA FullRing ==
  ASSUME armed = [i \in 1 .. UrbCount |-> i - 1]
  PROVE  armed \in Seq(Urb) /\ Distinct(armed)
<1>1. \A i \in 1 .. UrbCount : i - 1 \in Urb
  BY RxConstants DEF Urb
<1>2. armed \in Seq(Urb)
  BY <1>1, RxConstants
<1> QED
  BY <1>2, RxConstants DEF Distinct

\* Every state is well typed.
THEOREM TypeCorrect == Spec => []TypeOK
<1> USE Indices
<1>1. Init => TypeOK
  <2> SUFFICES ASSUME Init PROVE TypeOK
    OBVIOUS
  <2>1. armed \in Seq(Urb)
    BY FullRing DEF Init
  <2>2. delivered \in Seq(1 .. MaxFrames)
    BY DEF Init
  <2> QED
    BY <2>1, <2>2 DEF Init, TypeOK
<1>2. TypeOK /\ [Next]_vars => TypeOK'
  <2> SUFFICES ASSUME TypeOK, [Next]_vars PROVE TypeOK'
    OBVIOUS
  <2> USE DEF TypeOK, ring, counts
  <2>1. CASE Poll
    BY <2>1 DEF Poll
  <2>2. CASE Collect
    BY <2>2 DEF Collect
  <2>3. CASE Rearm
    <3>1. Append(armed, urb) \in Seq(Urb)
      BY AppendProperties, LenProperties
    <3>2. /\ event' \in [Urb -> BOOLEAN] /\ armed' \in Seq(Urb)
          /\ result' \in [Urb -> {"pending", "frame", "error", "refused"}]
      BY <2>3, <3>1 DEF Rearm, Arm
    <3>3. delivered' \in Seq(1 .. MaxFrames)
      <4>1. frame # 0 => Append(delivered, frame) \in Seq(1 .. MaxFrames)
        BY AppendProperties, LenProperties
      <4>2. delivered' = delivered \/ (frame # 0 /\ delivered' = Append(delivered, frame))
        BY <2>3 DEF Rearm
      <4> QED
        BY <4>1, <4>2
    <3>4. refusals' \in 0 .. MaxRefusals
      BY <2>3 DEF Rearm
    <3> QED
      BY <2>3, <3>2, <3>3, <3>4 DEF Rearm
  <2>4. CASE Complete
    <3>1. Head(armed) \in Urb /\ Tail(armed) \in Seq(Urb)
      BY <2>4, HeadTailProperties, LenProperties, EmptySeq DEF Complete
    <3>2. /\ event' \in [Urb -> BOOLEAN] /\ armed' \in Seq(Urb)
          /\ result' \in [Urb -> {"pending", "frame", "error", "refused"}]
      BY <2>4, <3>1 DEF Complete
    <3>3. buf' \in [Urb -> 0 .. MaxFrames] /\ arrived' \in 0 .. MaxFrames
      BY <2>4, <3>1 DEF Complete
    <3>4. refusals' \in 0 .. MaxRefusals
      BY <2>4 DEF Complete
    <3> QED
      BY <2>4, <3>2, <3>3, <3>4 DEF Complete
  <2>5. CASE UNCHANGED vars
    BY <2>5 DEF vars
  <2> QED
    BY <2>1, <2>2, <2>3, <2>4, <2>5 DEF Next, Reading
<1> QED
  BY <1>1, <1>2, PTL DEF Spec

-----------------------------------------------------------------------------
LEMMA RingStep == TypeOK /\ RingInv /\ [Next]_vars => RingInv'
<1> SUFFICES ASSUME TypeOK, RingInv, [Next]_vars PROVE RingInv'
  OBVIOUS
<1> USE Indices DEF TypeOK, ring, counts
<1>0. \A i \in DOMAIN armed : armed[i] \in Urb
  OBVIOUS
<1>1. CASE Poll
  BY <1>1 DEF Poll, WaitMultiple, RingInv
<1>2. CASE Collect
  BY <1>2 DEF Collect, RingInv
<1>3. CASE Rearm
  <2>1. event[urb] /\ result[urb] \in {"frame", "error"} /\ pc' = "poll"
    BY <1>3 DEF Rearm, RingInv
  <2>2. \A i \in DOMAIN armed : armed[i] # urb
    BY <2>1 DEF RingInv
  <2>3. CASE Arm(urb)
    <3>1. Distinct(armed')
      BY <2>2, <2>3, AppendDistinct DEF Arm, RingInv
    <3>2. \A i \in DOMAIN armed' : armed'[i] = urb \/ \E j \in DOMAIN armed : armed'[i] = armed[j]
      <4>1. armed \in Seq(Urb) /\ urb \in Urb /\ armed' = Append(armed, urb)
        BY <1>0, <2>3 DEF Arm
      <4> QED
        BY ONLY <4>1, AppendProperties, LenProperties
    <3>3. result' = [result EXCEPT ![urb] = "pending"] /\ event' = [event EXCEPT ![urb] = FALSE]
      BY <2>3 DEF Arm
    <3>4. \A i \in DOMAIN armed' : result'[armed'[i]] = "pending"
      BY <1>0, <3>2, <3>3 DEF RingInv
    <3> QED
      BY <2>1, <3>1, <3>3, <3>4 DEF RingInv
  <2>4. CASE UNCHANGED <<event, result, armed>>
    BY <2>1, <2>4 DEF RingInv
  <2>5. CASE /\ event' = [event EXCEPT ![urb] = FALSE]
             /\ result' = [result EXCEPT ![urb] = "refused"]
             /\ UNCHANGED armed
    BY <1>0, <2>1, <2>2, <2>5 DEF RingInv
  <2> QED
    BY <1>3, <2>3, <2>4, <2>5 DEF Rearm
<1>4. CASE Complete
  <2> DEFINE h == Head(armed)
  <2>1. h \in Urb /\ armed # <<>> /\ result[h] = "pending" /\ ~event[h]
    <3>1. h = armed[1] /\ 1 \in DOMAIN armed /\ h \in Urb
      BY <1>4, HeadTailProperties, LenProperties, EmptySeq DEF Complete
    <3> QED
      BY <1>4, <3>1 DEF Complete, RingInv
  <2>2. /\ Distinct(Tail(armed))
        /\ \A i \in DOMAIN Tail(armed) : Tail(armed)[i] # h
    BY <2>1, TailDistinct DEF RingInv
  <2>3. \A i \in DOMAIN Tail(armed) : \E j \in DOMAIN armed : Tail(armed)[i] = armed[j]
    BY <2>1, HeadTailProperties, LenProperties, EmptySeq
  <2>4. /\ armed' = Tail(armed) /\ event' = [event EXCEPT ![h] = TRUE]
        /\ \E r \in {"frame", "error"} : result' = [result EXCEPT ![h] = r]
        /\ UNCHANGED <<pc, urb>>
    BY <1>4 DEF Complete
  <2>5. \A i \in DOMAIN armed' : result'[armed'[i]] = "pending"
    BY <1>0, <2>1, <2>2, <2>3, <2>4 DEF RingInv
  <2>6. \A u \in Urb : /\ event'[u] => result'[u] \in {"frame", "error"}
                       /\ ~event'[u] => result'[u] \in {"pending", "refused"}
    BY <2>1, <2>4 DEF RingInv
  <2>7. pc' # "poll" => event'[urb']
    BY <2>1, <2>4 DEF RingInv
  <2> HIDE DEF h
  <2> QED
    BY <2>2, <2>4, <2>5, <2>6, <2>7 DEF RingInv
<1>5. CASE UNCHANGED vars
  BY <1>5 DEF vars, RingInv
<1> QED
  BY <1>1, <1>2, <1>3, <1>4, <1>5 DEF Next, Reading

-----------------------------------------------------------------------------
\* What a step makes of the URBs that hold a frame.
HoldingKept == Holding' = Holding /\ UNCHANGED <<buf, arrived, delivered>>
HoldingLoses == Holding' = Holding \ {urb} /\ UNCHANGED <<buf, arrived, delivered>>
HoldingDelivers ==
  /\ urb \in Holding /\ Holding' = Holding \ {urb}
  /\ delivered' = Append(delivered, buf[urb])
  /\ UNCHANGED <<buf, arrived>>
HoldingGrows ==
  \E h \in Urb \ Holding :
    /\ Holding' = Holding \cup {h}
    /\ arrived' = arrived + 1 /\ buf' = [buf EXCEPT ![h] = arrived + 1]
    /\ UNCHANGED delivered

LEMMA HoldingStep ==
  ASSUME IInv, [Next]_vars
  PROVE  /\ Poll \/ Collect \/ UNCHANGED vars => HoldingKept
         /\ Rearm => \/ refusals' = refusals /\ (HoldingKept \/ HoldingDelivers)
                     \/ refusals' = refusals + 1 /\ (HoldingKept \/ HoldingLoses)
         /\ Complete => HoldingKept \/ HoldingGrows
<1> USE Indices DEF IInv, TypeOK, ring, counts
<1>1. CASE Poll \/ Collect \/ UNCHANGED vars
  <2>1. UNCHANGED <<result, buf, arrived, delivered>>
    BY <1>1 DEF Poll, Collect, vars
  <2> QED
    BY <2>1, <1>1 DEF HoldingKept, Holding, Poll, Collect, Rearm, Complete, vars
<1>2. ASSUME Rearm
      PROVE  \/ refusals' = refusals /\ (HoldingKept \/ HoldingDelivers)
             \/ refusals' = refusals + 1 /\ (HoldingKept \/ HoldingLoses)
  <2>1. /\ UNCHANGED <<buf, arrived>> /\ urb \in Urb
        /\ frame = IF urb \in Holding THEN buf[urb] ELSE 0
        /\ urb \in Holding => buf[urb] # 0
    BY <1>2 DEF Rearm, FrameInv, Holding
  <2>2. ASSUME NEW r \in {"pending", "refused"}, result' = [result EXCEPT ![urb] = r]
        PROVE  Holding' = Holding \ {urb}
    BY <2>1, <2>2 DEF Holding
  <2>3. Arm(urb) => Holding' = Holding \ {urb}
    BY <2>2 DEF Arm
  <2>4. ASSUME Arm(urb), refusals' = refusals,
               delivered' = IF frame # 0 THEN Append(delivered, frame) ELSE delivered
        PROVE  HoldingKept \/ HoldingDelivers
    BY <2>1, <2>3, <2>4 DEF HoldingKept, HoldingDelivers
  <2>5. ASSUME UNCHANGED <<result, delivered>> PROVE HoldingKept
    BY <2>1, <2>5 DEF Holding, HoldingKept
  <2>6. ASSUME Holding' = Holding \ {urb}, UNCHANGED delivered PROVE HoldingLoses
    BY <2>1, <2>6 DEF HoldingLoses
  <2> QED
    BY <1>2, <2>2, <2>3, <2>4, <2>5, <2>6 DEF Rearm
<1>3. ASSUME Complete PROVE HoldingKept \/ HoldingGrows
  <2> DEFINE h == Head(armed)
  <2>1. h \in Urb \ Holding
    <3>1. h = armed[1] /\ 1 \in DOMAIN armed /\ h \in Urb
      BY <1>3, HeadTailProperties, LenProperties, EmptySeq DEF Complete
    <3> QED
      BY <3>1 DEF RingInv, Holding
  <2>2. \/ /\ arrived' = arrived + 1 /\ result' = [result EXCEPT ![h] = "frame"]
           /\ buf' = [buf EXCEPT ![h] = arrived + 1]
        \/ UNCHANGED <<arrived, buf>> /\ result' = [result EXCEPT ![h] = "error"]
    BY <1>3 DEF Complete
  <2>3. UNCHANGED delivered
    BY <1>3 DEF Complete
  <2> HIDE DEF h
  <2>4. result' = [result EXCEPT ![h] = "frame"] => Holding' = Holding \cup {h}
    BY <2>1 DEF Holding
  <2>5. result' = [result EXCEPT ![h] = "error"] => Holding' = Holding
    BY <2>1 DEF Holding
  <2> QED
    BY <2>1, <2>2, <2>3, <2>4, <2>5 DEF HoldingKept, HoldingGrows
<1> QED
  BY <1>1, <1>2, <1>3

LEMMA FrameStep == IInv /\ [Next]_vars => FrameInv'
<1> SUFFICES ASSUME IInv, [Next]_vars PROVE FrameInv'
  OBVIOUS
<1> USE Indices DEF IInv, TypeOK
<1>0. Holding \subseteq Urb /\ \A u \in Urb : buf[u] \in Nat
  BY DEF Holding
<1>00. \A i \in DOMAIN delivered : delivered[i] \in Nat
  OBVIOUS
<1>1. ASSUME HoldingKept, pc' = "rearm" =>
               frame' = IF result'[urb'] = "frame" THEN buf'[urb'] ELSE 0
      PROVE  FrameInv'
  BY <1>1 DEF HoldingKept, FrameInv
<1>2. ASSUME HoldingLoses, pc' # "rearm" PROVE FrameInv'
  BY <1>2 DEF HoldingLoses, FrameInv
<1>3. ASSUME HoldingDelivers, pc' # "rearm" PROVE FrameInv'
  <2>1. \A i \in DOMAIN delivered' :
           delivered'[i] = buf[urb] \/ \E j \in DOMAIN delivered : delivered'[i] = delivered[j]
    <3>1. PICK d \in Seq(Nat), e \in Nat : d = delivered /\ e = buf[urb] /\ delivered' = Append(d, e)
      BY <1>3, <1>0 DEF HoldingDelivers
    <3>2. \A i \in DOMAIN Append(d, e) : Append(d, e)[i] = e \/ \E j \in DOMAIN d : Append(d, e)[i] = d[j]
      BY ONLY d \in Seq(Nat), e \in Nat, AppendParts
    <3> QED
      BY <3>1, <3>2
  <2>2. /\ UNCHANGED <<buf, arrived>> /\ Holding' \subseteq Holding /\ urb \notin Holding'
        /\ urb \in Holding
    BY <1>3 DEF HoldingDelivers
  <2>3. \A i \in DOMAIN delivered' : delivered'[i] <= arrived
    BY <2>1, <2>2 DEF FrameInv
  <2>4. \A u \in Holding' : \A i \in DOMAIN delivered' : delivered'[i] # buf[u]
    BY <2>1, <2>2 DEF FrameInv
  <2> QED
    BY <1>3, <2>2, <2>3, <2>4 DEF FrameInv
<1>5. CASE Poll
  BY <1>1, <1>5, HoldingStep DEF Poll
<1>6. CASE Collect
  BY <1>1, <1>6, HoldingStep DEF Collect, ring
<1>7. CASE Rearm
  <2>1. pc' = "poll"
    BY <1>7 DEF Rearm
  <2> QED
    BY <1>1, <1>2, <1>3, <1>7, <2>1, HoldingStep
<1>8. CASE Complete
  <2> DEFINE h == Head(armed)
  <2>0. h \in Urb /\ result[h] = "pending" /\ ~event[h]
    <3>1. h = armed[1] /\ 1 \in DOMAIN armed /\ h \in Urb
      BY <1>8, HeadTailProperties, LenProperties, EmptySeq DEF Complete
    <3>2. result[h] = "pending"
      BY <3>1 DEF RingInv
    <3> QED
      BY <3>1, <3>2 DEF RingInv
  <2>1. pc = "rearm" => urb # h
    BY <2>0 DEF RingInv
  <2>2. /\ UNCHANGED <<pc, urb, frame>>
        /\ pc = "rearm" => result'[urb] = result[urb] /\ buf'[urb] = buf[urb]
    BY <1>8, <2>1 DEF Complete
  <2>3. pc' = "rearm" => frame' = IF result'[urb'] = "frame" THEN buf'[urb'] ELSE 0
    BY <2>2 DEF FrameInv
  <2>4. ASSUME HoldingGrows PROVE FrameInv'
    <3>1. PICK g \in Urb \ Holding :
            /\ Holding' = Holding \cup {g}
            /\ arrived' = arrived + 1 /\ buf' = [buf EXCEPT ![g] = arrived + 1]
            /\ UNCHANGED delivered
      BY <2>4 DEF HoldingGrows
    <3>2. buf'[g] = arrived + 1 /\ \A u \in Holding : buf'[u] = buf[u] /\ buf'[u] # arrived + 1
      BY <1>0, <3>1 DEF FrameInv
    <3>3. \A u \in Holding' : 0 < buf'[u] /\ buf'[u] <= arrived'
      BY <1>0, <3>1, <3>2 DEF FrameInv
    <3>4. \A u, v \in Holding' : buf'[u] = buf'[v] => u = v
      BY <3>1, <3>2 DEF FrameInv
    <3>5. \A i \in DOMAIN delivered : delivered[i] <= arrived /\ delivered[i] # arrived + 1
      BY <1>00 DEF FrameInv
    <3>6. \A i \in DOMAIN delivered' : delivered'[i] <= arrived'
      BY <1>00, <3>1, <3>5
    <3>7. \A u \in Holding' : \A i \in DOMAIN delivered' : delivered'[i] # buf'[u]
      BY <3>1, <3>2, <3>5 DEF FrameInv
    <3> QED
      BY <2>3, <3>3, <3>4, <3>6, <3>7 DEF FrameInv
  <2> QED
    BY <1>1, <1>8, <2>3, <2>4, HoldingStep
<1>9. CASE UNCHANGED vars
  BY <1>1, <1>9, HoldingStep DEF vars, ring, FrameInv
<1> QED
  BY <1>5, <1>6, <1>7, <1>8, <1>9 DEF Next, Reading

\* The inductive invariant of the receive side.
THEOREM Inductive == Spec => []IInv
<1>1. Init => RingInv /\ FrameInv
  <2> SUFFICES ASSUME Init PROVE RingInv /\ FrameInv
    OBVIOUS
  <2>1. armed \in Seq(Urb) /\ Distinct(armed) /\ Holding = {} /\ DOMAIN delivered = {}
    BY FullRing DEF Init, Holding
  <2>2. \A i \in DOMAIN armed : result[armed[i]] = "pending"
    <3>1. \A i \in DOMAIN armed : armed[i] \in Urb
      BY <2>1
    <3> QED
      BY <3>1 DEF Init
  <2> QED
    BY <2>1, <2>2 DEF Init, RingInv, FrameInv
<1>2. TypeOK /\ RingInv /\ FrameInv /\ [Next]_vars => RingInv' /\ FrameInv'
  BY RingStep, FrameStep DEF IInv
<1> QED
  BY <1>1, <1>2, TypeCorrect, PTL DEF Spec, IInv

\* The kernel never has the URB that the reader copies from or arms again.
THEOREM BuffersOwned == Spec => []BufferOwned
<1>1. IInv => BufferOwned
  <2> SUFFICES ASSUME IInv, pc # "poll", NEW i \in DOMAIN armed, armed[i] = urb
               PROVE  FALSE
    BY DEF BufferOwned
  <2>1. result[urb] = "pending"
    BY DEF IInv, RingInv
  <2>2. result[urb] \in {"frame", "error"}
    BY DEF IInv, TypeOK, RingInv
  <2> QED
    BY <2>1, <2>2
<1> QED
  BY <1>1, Inductive, PTL

-----------------------------------------------------------------------------
\* The ring implements the unordered lossy channel: no frame is delivered twice,
\* none is invented, whatever fails.
THEOREM Implements == Spec => ImplementsChannel
<1>1. Init => Channel!Init
  <2> SUFFICES ASSUME Init PROVE Channel!Init
    OBVIOUS
  <2>1. Held = {}
    BY DEF Init, Held, Holding
  <2> QED
    BY <2>1 DEF Init, Channel!Init
<1>2. IInv /\ IInv' /\ [Next]_vars => [Channel!Next]_(Channel!vars)
  <2> SUFFICES ASSUME IInv, IInv', [Next]_vars PROVE [Channel!Next]_(Channel!vars)
    OBVIOUS
  <2> USE DEF Channel!vars
  <2>0. Holding \subseteq Urb /\ \A u, v \in Holding : buf[u] = buf[v] => u = v
    BY DEF Holding, IInv, FrameInv
  <2>1. ASSUME HoldingKept PROVE UNCHANGED Channel!vars
    BY <2>1 DEF HoldingKept, Held
  <2>2. ASSUME Holding' = Holding \ {urb}, urb \in Holding, UNCHANGED buf
        PROVE  Held' = Held \ {buf[urb]} /\ buf[urb] \in Held
    BY <2>0, <2>2 DEF Held
  <2>3. ASSUME HoldingDelivers PROVE Channel!Deliver
    BY <2>2, <2>3 DEF HoldingDelivers, Channel!Deliver
  <2>4. ASSUME HoldingLoses PROVE Channel!Lose \/ UNCHANGED Channel!vars
    <3>1. CASE urb \in Holding
      BY <2>2, <2>4, <3>1 DEF HoldingLoses, Channel!Lose
    <3>2. CASE urb \notin Holding
      BY <2>1, <2>4, <3>2 DEF HoldingLoses, HoldingKept
    <3> QED
      BY <3>1, <3>2
  <2>5. ASSUME HoldingGrows PROVE Channel!Arrive
    <3>1. PICK h \in Urb \ Holding :
            /\ Holding' = Holding \cup {h}
            /\ arrived' = arrived + 1 /\ buf' = [buf EXCEPT ![h] = arrived + 1]
            /\ UNCHANGED delivered
      BY <2>5 DEF HoldingGrows
    <3>2. buf'[h] = arrived + 1 /\ \A u \in Holding : buf'[u] = buf[u]
      BY <2>0, <3>1 DEF IInv, TypeOK
    <3>3. Held' = Held \cup {arrived + 1}
      BY <3>1, <3>2 DEF Held
    <3>4. arrived < MaxFrames
      BY <3>1, Indices DEF IInv, TypeOK
    <3> QED
      BY <3>1, <3>3, <3>4 DEF Channel!Arrive
  <2> QED
    BY <2>1, <2>3, <2>4, <2>5, HoldingStep DEF Next, Reading, Channel!Next
<1> QED
  BY <1>1, <1>2, Inductive, PTL DEF Spec, ImplementsChannel, Channel!Spec

-----------------------------------------------------------------------------
(* What refusals cost. *)

Lost == (1 .. arrived) \ (Held \cup Got)
Dead == Urb \ ({armed[i] : i \in DOMAIN armed} \cup Signaled)
CostInv ==
  /\ IsFiniteSet(Lost) /\ Cardinality(Lost) <= refusals
  /\ IsFiniteSet(Dead) /\ Cardinality(Dead) <= refusals

LEMMA OneMore ==
  ASSUME NEW S, NEW T, NEW x, NEW n \in Nat, NEW m, IsFiniteSet(S), Cardinality(S) <= n,
         (m = n /\ T \subseteq S) \/ (m = n + 1 /\ T \subseteq S \cup {x})
  PROVE  IsFiniteSet(T) /\ Cardinality(T) <= m
<1>1. /\ IsFiniteSet(S \cup {x}) /\ Cardinality(S \cup {x}) <= Cardinality(S) + 1
      /\ Cardinality(S) \in Nat
  <2>1. Cardinality(S) \in Nat
    BY FS_CardinalityType
  <2>2. IsFiniteSet(S \cup {x})
    BY FS_AddElement
  <2>3. Cardinality(S \cup {x}) = IF x \in S THEN Cardinality(S) ELSE Cardinality(S) + 1
    BY FS_AddElement
  <2> QED
    BY <2>1, <2>2, <2>3
<1>2. CASE m = n /\ T \subseteq S
  <2>1. IsFiniteSet(T) /\ Cardinality(T) <= Cardinality(S)
    BY <1>2, FS_Subset
  <2> QED
    BY <1>1, <1>2, <2>1, FS_CardinalityType
<1>3. CASE m = n + 1 /\ T \subseteq S \cup {x}
  <2>1. IsFiniteSet(T) /\ Cardinality(T) <= Cardinality(S \cup {x})
    BY <1>1, <1>3, FS_Subset
  <2>2. Cardinality(T) \in Nat /\ Cardinality(S \cup {x}) \in Nat
    BY <1>1, <2>1, FS_CardinalityType
  <2> QED
    BY <1>1, <1>3, <2>1, <2>2
<1> QED
  BY <1>2, <1>3

\* A step loses a frame only when a re-arming is refused, and then one at most.
LEMMA LostStep ==
  ASSUME IInv, [Next]_vars
  PROVE  \/ refusals' = refusals /\ Lost' \subseteq Lost
         \/ refusals' = refusals + 1 /\ Lost' \subseteq Lost \cup {buf[urb]}
<1> USE DEF IInv, TypeOK
<1>0. Holding \subseteq Urb /\ \A u, v \in Holding : buf[u] = buf[v] => u = v
  BY DEF Holding, FrameInv
<1>1. HoldingKept => Lost' = Lost
  BY DEF HoldingKept, Lost, Held, Got
<1>2. ASSUME HoldingDelivers PROVE Lost' \subseteq Lost
  <2>1. UNCHANGED <<arrived, buf>> /\ Holding \subseteq Holding' \cup {urb}
    BY <1>2 DEF HoldingDelivers
  <2>2. Got \cup {buf[urb]} \subseteq Got'
    <3>1. /\ DOMAIN delivered \subseteq DOMAIN delivered'
          /\ \A i \in DOMAIN delivered : delivered'[i] = delivered[i]
          /\ \E i \in DOMAIN delivered' : delivered'[i] = buf[urb]
      <4>1. buf[urb] \in 1 .. MaxFrames /\ delivered' = Append(delivered, buf[urb])
        BY <1>2, <1>0 DEF HoldingDelivers, FrameInv
      <4>2. delivered \in Seq(1 .. MaxFrames)
        OBVIOUS
      <4>3. LET s == Append(delivered, buf[urb]) IN
            /\ \A i \in DOMAIN delivered : i \in DOMAIN s /\ s[i] = delivered[i]
            /\ \E i \in DOMAIN s : s[i] = buf[urb]
        BY ONLY <4>1, <4>2, AppendProperties, LenProperties
      <4> QED
        BY ONLY <4>1, <4>3
    <3> QED
      BY <3>1 DEF Got
  <2>3. Held \subseteq Held' \cup {buf[urb]}
    BY <2>1 DEF Held
  <2> QED
    BY <2>1, <2>2, <2>3 DEF Lost
<1>3. ASSUME HoldingLoses PROVE Lost' \subseteq Lost \cup {buf[urb]}
  <2>1. UNCHANGED <<arrived, buf, delivered>> /\ Holding \subseteq Holding' \cup {urb}
    BY <1>3 DEF HoldingLoses
  <2>2. Held \subseteq Held' \cup {buf[urb]} /\ Got' = Got
    BY <2>1 DEF Held, Got
  <2> QED
    BY <2>1, <2>2 DEF Lost
<1>4. ASSUME HoldingGrows PROVE Lost' \subseteq Lost
  <2>1. PICK h \in Urb \ Holding :
          /\ Holding' = Holding \cup {h}
          /\ arrived' = arrived + 1 /\ buf' = [buf EXCEPT ![h] = arrived + 1]
          /\ UNCHANGED delivered
    BY <1>4 DEF HoldingGrows
  <2>2. buf'[h] = arrived + 1 /\ \A u \in Holding : buf'[u] = buf[u]
    BY <1>0, <2>1
  <2>3. Held \cup {arrived + 1} \subseteq Held' /\ Got' = Got
    BY <2>1, <2>2 DEF Held, Got
  <2>4. 1 .. arrived' \subseteq (1 .. arrived) \cup {arrived + 1}
    BY <2>1
  <2> QED
    BY <2>3, <2>4 DEF Lost
<1>5. Poll \/ Collect \/ UNCHANGED vars \/ Complete => refusals' = refusals
  BY DEF Poll, Collect, Complete, counts, vars
<1> QED
  BY <1>1, <1>2, <1>3, <1>4, <1>5, HoldingStep DEF Next, Reading

\* The same for the URBs of the ring.
LEMMA DeadStep ==
  ASSUME IInv, [Next]_vars
  PROVE  \/ refusals' = refusals /\ Dead' \subseteq Dead
         \/ refusals' = refusals + 1 /\ Dead' \subseteq Dead \cup {urb}
<1> USE DEF IInv, TypeOK
<1>1. CASE Poll \/ Collect \/ UNCHANGED vars
  BY <1>1 DEF Poll, Collect, vars, ring, counts, Dead, Signaled
<1>2. CASE Rearm
  <2>1. CASE Arm(urb)
    <3>1. /\ \A i \in DOMAIN armed : i \in DOMAIN armed' /\ armed'[i] = armed[i]
          /\ \E i \in DOMAIN armed' : armed'[i] = urb
      <4>1. armed \in Seq(Urb) /\ urb \in Urb /\ armed' = Append(armed, urb)
        BY <2>1 DEF Arm
      <4> QED
        BY ONLY <4>1, AppendProperties, LenProperties
    <3>2. Signaled \subseteq Signaled' \cup {urb}
      BY <2>1 DEF Arm, Signaled
    <3>3. Dead' \subseteq Dead
      BY <3>1, <3>2 DEF Dead
    <3> QED
      BY <1>2, <3>3 DEF Rearm
  <2>2. CASE UNCHANGED <<event, result, armed, refusals>>
    BY <2>2 DEF Dead, Signaled
  <2>3. CASE event' = [event EXCEPT ![urb] = FALSE] /\ UNCHANGED armed /\ refusals' = refusals + 1
    <3>1. Signaled \subseteq Signaled' \cup {urb}
      BY <2>3 DEF Signaled
    <3> QED
      BY <2>3, <3>1 DEF Dead
  <2> QED
    BY <1>2, <2>1, <2>2, <2>3 DEF Rearm
<1>3. CASE Complete
  <2>1. /\ Head(armed) = armed[1] /\ armed' = Tail(armed) /\ Head(armed) \in Urb
        /\ event' = [event EXCEPT ![Head(armed)] = TRUE] /\ refusals' = refusals
    BY <1>3, HeadTailProperties, LenProperties, EmptySeq DEF Complete
  <2>2. \A i \in DOMAIN armed :
          armed[i] = Head(armed) \/ \E j \in DOMAIN Tail(armed) : Tail(armed)[j] = armed[i]
    <3>1. PICK a \in Seq(Urb) : a = armed /\ a # <<>>
      BY <1>3 DEF Complete, TypeOK
    <3>2. \A i \in DOMAIN a : a[i] = Head(a) \/ \E j \in DOMAIN Tail(a) : Tail(a)[j] = a[i]
      BY ONLY <3>1, TailParts
    <3> QED
      BY <3>1, <3>2
  <2>3. Signaled \cup {Head(armed)} \subseteq Signaled'
    BY <2>1 DEF Signaled
  <2>4. ASSUME NEW u \in Dead' PROVE u \in Dead
    <3>1. u \in Urb /\ u \notin Signaled' /\ \A j \in DOMAIN Tail(armed) : Tail(armed)[j] # u
      BY <2>1 DEF Dead
    <3>2. \A i \in DOMAIN armed : armed[i] # u
      BY <2>2, <2>3, <3>1
    <3> QED
      BY <2>3, <3>1, <3>2 DEF Dead
  <2> QED
    BY <2>1, <2>4
<1> QED
  BY <1>1, <1>2, <1>3 DEF Next, Reading

LEMMA CostBounded == Spec => []CostInv
<1>1. Init => CostInv
  <2> SUFFICES ASSUME Init PROVE CostInv
    OBVIOUS
  <2>1. Lost = {}
    BY DEF Init, Lost
  <2>2. Dead = {}
    <3>1. \A u \in Urb : u + 1 \in DOMAIN armed /\ armed[u + 1] = u
      BY RxConstants DEF Init, Urb
    <3> QED
      BY <3>1 DEF Dead
  <2> QED
    BY <2>1, <2>2, FS_EmptySet DEF Init, CostInv
<1>2. IInv /\ CostInv /\ [Next]_vars => CostInv'
  <2> SUFFICES ASSUME IInv, CostInv, [Next]_vars PROVE CostInv'
    OBVIOUS
  <2>0. refusals \in Nat
    BY DEF IInv, TypeOK
  <2>1. IsFiniteSet(Lost') /\ Cardinality(Lost') <= refusals'
    <3>1. \/ refusals' = refusals /\ Lost' \subseteq Lost
          \/ refusals' = refusals + 1 /\ Lost' \subseteq Lost \cup {buf[urb]}
      BY LostStep
    <3>2. IsFiniteSet(Lost) /\ Cardinality(Lost) <= refusals
      BY DEF CostInv
    <3> QED
      BY ONLY <2>0, <3>1, <3>2, OneMore
  <2>2. IsFiniteSet(Dead') /\ Cardinality(Dead') <= refusals'
    <3>1. \/ refusals' = refusals /\ Dead' \subseteq Dead
          \/ refusals' = refusals + 1 /\ Dead' \subseteq Dead \cup {urb}
      BY DeadStep
    <3>2. IsFiniteSet(Dead) /\ Cardinality(Dead) <= refusals
      BY DEF CostInv
    <3> QED
      BY ONLY <2>0, <3>1, <3>2, OneMore
  <2> QED
    BY <2>1, <2>2 DEF CostInv
<1> QED
  BY <1>1, <1>2, Inductive, PTL DEF Spec

\* A refusal that resets the event costs one frame at most, and nothing else costs any.
THEOREM LossBounded == Spec => []LossAccounted
<1>1. CostInv => LossAccounted
  BY DEF CostInv, Lost, LossAccounted
<1> QED
  BY <1>1, CostBounded, PTL

\* A refusal costs one URB of the ring at most, and nothing else costs any.
THEOREM RingBounded == Spec => []RingAccounted
<1>1. CostInv => RingAccounted
  BY DEF CostInv, Dead, RingAccounted
<1> QED
  BY <1>1, CostBounded, PTL
=============================================================================
