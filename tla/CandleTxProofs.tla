--------------------------- MODULE CandleTxProofs ---------------------------
(***************************************************************************)
(* Theorems about CandleTx, for every size of the URB pool and any number  *)
(* of calls.                                                               *)
(***************************************************************************)
EXTENDS CandleTx, SequenceTheorems, TLAPS

-----------------------------------------------------------------------------
(* Sequences by index. *)

Distinct(s) == \A i, j \in DOMAIN s : i # j => s[i] # s[j]
Increasing(s) == \A i, j \in DOMAIN s : i < j => s[i] < s[j]
\* What f holds for each element of s.
Through(f, s) == [i \in DOMAIN s |-> f[s[i]]]

LEMMA AppendKeeps ==
  ASSUME NEW S, NEW s \in Seq(S), NEW e \in S
  PROVE  /\ \A i \in DOMAIN s : i \in DOMAIN Append(s, e) /\ Append(s, e)[i] = s[i]
         /\ \E i \in DOMAIN Append(s, e) : Append(s, e)[i] = e
         /\ \A i \in DOMAIN Append(s, e) :
              Append(s, e)[i] = e \/ (i \in DOMAIN s /\ Append(s, e)[i] = s[i])
BY AppendProperties, LenProperties

\* Both keep the elements of a sequence distinct, and a sequence increasing.
LEMMA AppendDistinct ==
  ASSUME NEW S, NEW s \in Seq(S), NEW e \in S,
         \A i \in DOMAIN s : s[i] # e, Distinct(s)
  PROVE  Distinct(Append(s, e))
BY AppendProperties, LenProperties DEF Distinct

LEMMA TailDistinct ==
  ASSUME NEW S, NEW s \in Seq(S), s # <<>>, Distinct(s)
  PROVE  /\ Distinct(Tail(s))
         /\ \A i \in DOMAIN Tail(s) : Tail(s)[i] # Head(s)
BY HeadTailProperties, LenProperties, EmptySeq DEF Distinct

LEMMA AppendIncreasing ==
  ASSUME NEW s \in Seq(Int), NEW e \in Int,
         \A i \in DOMAIN s : s[i] < e, Increasing(s)
  PROVE  Increasing(Append(s, e))
<1>1. \A i \in DOMAIN s : s[i] \in Int
  BY AppendProperties, LenProperties
<1> QED
  BY <1>1, AppendProperties, LenProperties DEF Increasing

LEMMA TailIncreasing ==
  ASSUME NEW s \in Seq(Int), s # <<>>, Increasing(s)
  PROVE  /\ Increasing(Tail(s))
         /\ \A i \in DOMAIN Tail(s) : Head(s) < Tail(s)[i]
<1>1. \A i \in DOMAIN s : s[i] \in Int
  BY AppendProperties, LenProperties
<1>2. \A i \in DOMAIN Tail(s) :
        /\ i \in Nat /\ Tail(s)[i] = s[i + 1] /\ i + 1 \in DOMAIN s
        /\ Head(s) = s[1] /\ 1 \in DOMAIN s /\ 1 < i + 1
  BY HeadTailProperties, LenProperties, EmptySeq
<1>3. \A i \in DOMAIN Tail(s) : Head(s) < Tail(s)[i]
  BY <1>2 DEF Increasing
<1>4. ASSUME NEW i \in DOMAIN Tail(s), NEW j \in DOMAIN Tail(s), i < j
      PROVE  Tail(s)[i] < Tail(s)[j]
  <2>1. i + 1 < j + 1
    BY <1>2, <1>4
  <2> QED
    BY <1>2, <2>1 DEF Increasing
<1> QED
  BY <1>3, <1>4 DEF Increasing

\* Append, Tail and a change of f, seen through f.
LEMMA ThroughType ==
  ASSUME NEW S, NEW f \in [S -> Nat], NEW s \in Seq(S)
  PROVE  /\ Through(f, s) \in Seq(Nat)
         /\ Len(Through(f, s)) = Len(s)
         /\ \A i \in 1 .. Len(s) : Through(f, s)[i] = f[s[i]]
<1>1. \A i \in 1 .. Len(s) : f[s[i]] \in Nat
  OBVIOUS
<1> QED
  BY <1>1 DEF Through

LEMMA ThroughAppend ==
  ASSUME NEW S, NEW f \in [S -> Nat], NEW s \in Seq(S), NEW e \in S
  PROVE  Through(f, Append(s, e)) = Append(Through(f, s), f[e])
<1> DEFINE a == Through(f, Append(s, e))
           b == Append(Through(f, s), f[e])
<1>1. a \in Seq(Nat) /\ Len(a) = Len(s) + 1
  <2>1. Append(s, e) \in Seq(S) /\ Len(Append(s, e)) = Len(s) + 1
    BY AppendProperties, LenProperties
  <2> QED
    BY <2>1, ThroughType
<1>2. b \in Seq(Nat) /\ Len(b) = Len(s) + 1
  <2>1. f[e] \in Nat /\ Through(f, s) \in Seq(Nat) /\ Len(Through(f, s)) = Len(s)
    BY ThroughType
  <2> QED
    BY <2>1, AppendProperties
<1>3. \A i \in 1 .. Len(s) + 1 : a[i] = b[i]
  BY ThroughType, AppendProperties, LenProperties DEF Through
<1> QED
  BY <1>1, <1>2, <1>3, SeqEqual

LEMMA ThroughTail ==
  ASSUME NEW S, NEW f \in [S -> Nat], NEW s \in Seq(S), s # <<>>
  PROVE  /\ Through(f, s) # <<>>
         /\ Head(Through(f, s)) = f[Head(s)]
         /\ Through(f, Tail(s)) = Tail(Through(f, s))
<1> DEFINE a == Through(f, Tail(s))
           b == Tail(Through(f, s))
<1>0. Len(s) \in Nat \ {0} /\ Through(f, s) \in Seq(Nat) /\ Len(Through(f, s)) = Len(s)
  <2>1. Len(s) \in Nat \ {0}
    BY HeadTailProperties, LenProperties, EmptySeq
  <2> QED
    BY <2>1, ThroughType
<1>1. Through(f, s) # <<>> /\ Head(Through(f, s)) = f[Head(s)]
  <2>1. 1 \in DOMAIN s /\ Head(s) = s[1]
    BY HeadTailProperties, LenProperties, EmptySeq
  <2>2. Through(f, s)[1] = f[s[1]]
    BY <2>1 DEF Through
  <2>3. Through(f, s) # <<>>
    BY <1>0
  <2>4. Head(Through(f, s)) = Through(f, s)[1]
    BY <1>0, <2>3, HeadTailProperties, LenProperties, EmptySeq
  <2> QED
    BY <2>1, <2>2, <2>3, <2>4
<1>2. Tail(s) \in Seq(S) /\ Len(Tail(s)) = Len(s) - 1
  BY HeadTailProperties, LenProperties, EmptySeq
<1>5. a \in Seq(Nat) /\ Len(a) = Len(s) - 1
  BY <1>2, ThroughType
<1>3. b \in Seq(Nat) /\ Len(b) = Len(s) - 1
  BY <1>0, <1>1, HeadTailProperties, LenProperties, EmptySeq
<1>4. \A i \in 1 .. Len(s) - 1 : a[i] = b[i]
  <2> SUFFICES ASSUME NEW i \in 1 .. Len(s) - 1 PROVE a[i] = b[i]
    OBVIOUS
  <2>1. a[i] = f[Tail(s)[i]] /\ Tail(s)[i] = s[i + 1]
    <3>1. i \in DOMAIN Tail(s)
      BY HeadTailProperties, LenProperties, EmptySeq
    <3>2. a[i] = f[Tail(s)[i]]
      BY <3>1 DEF Through
    <3> QED
      BY <3>2, HeadTailProperties, LenProperties, EmptySeq
  <2>2. b[i] = Through(f, s)[i + 1] /\ i + 1 \in 1 .. Len(s)
    BY <1>0, <1>1, HeadTailProperties, LenProperties, EmptySeq
  <2>3. i + 1 \in DOMAIN s
    BY <2>2, HeadTailProperties, LenProperties, EmptySeq
  <2>4. Through(f, s)[i + 1] = f[s[i + 1]]
    BY <2>3 DEF Through
  <2> QED
    BY <2>1, <2>2, <2>4
<1> QED
  BY <1>1, <1>5, <1>3, <1>4, SeqEqual

LEMMA ThroughSame ==
  ASSUME NEW S, NEW f \in [S -> Nat], NEW g \in [S -> Nat], NEW s \in Seq(S),
         \A i \in DOMAIN s : f[s[i]] = g[s[i]]
  PROVE  Through(f, s) = Through(g, s)
BY DEF Through

-----------------------------------------------------------------------------
\* Who owns each URB: the kernel those in the pipe, once each; the sender the
\* one it found; URBs beyond in_use are untouched.
PoolInv ==
  /\ \A u \in Urb : event[u] => status[u] \in {"ok"} \cup Failed
  /\ \A u \in Urb : u >= in_use => status[u] = "unused"
  /\ \A i \in DOMAIN pipe : status[pipe[i]] = "pending"
  /\ Distinct(pipe)
  /\ pc \in {"fill", "write"} => urb < in_use /\ status[urb] \in {"unused", "ok"}
  /\ pc = "check" => event[urb]

\* Where the call is: it has its number, and has not answered.
CallInv ==
  /\ pc # "idle" => frame > 0 /\ reply[frame] = "none"
  /\ pc = "idle" /\ frame > 0 => reply[frame] # "none"
  /\ \A f \in Frame : f > frame => reply[f] = "none"
  /\ pc \notin {"idle", "wait"} => ~accepted
  /\ pc = "wait" => accepted

\* The frames on the wire, then those in the queue, then the call's own are in
\* the order of the calls.
OrderInv ==
  /\ \A i \in DOMAIN wire : 0 < wire[i] /\ wire[i] <= frame
  /\ \A i \in DOMAIN Queue : 0 < Queue[i] /\ Queue[i] <= frame
  /\ Increasing(wire) /\ Increasing(Queue)
  /\ \A i \in DOMAIN wire, j \in DOMAIN Queue : wire[i] < Queue[j]
  /\ pc \notin {"idle", "wait"} =>
       /\ \A i \in DOMAIN wire : wire[i] # frame
       /\ \A i \in DOMAIN Queue : Queue[i] # frame
  /\ pc \in {"write", "wait"} => buf[urb] = frame
  /\ pc = "wait" /\ status[urb] = "ok" => \E i \in DOMAIN wire : wire[i] = frame

IInv == TypeOK /\ PoolInv /\ CallInv /\ OrderInv

WedgeInv == Wedged /\ pc \in {"idle", "poll", "check"} /\ (pc = "check" => urb = 0)


-----------------------------------------------------------------------------
\* The URBs and the frames as ranges of numbers.
LEMMA Indices ==
  /\ UrbCount \in Nat /\ MaxFrames \in Nat
  /\ 0 \in Urb /\ Urb \subseteq Nat /\ \A u \in Urb : u < UrbCount
  /\ \A n \in Nat : n < UrbCount => n \in Urb
  /\ Frame \subseteq Nat /\ \A f \in Frame : 0 < f /\ f <= MaxFrames
  /\ \A n \in Nat : 0 < n /\ n <= MaxFrames => n \in Frame
BY TxConstants DEF Urb, Frame

-----------------------------------------------------------------------------
\* Every state is well typed.
THEOREM TypeCorrect == Spec => []TypeOK
<1> USE Indices DEF Failed
<1>1. Init => TypeOK
  <2> SUFFICES ASSUME Init PROVE TypeOK
    OBVIOUS
  <2>1. pipe \in Seq(Urb) /\ wire \in Seq(0 .. MaxFrames)
    BY DEF Init
  <2> QED
    BY <2>1 DEF Init, TypeOK
<1>2. TypeOK /\ [Next]_vars => TypeOK'
  <2> SUFFICES ASSUME TypeOK, [Next]_vars PROVE TypeOK'
    OBVIOUS
  <2> USE DEF TypeOK, Goto, Return, pool, kernel
  <2>1. CASE Send
    <3>1. in_use' \in 0 .. UrbCount /\ urb' \in Urb /\ frame' \in 0 .. MaxFrames
      BY <2>1 DEF Send
    <3> QED
      BY <2>1, <3>1 DEF Send
  <2>2. CASE Poll
    <3>1. in_use' \in 0 .. UrbCount /\ urb' \in Urb
      BY <2>2 DEF Poll
    <3> QED
      BY <2>2, <3>1 DEF Poll
  <2>3. CASE Block     BY <2>3 DEF Block
  <2>4. CASE CheckFree BY <2>4 DEF CheckFree
  <2>5. CASE Fill      BY <2>5 DEF Fill
  <2>6. CASE WritePipe
    <3>1. Append(pipe, urb) \in Seq(Urb)
      OBVIOUS
    <3>2. event' \in [Urb -> BOOLEAN] /\ pipe' \in Seq(Urb)
      BY <2>6, <3>1 DEF WritePipe
    <3>3. status' \in [Urb -> {"unused", "pending", "ok"} \cup Failed]
      BY <2>6 DEF WritePipe
    <3>4. reply' \in [Frame -> {"none", "true", "false"}]
      BY <2>6 DEF WritePipe
    <3> QED
      BY <2>6, <3>2, <3>3, <3>4 DEF WritePipe
  <2>7. CASE WaitSent  BY <2>7 DEF WaitSent
  <2>8. CASE Complete
    <3>1. Head(pipe) \in Urb /\ Tail(pipe) \in Seq(Urb)
      BY <2>8, HeadTailProperties, LenProperties, EmptySeq DEF Complete
    <3>2. wire' \in Seq(0 .. MaxFrames)
      <4>1. buf[Head(pipe)] \in 0 .. MaxFrames
        BY <3>1
      <4>2. wire' \in {wire, Append(wire, buf[Head(pipe)])}
        BY <2>8 DEF Complete
      <4>3. Append(wire, buf[Head(pipe)]) \in Seq(0 .. MaxFrames)
        BY <4>1, AppendProperties, LenProperties
      <4> QED
        BY <4>2, <4>3
    <3> QED
      BY <2>8, <3>1, <3>2 DEF Complete
  <2>9. CASE UNCHANGED vars BY <2>9 DEF vars
  <2> QED
    BY <2>1, <2>2, <2>3, <2>4, <2>5, <2>6, <2>7, <2>8, <2>9 DEF Next, Sending
<1> QED
  BY <1>1, <1>2, PTL DEF Spec

-----------------------------------------------------------------------------
\* No step lets a URB have two owners.
LEMMA PoolStep == TypeOK /\ PoolInv /\ [Next]_vars => PoolInv'
<1> SUFFICES ASSUME TypeOK, PoolInv, [Next]_vars PROVE PoolInv'
  OBVIOUS
<1> USE Indices DEF TypeOK, PoolInv, Failed, Goto, Return, pool, kernel
<1>1. CASE Send
  BY <1>1 DEF Send
<1>2. CASE Poll
  BY <1>2 DEF Poll, WaitMultiple
<1>3. CASE Block
  BY <1>3 DEF Block, WaitMultiple
<1>4. CASE CheckFree
  BY <1>4 DEF CheckFree
<1>5. CASE Fill
  BY <1>5 DEF Fill
<1>6. CASE WritePipe
  <2>1. CASE pc' = "wait"
    <3>1. /\ DOMAIN pipe' = 1 .. Len(pipe) + 1 /\ DOMAIN pipe = 1 .. Len(pipe)
          /\ \A i \in 1 .. Len(pipe) : pipe'[i] = pipe[i] /\ pipe[i] # urb
          /\ pipe'[Len(pipe) + 1] = urb
      <4>1. pipe \in Seq(Urb) /\ urb \in Urb /\ pipe' = Append(pipe, urb)
        BY <1>6, <2>1 DEF WritePipe
      <4>2. \A i \in DOMAIN pipe : pipe[i] # urb
        BY <1>6 DEF WritePipe
      <4> QED
        BY ONLY <4>1, <4>2, AppendProperties, LenProperties
    <3>2. /\ status' = [status EXCEPT ![urb] = "pending"]
          /\ event' = [event EXCEPT ![urb] = FALSE]
          /\ in_use' = in_use /\ status[urb] # "pending"
      BY <1>6, <2>1 DEF WritePipe
    <3>3. urb < in_use
      BY <1>6 DEF WritePipe
    <3>4. \A i \in DOMAIN pipe' : status'[pipe'[i]] = "pending"
      <4> SUFFICES ASSUME NEW i \in DOMAIN pipe' PROVE status'[pipe'[i]] = "pending"
        OBVIOUS
      <4>1. CASE i \in DOMAIN pipe
        BY <3>1, <3>2, <4>1
      <4>2. CASE i = Len(pipe) + 1
        BY <3>1, <3>2, <4>2
      <4> QED
        BY <3>1, <4>1, <4>2
    <3>5. Distinct(pipe')
      <4>1. pipe' = Append(pipe, urb) /\ \A i \in DOMAIN pipe : pipe[i] # urb
        BY <1>6, <2>1, <3>1 DEF WritePipe
      <4> QED
        BY <4>1, AppendDistinct
    <3> QED
      BY <2>1, <3>2, <3>3, <3>4, <3>5
  <2>2. CASE pc' # "wait"
    BY <1>6, <2>2 DEF WritePipe
  <2> QED
    BY <2>1, <2>2
<1>7. CASE WaitSent
  BY <1>7 DEF WaitSent
<1>8. CASE Complete
  <2>1. /\ Len(pipe) \in Nat \ {0} /\ Head(pipe) = pipe[1] /\ pipe[1] \in Urb
        /\ DOMAIN pipe = 1 .. Len(pipe) /\ DOMAIN pipe' = 1 .. Len(pipe) - 1
        /\ \A i \in 1 .. Len(pipe) - 1 : pipe'[i] = pipe[i + 1]
    BY <1>8, HeadTailProperties, LenProperties, EmptySeq DEF Complete
  <2>2. /\ event' = [event EXCEPT ![pipe[1]] = TRUE]
        /\ in_use' = in_use /\ pc' = pc /\ urb' = urb
    BY <1>8, <2>1 DEF Complete
  <2>3. PICK r \in {"ok", "short", "error"} : status' = [status EXCEPT ![pipe[1]] = r]
    BY <1>8, <2>1 DEF Complete
  <2>4. status[pipe[1]] = "pending"
    <3>1. 1 \in DOMAIN pipe
      BY <2>1
    <3> QED
      BY <3>1
  <2>5. \A i \in DOMAIN pipe' : pipe'[i] = pipe[i + 1] /\ i + 1 \in DOMAIN pipe /\ i + 1 # 1
    BY <2>1
  <2>6. (\A i \in DOMAIN pipe : status[pipe[i]] = "pending")'
    <3> SUFFICES ASSUME NEW i \in DOMAIN pipe' PROVE status'[pipe'[i]] = "pending"
      OBVIOUS
    <3>1. pipe'[i] = pipe[i + 1] /\ i + 1 \in DOMAIN pipe
      BY <2>1, <2>5
    <3>3. pipe'[i] # pipe[1]
      <4>1. pipe # <<>> /\ pipe' = Tail(pipe)
        BY <1>8 DEF Complete
      <4>2. \A k \in DOMAIN Tail(pipe) : Tail(pipe)[k] # Head(pipe)
        BY <4>1, TailDistinct
      <4> QED
        BY <2>1, <4>1, <4>2
    <3>2. pipe[i + 1] \in Urb /\ status[pipe[i + 1]] = "pending"
      BY <3>1
    <3> QED
      BY <2>3, <3>1, <3>2, <3>3
  <2>7. Distinct(pipe')
    BY <1>8, TailDistinct DEF Complete
  <2> QED
    BY <2>1, <2>2, <2>3, <2>4, <2>6, <2>7
<1>9. CASE UNCHANGED vars
  BY <1>9 DEF vars
<1> QED
  BY <1>1, <1>2, <1>3, <1>4, <1>5, <1>6, <1>7, <1>8, <1>9 DEF Next, Sending

\* A call answers once.
LEMMA CallStep == TypeOK /\ CallInv /\ [Next]_vars => CallInv'
<1> SUFFICES ASSUME TypeOK, CallInv, [Next]_vars PROVE CallInv'
  OBVIOUS
<1> USE Indices DEF TypeOK, CallInv, Goto, Return, pool, kernel
<1>1. CASE Send
  BY <1>1 DEF Send
<1>2. CASE Poll
  BY <1>2 DEF Poll
<1>3. CASE Block
  BY <1>3 DEF Block
<1>4. CASE CheckFree
  BY <1>4 DEF CheckFree
<1>5. CASE Fill
  BY <1>5 DEF Fill
<1>6. CASE WritePipe
  BY <1>6 DEF WritePipe
<1>7. CASE WaitSent
  BY <1>7 DEF WaitSent
<1>8. CASE Complete
  BY <1>8 DEF Complete
<1>9. CASE UNCHANGED vars
  BY <1>9 DEF vars
<1> QED
  BY <1>1, <1>2, <1>3, <1>4, <1>5, <1>6, <1>7, <1>8, <1>9 DEF Next, Sending

\* What a step does to the queue and the wire.
QueueKept == Queue' = Queue /\ wire' = wire
QueueGrows == Queue' = Append(Queue, buf[urb]) /\ wire' = wire
QueueAdvances ==
  /\ Queue # <<>> /\ Queue' = Tail(Queue)
  /\ wire' \in {wire, Append(wire, Head(Queue))}

LEMMA QueueStep ==
  ASSUME TypeOK, PoolInv
  PROVE  /\ Send \/ Poll \/ Block \/ CheckFree \/ Fill \/ WaitSent \/ UNCHANGED vars
             => QueueKept
         /\ WritePipe => (pc' # "wait" /\ QueueKept) \/ (pc' = "wait" /\ QueueGrows)
         /\ Complete => QueueAdvances
<1> USE DEF QueueKept, QueueGrows, QueueAdvances
<1>1. buf \in [Urb -> Nat] /\ pipe \in Seq(Urb) /\ urb \in Urb
  BY Indices DEF TypeOK
<1>2. Queue = Through(buf, pipe) /\ Queue' = Through(buf', pipe')
  BY DEF Queue, Through
<1>3. ASSUME Send \/ Poll \/ Block \/ CheckFree \/ WaitSent \/ UNCHANGED vars
      PROVE  QueueKept
  <2>1. UNCHANGED <<pipe, buf, wire>>
    BY <1>3 DEF Send, Poll, Block, CheckFree, WaitSent, pool, kernel, vars
  <2> QED
    BY <1>2, <2>1
<1>4. ASSUME Fill
      PROVE  QueueKept
  <2>1. \A i \in DOMAIN pipe : pipe[i] # urb
    BY <1>4 DEF Fill, PoolInv
  <2>2. \A i \in DOMAIN pipe : pipe[i] \in Urb
    BY <1>1
  <2>3. pipe' = pipe /\ wire' = wire /\ buf' = [buf EXCEPT ![urb] = frame] /\ frame \in Nat
    BY <1>4 DEF Fill, kernel, TypeOK
  <2>4. buf' \in [Urb -> Nat] /\ \A i \in DOMAIN pipe : buf[pipe[i]] = buf'[pipe[i]]
    BY <1>1, <2>1, <2>2, <2>3
  <2>5. Through(buf, pipe) = Through(buf', pipe)
    BY <1>1, <2>4, ThroughSame
  <2> QED
    BY <1>2, <2>3, <2>5
<1>5. ASSUME WritePipe
      PROVE  (pc' # "wait" /\ QueueKept) \/ (pc' = "wait" /\ QueueGrows)
  <2>1. /\ buf' = buf /\ wire' = wire
        /\ \/ pipe' = pipe /\ pc' = "idle"
           \/ pipe' = Append(pipe, urb) /\ pc' = "wait"
    BY <1>5 DEF WritePipe, Goto, Return
  <2>2. Through(buf, Append(pipe, urb)) = Append(Through(buf, pipe), buf[urb])
    BY <1>1, ThroughAppend
  <2> QED
    BY <1>2, <2>1, <2>2
<1>6. ASSUME Complete
      PROVE  QueueAdvances
  <2>1. /\ pipe # <<>> /\ pipe' = Tail(pipe) /\ buf' = buf
        /\ wire' \in {wire, Append(wire, buf[Head(pipe)])}
    BY <1>6 DEF Complete
  <2>2. /\ Through(buf, pipe) # <<>>
        /\ Head(Through(buf, pipe)) = buf[Head(pipe)]
        /\ Through(buf, Tail(pipe)) = Tail(Through(buf, pipe))
    BY <1>1, <2>1, ThroughTail
  <2> QED
    BY <1>2, <2>1, <2>2
<1> QED
  BY <1>3, <1>4, <1>5, <1>6

\* Frames stay in the order of the calls.
LEMMA OrderStep ==
  TypeOK /\ PoolInv /\ CallInv /\ OrderInv /\ [Next]_vars => OrderInv'
<1> SUFFICES ASSUME TypeOK, PoolInv, CallInv, OrderInv, [Next]_vars PROVE OrderInv'
  OBVIOUS
<1> USE Indices
<1>1. /\ frame \in Nat /\ urb \in Urb /\ pipe \in Seq(Urb) /\ buf \in [Urb -> Nat]
      /\ wire \in Seq(Nat) /\ wire \in Seq(Int)
  BY DEF TypeOK
<1>2. /\ Queue \in Seq(Nat) /\ Queue \in Seq(Int)
      /\ \A i \in DOMAIN Queue : Queue[i] \in Nat
      /\ \A i \in DOMAIN wire : wire[i] \in Nat
  <2>1. Queue \in Seq(Nat)
    <3>1. Queue = Through(buf, pipe)
      BY DEF Queue, Through
    <3> QED
      BY <1>1, <3>1, ThroughType
  <2> QED
    BY <1>1, <2>1
<1>3. ASSUME QueueKept,
             \/ Send \/ Poll \/ Block \/ CheckFree \/ Fill \/ WaitSent \/ UNCHANGED vars
             \/ WritePipe /\ pc' # "wait"
      PROVE  OrderInv'
  <2> USE <1>3 DEF QueueKept, OrderInv, Goto, Return, pool, kernel
  <2>1. CASE Send
    BY <1>1, <1>2, <2>1 DEF Send
  <2>2. CASE Poll
    BY <2>2 DEF Poll
  <2>3. CASE Block
    BY <2>3 DEF Block
  <2>4. CASE CheckFree
    BY <2>4 DEF CheckFree
  <2>5. CASE Fill
    BY <1>1, <2>5 DEF Fill
  <2>6. CASE WritePipe /\ pc' # "wait"
    BY <1>1, <2>6 DEF WritePipe
  <2>7. CASE WaitSent
    BY <2>7 DEF WaitSent
  <2>8. CASE UNCHANGED vars
    BY <2>8 DEF vars
  <2> QED
    BY <2>1, <2>2, <2>3, <2>4, <2>5, <2>6, <2>7, <2>8
<1>4. ASSUME WritePipe, pc' = "wait", QueueGrows
      PROVE  OrderInv'
  <2>1. /\ frame > 0 /\ buf[urb] = frame /\ frame' = frame /\ buf' = buf /\ urb' = urb
        /\ wire' = wire /\ Queue' = Append(Queue, frame)
        /\ status' = [status EXCEPT ![urb] = "pending"]
    BY <1>4 DEF WritePipe, CallInv, OrderInv, QueueGrows, Goto, Return
  <2>2. \A i \in DOMAIN Queue : Queue[i] < frame
    BY <1>1, <1>2, <1>4 DEF WritePipe, OrderInv
  <2>3. \A i \in DOMAIN wire : wire[i] < frame
    BY <1>1, <1>2, <1>4 DEF WritePipe, OrderInv
  <2>4. Increasing(Queue')
    BY <1>1, <1>2, <2>1, <2>2, AppendIncreasing DEF OrderInv
  <2>5. \A i \in DOMAIN Queue' :
          Queue'[i] = frame \/ (i \in DOMAIN Queue /\ Queue'[i] = Queue[i])
    <3>1. Queue \in Seq(Nat) /\ frame \in Nat
      BY <1>1, <1>2
    <3> QED
      BY ONLY <2>1, <3>1, AppendKeeps
  <2>6. status'[urb'] # "ok"
    BY <1>1, <2>1 DEF TypeOK
  <2>7. \A i \in DOMAIN Queue' : 0 < Queue'[i] /\ Queue'[i] <= frame
    BY <1>1, <2>1, <2>5 DEF OrderInv
  <2>8. \A i \in DOMAIN wire, j \in DOMAIN Queue' : wire[i] < Queue'[j]
    BY <2>3, <2>5 DEF OrderInv
  <2> QED
    BY <1>4, <2>1, <2>4, <2>6, <2>7, <2>8 DEF OrderInv
<1>5. ASSUME Complete, QueueAdvances
      PROVE  OrderInv'
  <2>1. /\ Queue # <<>> /\ Queue' = Tail(Queue)
        /\ wire' \in {wire, Append(wire, Head(Queue))}
    BY <1>5 DEF QueueAdvances
  <2>2. /\ Increasing(Queue')
        /\ \A i \in DOMAIN Queue' : Head(Queue) < Queue'[i]
    BY <1>2, <2>1, TailIncreasing DEF OrderInv
  <2>3. /\ \A i \in DOMAIN Queue' : \E k \in DOMAIN Queue : Queue'[i] = Queue[k]
        /\ \E k \in DOMAIN Queue : Head(Queue) = Queue[k]
    BY <1>2, <2>1, HeadTailProperties, LenProperties, EmptySeq
  <2>4. \A i \in DOMAIN wire' :
          wire'[i] = Head(Queue) \/ (i \in DOMAIN wire /\ wire'[i] = wire[i])
    <3>1. CASE wire' = wire
      BY <3>1
    <3>2. CASE wire' = Append(wire, Head(Queue))
      <4>1. wire \in Seq(Nat) /\ Head(Queue) \in Nat
        BY <1>1, <1>2, <2>3
      <4> QED
        BY ONLY <3>2, <4>1, AppendKeeps
    <3> QED
      BY <2>1, <3>1, <3>2
  <2>5. Increasing(wire')
    <3>1. Head(Queue) \in Int /\ \A i \in DOMAIN wire : wire[i] < Head(Queue)
      BY <1>2, <2>3 DEF OrderInv
    <3>2. Increasing(Append(wire, Head(Queue)))
      BY <1>1, <3>1, AppendIncreasing DEF OrderInv
    <3> QED
      BY <2>1, <3>2 DEF OrderInv
  <2>6. UNCHANGED <<frame, pc, buf, urb>>
    BY <1>5 DEF Complete
  <2>7. pc = "wait" /\ status'[urb] = "ok" => \E i \in DOMAIN wire' : wire'[i] = frame
    <3> SUFFICES ASSUME pc = "wait", status'[urb] = "ok"
                 PROVE  \E i \in DOMAIN wire' : wire'[i] = frame
      OBVIOUS
    <3>1. CASE urb = Head(pipe)
      <4>1. wire' = Append(wire, frame)
        BY <1>1, <1>5, <3>1 DEF Complete, TypeOK, OrderInv
      <4>2. \E i \in DOMAIN wire' : wire'[i] = frame
        <5>1. wire \in Seq(Nat) /\ frame \in Nat
          BY <1>1
        <5> QED
          BY ONLY <4>1, <5>1, AppendKeeps
      <4> QED
        BY <4>2
    <3>2. CASE urb # Head(pipe)
      <4>1. status[urb] = "ok"
        BY <1>1, <1>5, <3>2 DEF Complete, TypeOK
      <4>2. PICK i \in DOMAIN wire : wire[i] = frame
        BY <4>1 DEF OrderInv
      <4>3. i \in DOMAIN wire' /\ wire'[i] = wire[i]
        <5>1. CASE wire' = wire
          BY <5>1
        <5>2. CASE wire' = Append(wire, Head(Queue))
          <6>1. wire \in Seq(Nat) /\ Head(Queue) \in Nat
            BY <1>1, <1>2, <2>3
          <6> QED
            BY ONLY <5>2, <6>1, AppendKeeps
        <5> QED
          BY <2>1, <5>1, <5>2
      <4> QED
        BY <4>2, <4>3
    <3> QED
      BY <3>1, <3>2
  <2>8. \A i \in DOMAIN Queue' : 0 < Queue'[i] /\ Queue'[i] <= frame
    BY <2>3 DEF OrderInv
  <2>9. \A i \in DOMAIN wire' : 0 < wire'[i] /\ wire'[i] <= frame
    BY <2>3, <2>4 DEF OrderInv
  <2>10. \A i \in DOMAIN wire', j \in DOMAIN Queue' : wire'[i] < Queue'[j]
    BY <2>2, <2>3, <2>4 DEF OrderInv
  <2>11. pc \notin {"idle", "wait"} =>
           /\ \A i \in DOMAIN wire' : wire'[i] # frame
           /\ \A i \in DOMAIN Queue' : Queue'[i] # frame
    BY <2>3, <2>4 DEF OrderInv
  <2> QED
    BY <2>2, <2>5, <2>6, <2>7, <2>8, <2>9, <2>10, <2>11 DEF OrderInv
<1>6. /\ Send \/ Poll \/ Block \/ CheckFree \/ Fill \/ WaitSent \/ UNCHANGED vars
          => QueueKept
      /\ WritePipe => (pc' # "wait" /\ QueueKept) \/ (pc' = "wait" /\ QueueGrows)
      /\ Complete => QueueAdvances
  BY QueueStep
<1>8. CASE WritePipe
  BY <1>3, <1>4, <1>6, <1>8, Zenon
<1>9. CASE Complete
  BY <1>5, <1>6, <1>9, Zenon
<1>10. CASE Send \/ Poll \/ Block \/ CheckFree \/ Fill \/ WaitSent \/ UNCHANGED vars
  BY <1>3, <1>6, <1>10, Zenon
<1> QED
  BY <1>8, <1>9, <1>10, Zenon DEF Next, Sending

-----------------------------------------------------------------------------
\* The inductive invariant of the transmit side.
THEOREM Inductive == Spec => []IInv
<1>1. Init => PoolInv /\ CallInv /\ OrderInv
  <2> SUFFICES ASSUME Init PROVE PoolInv /\ CallInv /\ OrderInv
    OBVIOUS
  <2>1. DOMAIN pipe = {} /\ DOMAIN wire = {} /\ DOMAIN Queue = {}
    BY DEF Init, Queue
  <2>2. PoolInv
    BY <2>1 DEF Init, PoolInv, Distinct
  <2>3. CallInv
    BY Indices DEF Init, CallInv
  <2>4. OrderInv
    BY <2>1 DEF Init, OrderInv, Increasing
  <2> QED
    BY <2>2, <2>3, <2>4
<1>2. TypeOK /\ PoolInv /\ CallInv /\ OrderInv /\ [Next]_vars
        => (PoolInv /\ CallInv /\ OrderInv)'
  BY PoolStep, CallStep, OrderStep
<1> QED
  BY <1>1, <1>2, TypeCorrect, PTL DEF Spec, IInv

\* The kernel owns the buffers it transfers, for every size of the pool and
\* every run of timeouts, failures and refused writes (candle.c:552-640).
THEOREM BuffersOwned == Spec => []BufferOwned
<1>1. IInv => BufferOwned
  BY DEF IInv, PoolInv, BufferOwned
<1> QED
  BY <1>1, Inductive, PTL

\* Frames reach the adapter in the order of the calls, each at most once.
THEOREM WireOrdered == Spec => []WireInOrder
<1>1. IInv => WireInOrder
  BY DEF IInv, OrderInv, Increasing, WireInOrder
<1> QED
  BY <1>1, Inductive, PTL

\* A failed transfer of URB 0 silences the transmitter for good.
THEOREM Wedges == Spec => WedgedForGood
<1>1. Wedged /\ pc = "idle" => WedgeInv
  BY DEF WedgeInv
<1>2. IInv /\ WedgeInv /\ [Next]_vars => WedgeInv'
  <2> SUFFICES ASSUME IInv, WedgeInv, [Next]_vars PROVE WedgeInv'
    OBVIOUS
  <2> USE Indices DEF IInv, TypeOK, WedgeInv, Wedged, Failed, Goto, Return, pool, kernel
  <2>1. CASE Send
    BY <2>1 DEF Send, PoolInv
  <2>2. CASE Poll
    <3>1. 0 \in Signaled /\ \A u \in Urb : 0 <= u
      BY DEF Signaled
    <3>2. pc' = "check" /\ \E u \in Urb : WaitMultiple(u) /\ urb' = u
      BY <2>2, <3>1 DEF Poll
    <3>3. urb' = 0
      BY <3>1, <3>2 DEF WaitMultiple
    <3> QED
      BY <2>2, <3>2, <3>3 DEF Poll
  <2>3. CASE Block \/ Fill \/ WritePipe \/ WaitSent
    BY <2>3 DEF Block, Fill, WritePipe, WaitSent
  <2>4. CASE CheckFree
    BY <2>4 DEF CheckFree
  <2>5. CASE Complete
    <3>1. Head(pipe) \in Urb /\ Head(pipe) # 0
      BY <2>5, HeadTailProperties, LenProperties, EmptySeq DEF Complete, PoolInv
    <3> QED
      BY <2>5, <3>1 DEF Complete
  <2>6. CASE UNCHANGED vars
    BY <2>6 DEF vars
  <2> QED
    BY <2>1, <2>2, <2>3, <2>4, <2>5, <2>6 DEF Next, Sending
<1>3. WedgeInv => pc \notin {"fill", "write", "wait"}
  BY DEF WedgeInv
<1> QED
  BY <1>1, <1>2, <1>3, Inductive, PTL DEF Spec, WedgedForGood

-----------------------------------------------------------------------------
\* The pool of URBs implements the ordered lossy channel: each step of the
\* sender or the kernel is a step of the channel, or leaves it as it is.
THEOREM Implements == Spec => ImplementsChannel
<1>1. Init => Channel!Init
  <2> SUFFICES ASSUME Init PROVE Channel!Init
    OBVIOUS
  <2>1. Queue = <<>>
    BY DEF Init, Queue
  <2> QED
    BY <2>1 DEF Init, Channel!Init, Frame
<1>2. IInv /\ [Next]_vars => [Channel!Next]_(Channel!vars)
  <2> SUFFICES ASSUME IInv, [Next]_vars PROVE [Channel!Next]_(Channel!vars)
    OBVIOUS
  <2>1. /\ Send \/ Poll \/ Block \/ CheckFree \/ Fill \/ WaitSent \/ UNCHANGED vars
            => QueueKept
        /\ WritePipe => (pc' # "wait" /\ QueueKept) \/ (pc' = "wait" /\ QueueGrows)
        /\ Complete => QueueAdvances
    BY QueueStep DEF IInv
  <2>2. frame \in Nat /\ (pc # "idle" => frame > 0 /\ reply[frame] = "none")
    BY Indices DEF IInv, TypeOK, CallInv
  <2> USE DEF Goto, Return, QueueKept, QueueGrows, QueueAdvances, kernel, pool, Channel!vars
  <2>3. CASE Send
    <3>1. frame > 0 => reply[frame] # "none"
      BY <2>3 DEF Send, IInv, CallInv
    <3>2. Channel!Call
      BY <2>1, <2>3, <3>1 DEF Send, Channel!Call
    <3> QED
      BY <3>2 DEF Channel!Next
  <2>4. CASE Poll \/ Fill \/ UNCHANGED vars
    BY <2>1, <2>4 DEF Poll, Fill, vars
  <2>5. CASE Block \/ CheckFree
    <3>1. UNCHANGED Channel!vars \/ Channel!Answer("false")
      BY <2>1, <2>2, <2>5 DEF Block, CheckFree, Channel!Answer
    <3> QED
      BY <3>1 DEF Channel!Next
  <2>6. CASE WritePipe /\ pc' = "wait"
    <3>1. buf[urb] = frame /\ ~accepted
      BY <2>6 DEF WritePipe, IInv, OrderInv, CallInv
    <3>2. Channel!Accept
      BY <2>1, <2>2, <2>6, <3>1 DEF WritePipe, Channel!Accept
    <3> QED
      BY <3>2 DEF Channel!Next
  <2>7. CASE WritePipe /\ pc' # "wait"
    <3>1. Channel!Answer("false")
      BY <2>1, <2>2, <2>7 DEF WritePipe, Channel!Answer
    <3> QED
      BY <3>1 DEF Channel!Next
  <2>8. CASE WaitSent
    <3>1. ASSUME reply' = [reply EXCEPT ![frame] = "true"]
          PROVE  Channel!Answer("true")
      <4>1. frame \in Frame /\ reply[frame] = "none" /\ frame > 0
        BY <2>2, <2>8, Indices DEF WaitSent, IInv, TypeOK
      <4>2. reply'[frame] = "true"
        BY <3>1, <4>1 DEF IInv, TypeOK
      <4>3. status[urb] = "ok" /\ pc = "wait"
        BY <2>8, <4>1, <4>2 DEF WaitSent, IInv, TypeOK
      <4>4. \E i \in DOMAIN wire : wire[i] = frame
        BY <4>3 DEF IInv, OrderInv
      <4> QED
        BY <2>1, <2>8, <3>1, <4>1, <4>4 DEF WaitSent, Channel!Answer
    <3>2. ASSUME reply' = [reply EXCEPT ![frame] = "false"]
          PROVE  Channel!Answer("false")
      BY <2>1, <2>2, <2>8, <3>2 DEF WaitSent, Channel!Answer
    <3> QED
      BY <2>8, <3>1, <3>2 DEF WaitSent, Channel!Next
  <2>9. CASE Complete
    <3>1. UNCHANGED <<frame, accepted, reply>>
      BY <2>9 DEF Complete
    <3>2. Channel!Deliver \/ Channel!Lose
      BY <2>1, <2>9, <3>1 DEF Channel!Deliver, Channel!Lose
    <3> QED
      BY <3>2 DEF Channel!Next
  <2> QED
    BY <2>3, <2>4, <2>5, <2>6, <2>7, <2>8, <2>9 DEF Next, Sending
<1> QED
  BY <1>1, <1>2, Inductive, PTL DEF Spec, ImplementsChannel, Channel!Spec
=============================================================================
