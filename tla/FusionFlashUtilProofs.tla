----------------------- MODULE FusionFlashUtilProofs -----------------------
(***************************************************************************)
(* Theorems about the controller list, for any controllers, identifiers,   *)
(* timeout, and bounds on the messages and commands under way.             *)
(***************************************************************************)
EXTENDS FusionFlashUtil, SequenceTheorems, TLAPS

\* The age of an entry is the time since its controller was heard, until it has
\* timed out; an entry that has timed out may be active until the next tick.
AgeInv ==
  \A i \in Listed :
    LET e == m_controllerList[i] IN
    /\ e.timeSinceLastHeartbeat < Timeout => since[e.controller] <= e.timeSinceLastHeartbeat
    /\ e.activeOnBus => since[e.controller] <= Timeout

ListInv == OneEntryEach /\ AgeInv
IInv == TypeOK /\ ListInv

-----------------------------------------------------------------------------
\* A sequence of the same length is one of the same kind if its elements are.
LEMMA SameLength ==
  ASSUME NEW S, NEW s \in Seq(S), NEW f,
         f = [i \in DOMAIN s |-> f[i]], \A i \in DOMAIN s : f[i] \in S
  PROVE  f \in Seq(S)
<1>1. Len(s) \in Nat /\ DOMAIN s = 1 .. Len(s)
  OBVIOUS
<1>2. f \in [1 .. Len(s) -> S]
  BY <1>1
<1> QED
  BY <1>1, <1>2, SeqDef

LEMMA FreshEntry ==
  ASSUME TypeOK, NEW m \in Heartbeat
  PROVE  /\ Fresh(m) \in Entry
         /\ Fresh(m).controller = m.controller /\ Fresh(m).timeSinceLastHeartbeat = 0
BY FlashConstants DEF TypeOK, Heartbeat, Fresh, Entry

\* Ageing makes an entry active or not, older or not, and nothing else of it.
LEMMA AgedEntry ==
  ASSUME NEW e \in Entry
  PROVE  /\ Aged(e) \in Entry /\ Aged(e).controller = e.controller
         /\ \/ /\ e.timeSinceLastHeartbeat < Timeout
               /\ Aged(e).timeSinceLastHeartbeat = e.timeSinceLastHeartbeat + 1
            \/ /\ e.timeSinceLastHeartbeat = Timeout /\ ~Aged(e).activeOnBus
               /\ Aged(e).timeSinceLastHeartbeat = Timeout
<1> DEFINE n == e.timeSinceLastHeartbeat
<1>1. n \in 0 .. Timeout /\ e.activeOnBus \in BOOLEAN
  BY DEF Entry
<1>2. CASE n < Timeout
  <2>1. Aged(e) = [e EXCEPT !.activeOnBus = TRUE, !.timeSinceLastHeartbeat = n + 1]
    BY <1>2 DEF Aged
  <2>2. n + 1 \in 0 .. Timeout
    BY <1>1, <1>2, FlashConstants
  <2> HIDE DEF n
  <2>3. Aged(e) \in Entry /\ Aged(e).controller = e.controller /\ Aged(e).timeSinceLastHeartbeat = n + 1
    BY <2>1, <2>2 DEF Entry
  <2> QED
    BY <1>2, <2>3 DEF n
<1>3. CASE ~(n < Timeout)
  <2>1. Aged(e) = [e EXCEPT !.activeOnBus = FALSE]
    BY <1>3 DEF Aged
  <2>2. n = Timeout
    BY <1>1, <1>3, FlashConstants
  <2>3. /\ Aged(e) \in Entry /\ Aged(e).controller = e.controller
        /\ Aged(e).timeSinceLastHeartbeat = n /\ ~Aged(e).activeOnBus
    BY <2>1 DEF Entry
  <2> QED
    BY <2>2, <2>3
<1> QED
  BY <1>2, <1>3

\* What the list is after a step: the heartbeat of a listed controller takes its
\* entry, that of another is added; all entries age; or one is renamed.
ListKept == UNCHANGED <<m_controllerList, since>>
Overwritten ==
  \E m \in Heartbeat :
    /\ DOMAIN m_controllerList' = Listed
    /\ \A i \in Listed : IF m_controllerList[i].controller = m.controller
                         THEN m_controllerList'[i] = Fresh(m)
                         ELSE m_controllerList'[i] = m_controllerList[i]
    /\ since' = [since EXCEPT ![m.controller] = 0]
Added ==
  \E m \in Heartbeat :
    /\ \A i \in Listed : m_controllerList[i].controller # m.controller
    /\ m_controllerList' = Append(m_controllerList, Fresh(m))
    /\ since' = [since EXCEPT ![m.controller] = 0]
AllAged ==
  /\ DOMAIN m_controllerList' = Listed
  /\ \A i \in Listed : m_controllerList'[i] = Aged(m_controllerList[i])
  /\ since' = Later
Renamed ==
  /\ DOMAIN m_controllerList' = Listed
  /\ \A i \in Listed :
       LET e == m_controllerList[i]   f == m_controllerList'[i] IN
       /\ f.controller = e.controller /\ f.activeOnBus = e.activeOnBus
       /\ f.timeSinceLastHeartbeat = e.timeSinceLastHeartbeat
  /\ UNCHANGED since
ListStep == ListKept \/ Overwritten \/ Added \/ AllAged \/ Renamed

LEMMA ListSteps ==
  ASSUME TypeOK, [Next]_vars
  PROVE  ListStep /\ m_controllerList' \in Seq(Entry)
<1> USE DEF TypeOK, bus
<1>0. m_controllerList \in Seq(Entry) /\ \A i \in Listed : m_controllerList[i] \in Entry
  BY DEF Listed
<1>1. CASE Read
  <2>1. Head(fifo) \in Heartbeat \cup {Other}
    BY <1>1, HeadTailProperties, LenProperties, EmptySeq DEF Read
  <2>2. CASE UNCHANGED <<m_controllerList, since>>
    BY <1>0, <2>2 DEF ListStep, ListKept
  <2>3. CASE \E m \in Heartbeat : Update(m) /\ since' = [since EXCEPT ![m.controller] = 0]
    <3>1. PICK m \in Heartbeat : Update(m) /\ since' = [since EXCEPT ![m.controller] = 0]
      BY <2>3
    <3>2. Fresh(m) \in Entry
      BY FreshEntry
    <3> DEFINE known == {i \in Listed : m_controllerList[i].controller = m.controller}
    <3>3. CASE known = {}
      <4>1. m_controllerList' = Append(m_controllerList, Fresh(m))
        BY <3>1, <3>3 DEF Update
      <4>2. Added
        BY <3>1, <3>3, <4>1 DEF Added
      <4>3. m_controllerList' \in Seq(Entry)
        BY <1>0, <3>2, <4>1, AppendProperties, LenProperties
      <4> QED
        BY <4>2, <4>3 DEF ListStep
    <3>4. CASE known # {}
      <4>1. m_controllerList' =
              [i \in Listed |-> IF i \in known THEN Fresh(m) ELSE m_controllerList[i]]
        BY <3>1, <3>4 DEF Update
      <4>2. Overwritten
        BY <3>1, <4>1 DEF Overwritten
      <4>3. m_controllerList' \in Seq(Entry)
        <5>1. \A i \in Listed : m_controllerList'[i] \in Entry
          BY <1>0, <3>2, <4>1
        <5>2. m_controllerList' = [i \in Listed |-> m_controllerList'[i]]
          BY <4>1
        <5> QED
          BY ONLY <1>0, <5>1, <5>2, SameLength DEF Listed
      <4> QED
        BY <4>2, <4>3 DEF ListStep
    <3> QED
      BY <3>3, <3>4
  <2> QED
    BY <1>1, <2>1, <2>2, <2>3 DEF Read
<1>2. CASE Tick
  <2>1. m_controllerList' = [i \in Listed |-> Aged(m_controllerList[i])] /\ since' = Later
    BY <1>2 DEF Tick
  <2>2. \A i \in Listed : Aged(m_controllerList[i]) \in Entry
    BY <1>0, AgedEntry
  <2>3. m_controllerList' \in Seq(Entry)
    <3>1. \A i \in Listed : m_controllerList'[i] \in Entry
      BY <2>1, <2>2
    <3>2. m_controllerList' = [i \in Listed |-> m_controllerList'[i]]
      BY <2>1
    <3> QED
      BY ONLY <1>0, <3>1, <3>2, SameLength DEF Listed
  <2>4. AllAged
    BY <2>1 DEF AllAged
  <2> QED
    BY <2>3, <2>4 DEF ListStep
<1>3. CASE \E c \in Controller, id \in Id : SetControllerId(c, id)
  <2>1. PICK id \in Id, i \in Listed :
          m_controllerList' = [m_controllerList EXCEPT ![i].id = id] /\ UNCHANGED since
    BY <1>3 DEF SetControllerId
  <2> DEFINE r == [m_controllerList[i] EXCEPT !.id = id]
  <2>2. /\ r \in Entry /\ r.controller = m_controllerList[i].controller
        /\ r.activeOnBus = m_controllerList[i].activeOnBus
        /\ r.timeSinceLastHeartbeat = m_controllerList[i].timeSinceLastHeartbeat
    BY <1>0 DEF Entry
  <2>3. m_controllerList' =
          [j \in Listed |-> IF j = i THEN r ELSE m_controllerList[j]]
    BY <2>1, <1>0 DEF Listed
  <2> HIDE DEF r
  <2>4. m_controllerList' \in Seq(Entry)
    <3>1. \A j \in Listed : m_controllerList'[j] \in Entry
      BY <1>0, <2>2, <2>3
    <3>2. m_controllerList' = [j \in Listed |-> m_controllerList'[j]]
      BY <2>3
    <3> QED
      BY ONLY <1>0, <3>1, <3>2, SameLength DEF Listed
  <2>5. Renamed
    BY <2>1, <2>2, <2>3 DEF Renamed
  <2> QED
    BY <2>4, <2>5 DEF ListStep
<1>4. CASE Environment \/ UNCHANGED vars
  <2>1. ListKept
    BY <1>4 DEF Environment, Chatter, Command, Beat, Power, vars, ListKept
  <2> QED
    BY <1>0, <2>1 DEF ListStep, ListKept
<1> QED
  BY <1>1, <1>2, <1>3, <1>4 DEF Next, Identify

-----------------------------------------------------------------------------
\* Every state is well typed.
THEOREM TypeCorrect == Spec => []TypeOK
<1>1. Init => TypeOK
  BY FlashConstants DEF Init, TypeOK, Never
<1>2. TypeOK /\ [Next]_vars => TypeOK'
  <2> SUFFICES ASSUME TypeOK, [Next]_vars PROVE TypeOK'
    OBVIOUS
  <2>0. m_controllerList' \in Seq(Entry)
    BY ListSteps
  <2> USE <2>0, FlashConstants DEF TypeOK, bus
  <2>1. CASE Read
    <3>1. Head(fifo) \in Heartbeat \cup {Other} /\ Tail(fifo) \in Seq(Heartbeat \cup {Other})
      BY <2>1, HeadTailProperties, LenProperties, EmptySeq DEF Read
    <3>2. \A m \in Heartbeat : [since EXCEPT ![m.controller] = 0] \in [Controller -> 0 .. Never]
      BY DEF Heartbeat, Never
    <3>3. since' \in [Controller -> 0 .. Never]
      BY <2>1, <3>1, <3>2 DEF Read
    <3> QED
      BY <2>1, <3>1, <3>3 DEF Read
  <2>2. CASE Tick
    <3>1. Later \in [Controller -> 0 .. Never]
      BY DEF Later, Never
    <3> QED
      BY <2>2, <3>1 DEF Tick
  <2>3. CASE \E c \in Controller, id \in Id : SetControllerId(c, id)
    <3>1. PICK c \in Controller, id \in Id : SetControllerId(c, id)
      BY <2>3
    <3>2. [controller |-> c, id |-> id] \in Heartbeat
      BY DEF Heartbeat
    <3>3. commands' \in Seq(Heartbeat)
      <4>1. commands' \in {commands, Append(commands, [controller |-> c, id |-> id])}
        BY <3>1 DEF SetControllerId
      <4>2. commands \in Seq(Heartbeat)
        OBVIOUS
      <4>3. Append(commands, [controller |-> c, id |-> id]) \in Seq(Heartbeat)
        BY ONLY <3>2, <4>2, AppendProperties, LenProperties
      <4> QED
        BY ONLY <4>1, <4>2, <4>3
    <3> QED
      BY <3>1, <3>3 DEF SetControllerId
  <2>4. CASE \E c \in Controller : Beat(c)
    <3>1. PICK c \in Controller : Beat(c)
      BY <2>4
    <3>2. [controller |-> c, id |-> busId[c]] \in Heartbeat
      BY DEF Heartbeat
    <3>3. fifo' \in Seq(Heartbeat \cup {Other})
      BY <3>1, <3>2, AppendProperties, LenProperties DEF Beat
    <3> QED
      BY <3>1, <3>3 DEF Beat
  <2>5. CASE Chatter
    <3>1. fifo' \in Seq(Heartbeat \cup {Other})
      BY <2>5, AppendProperties, LenProperties DEF Chatter
    <3> QED
      BY <2>5, <3>1 DEF Chatter
  <2>6. CASE Command
    <3>1. Head(commands) \in Heartbeat /\ Tail(commands) \in Seq(Heartbeat)
      BY <2>6, HeadTailProperties, LenProperties, EmptySeq DEF Command
    <3>2. busId' \in [Controller -> Id]
      BY <2>6, <3>1 DEF Command, Heartbeat
    <3> QED
      BY <2>6, <3>1, <3>2 DEF Command
  <2>7. CASE \E c \in Controller : Power(c)
    BY <2>7 DEF Power
  <2>8. CASE UNCHANGED vars
    BY <2>8 DEF vars
  <2> QED
    BY <2>1, <2>2, <2>3, <2>4, <2>5, <2>6, <2>7, <2>8 DEF Next, Identify, Environment
<1> QED
  BY <1>1, <1>2, PTL DEF Spec

LEMMA OneEntryStep ==
  ASSUME IInv, [Next]_vars
  PROVE  OneEntryEach'
<1> USE DEF IInv, ListInv, OneEntryEach
<1>0. m_controllerList \in Seq(Entry) /\ \A i \in Listed : m_controllerList[i] \in Entry
  BY DEF TypeOK, Listed
<1>1. CASE ListKept
  BY <1>1 DEF ListKept, Listed
<1>2. CASE Overwritten \/ AllAged \/ Renamed
  <2>1. /\ Listed' = Listed
        /\ \A i \in Listed : m_controllerList'[i].controller = m_controllerList[i].controller
    <3>1. CASE Overwritten
      BY <3>1, FreshEntry DEF Overwritten, Listed
    <3>2. CASE AllAged
      BY <1>0, <3>2, AgedEntry DEF AllAged, Listed
    <3>3. CASE Renamed
      BY <3>3 DEF Renamed, Listed
    <3> QED
      BY <1>2, <3>1, <3>2, <3>3
  <2> QED
    BY <2>1
<1>3. CASE Added
  <2>1. PICK m \in Heartbeat :
          /\ \A i \in Listed : m_controllerList[i].controller # m.controller
          /\ m_controllerList' = Append(m_controllerList, Fresh(m))
    BY <1>3 DEF Added
  <2>2. Fresh(m) \in Entry /\ Fresh(m).controller = m.controller
    BY FreshEntry
  <2> DEFINE n == Len(m_controllerList)
  <2>3. /\ n \in Nat /\ Listed = 1 .. n /\ Listed' = 1 .. n + 1
        /\ \A i \in 1 .. n : m_controllerList'[i] = m_controllerList[i]
        /\ m_controllerList'[n + 1] = Fresh(m)
    BY <1>0, <2>1, <2>2, AppendProperties, LenProperties DEF Listed
  <2> HIDE DEF n
  <2>4. \A i \in Listed' : i = n + 1 \/ (i \in Listed /\ i # n + 1)
    BY <2>3
  <2> QED
    BY <2>1, <2>2, <2>3, <2>4
<1> QED
  BY <1>1, <1>2, <1>3, ListSteps DEF ListStep

LEMMA AgeStep ==
  ASSUME IInv, [Next]_vars
  PROVE  AgeInv'
<1> USE DEF IInv, ListInv
<1>0. m_controllerList \in Seq(Entry) /\ \A i \in Listed : m_controllerList[i] \in Entry
  BY DEF TypeOK, Listed
<1>00. /\ since \in [Controller -> 0 .. Never] /\ Never = Timeout + 1 /\ Timeout \in Nat \ {0}
       /\ \A e \in Entry : e.controller \in Controller /\ e.timeSinceLastHeartbeat \in 0 .. Timeout
       /\ \A m \in Heartbeat : m.controller \in Controller
  BY FlashConstants DEF TypeOK, Never, Entry, Heartbeat
<1>1. CASE ListKept
  BY <1>1 DEF ListKept, Listed, AgeInv
<1>2. CASE Overwritten
  <2>1. PICK m \in Heartbeat :
          /\ Listed' = Listed
          /\ \A i \in Listed : IF m_controllerList[i].controller = m.controller
                               THEN m_controllerList'[i] = Fresh(m)
                               ELSE m_controllerList'[i] = m_controllerList[i]
          /\ since' = [since EXCEPT ![m.controller] = 0]
    BY <1>2 DEF Overwritten, Listed
  <2>2. Fresh(m).controller = m.controller /\ since'[m.controller] = 0
        /\ Fresh(m).timeSinceLastHeartbeat = 0
    BY <1>00, <2>1, FreshEntry
  <2>3. \A c \in Controller \ {m.controller} : since'[c] = since[c]
    BY <1>00, <2>1
  <2> QED
    BY <1>0, <1>00, <2>1, <2>2, <2>3 DEF AgeInv
<1>3. CASE Added
  <2>1. PICK m \in Heartbeat :
          /\ \A i \in Listed : m_controllerList[i].controller # m.controller
          /\ m_controllerList' = Append(m_controllerList, Fresh(m))
          /\ since' = [since EXCEPT ![m.controller] = 0]
    BY <1>3 DEF Added
  <2>2. /\ Fresh(m) \in Entry /\ Fresh(m).controller = m.controller
        /\ since'[m.controller] = 0 /\ Fresh(m).timeSinceLastHeartbeat = 0
    BY <1>00, <2>1, FreshEntry
  <2>3. \A c \in Controller \ {m.controller} : since'[c] = since[c]
    BY <1>00, <2>1
  <2>4. \A i \in Listed' : \/ m_controllerList'[i] = Fresh(m)
                           \/ i \in Listed /\ m_controllerList'[i] = m_controllerList[i]
    <3> DEFINE n == Len(m_controllerList)
    <3>1. /\ n \in Nat /\ Listed = 1 .. n /\ Listed' = 1 .. n + 1
          /\ \A i \in 1 .. n : m_controllerList'[i] = m_controllerList[i]
          /\ m_controllerList'[n + 1] = Fresh(m)
      BY <1>0, <2>1, <2>2, AppendProperties, LenProperties DEF Listed
    <3> HIDE DEF n
    <3> QED
      BY <3>1
  <2>5. ASSUME NEW i \in Listed'
        PROVE  LET e == m_controllerList'[i] IN
               /\ e.timeSinceLastHeartbeat < Timeout => since'[e.controller] <= e.timeSinceLastHeartbeat
               /\ e.activeOnBus => since'[e.controller] <= Timeout
    <3>1. CASE m_controllerList'[i] = Fresh(m)
      BY <1>00, <2>2, <3>1
    <3>2. CASE i \in Listed /\ m_controllerList'[i] = m_controllerList[i]
      <4>1. since'[m_controllerList[i].controller] = since[m_controllerList[i].controller]
        BY <1>0, <1>00, <2>1, <2>3, <3>2
      <4> QED
        BY <3>2, <4>1 DEF AgeInv
    <3> QED
      BY <2>4, <3>1, <3>2
  <2> QED
    BY <2>5 DEF AgeInv
<1>4. CASE AllAged
  <2>1. ASSUME NEW i \in Listed
        PROVE  LET e == m_controllerList'[i] IN
               /\ e.timeSinceLastHeartbeat < Timeout => since'[e.controller] <= e.timeSinceLastHeartbeat
               /\ e.activeOnBus => since'[e.controller] <= Timeout
    <3> DEFINE e == m_controllerList[i]
    <3>1. e \in Entry /\ m_controllerList'[i] = Aged(e)
      BY <1>0, <1>4 DEF AllAged
    <3>2. e.timeSinceLastHeartbeat < Timeout => since[e.controller] <= e.timeSinceLastHeartbeat
      BY DEF AgeInv
    <3>3. since'[e.controller] <= since[e.controller] + 1
      BY <1>00, <1>4, <3>1 DEF AllAged, Later
    <3>4. since'[e.controller] \in Nat /\ since[e.controller] \in Nat
      BY <1>00, <1>4, <3>1 DEF AllAged, Later
    <3> HIDE DEF e
    <3> QED
      BY <1>00, <3>1, <3>2, <3>3, <3>4, AgedEntry
  <2>2. Listed' = Listed
    BY <1>4 DEF AllAged, Listed
  <2> QED
    BY <2>1, <2>2 DEF AgeInv
<1>5. CASE Renamed
  BY <1>5 DEF Renamed, AgeInv, Listed
<1> QED
  BY <1>1, <1>2, <1>3, <1>4, <1>5, ListSteps DEF ListStep

\* The inductive invariant of the list.
THEOREM Inductive == Spec => []IInv
<1>1. Init => ListInv
  BY DEF Init, ListInv, OneEntryEach, AgeInv, Listed
<1>2. TypeOK /\ ListInv /\ [Next]_vars => ListInv'
  BY OneEntryStep, AgeStep DEF IInv, ListInv
<1> QED
  BY <1>1, <1>2, TypeCorrect, PTL DEF Spec, IInv

\* A controller has one entry, whatever the bus and the HTTP thread do.
THEOREM OneEntry == Spec => []OneEntryEach
<1>1. IInv => OneEntryEach
  BY DEF IInv, ListInv
<1> QED
  BY <1>1, Inductive, PTL

\* An active entry was heard before the timeout, whatever the local's flag is.
THEOREM Heard == Spec => []ActiveWasHeard
<1>1. IInv => ActiveWasHeard
  BY DEF IInv, ListInv, AgeInv, ActiveWasHeard
<1> QED
  BY <1>1, Inductive, PTL

\* An entry keeps its place and its controller.
THEOREM Stay == Spec => EntriesStay
<1>1. TypeOK /\ [Next]_vars =>
        [\A i \in Listed :
           /\ i \in DOMAIN m_controllerList'
           /\ m_controllerList'[i].controller = m_controllerList[i].controller]_vars
  <2> SUFFICES ASSUME TypeOK, [Next]_vars, NEW i \in Listed
               PROVE  /\ i \in DOMAIN m_controllerList'
                      /\ m_controllerList'[i].controller = m_controllerList[i].controller
    OBVIOUS
  <2>0. m_controllerList \in Seq(Entry) /\ m_controllerList[i] \in Entry
    BY DEF TypeOK, Listed
  <2>1. CASE ListKept
    BY <2>1 DEF ListKept, Listed
  <2>2. CASE Overwritten
    BY <2>2, FreshEntry DEF Overwritten, Listed
  <2>3. CASE Added
    <3>1. \E e \in Entry : m_controllerList' = Append(m_controllerList, e)
      BY <2>3, FreshEntry DEF Added
    <3> QED
      BY <2>0, <3>1, AppendProperties, LenProperties DEF Listed
  <2>4. CASE AllAged
    BY <2>0, <2>4, AgedEntry DEF AllAged, Listed
  <2>5. CASE Renamed
    BY <2>5 DEF Renamed, Listed
  <2> QED
    BY <2>1, <2>2, <2>3, <2>4, <2>5, ListSteps DEF ListStep
<1> QED
  BY <1>1, TypeCorrect, PTL DEF Spec, EntriesStay
=============================================================================
