------------------------- MODULE TimeOfFlightProofs -------------------------
(***************************************************************************)
(* The sensor has its settings back in the time the periods give, and torn *)
(* time points delay it: for any number of threads, any settings and any   *)
(* periods, and for builds that store 64 bits at once (Wrap = 0) or not.   *)
(***************************************************************************)
EXTENDS TimeOfFlight, SequenceTheorems, TLAPS

-----------------------------------------------------------------------------
(* TypeOK. *)

TxAge == -Wrap .. ConfigEvery
RxAge == -Wrap .. ReceiveEvery
Obj == [mode : {0} \cup Mode, time : Int, roi : Roi \cup {DefaultRoi},
        txAge : TxAge, rxAge : RxAge]
Arg == [mode : {0} \cup Mode, time : Int, roi : Roi \cup {DefaultRoi}]

TypeInv ==
  /\ TypeOK
  /\ obj \in [Thread -> Obj] /\ arg \in [Thread -> Arg] /\ data \in [Thread -> Cfgs]
  /\ bus \in Seq(Cfgs)
  \* A thread in a call has the object of the sensor.
  /\ \A t \in Thread : handle[t] \in {None, handleList}
  /\ \A t \in Thread : pc[t] # "idle" => handle[t] # None

LEMMA ClampType ==
  ASSUME NEW x \in Int
  PROVE  Clamp(x) \in MinTime .. MaxTime
BY TimeOfFlightConstants DEF Clamp

LEMMA CfgType ==
  ASSUME NEW o \in Obj
  PROVE  Cfg(o) \in Cfgs
<1>1. Clamp(o.time) \in MinTime .. MaxTime
  BY ClampType DEF Obj
<1> QED
  BY <1>1 DEF Cfg, Cfgs, Obj

LEMMA Ages ==
  /\ 0 \in TxAge /\ -Wrap \in TxAge /\ ConfigEvery \in TxAge /\ TxAge \subseteq Int
  /\ 0 \in RxAge /\ -Wrap \in RxAge /\ ReceiveEvery \in RxAge /\ RxAge \subseteq Int
BY TimeOfFlightConstants DEF TxAge, RxAge

LEMMA New == NewObject \in Obj /\ Blank \in Cfgs /\ Factory \in Cfgs
<1>1. NewObject \in Obj
  BY Ages, TimeOfFlightConstants DEF NewObject, Obj
<1>2. Blank \in Cfgs
  BY <1>1, CfgType DEF Blank
<1>3. Factory \in Cfgs
  BY <1>2, TimeOfFlightConstants DEF Factory, Cfgs
<1> QED
  BY <1>1, <1>2, <1>3

LEMMA Aging ==
  ASSUME NEW o \in Obj, NEW x \in TxAge, NEW y \in RxAge
  PROVE  /\ [o EXCEPT !.txAge = x] \in Obj /\ [o EXCEPT !.rxAge = y] \in Obj
         /\ [o EXCEPT !.txAge = x, !.rxAge = y] \in Obj
BY DEF Obj

LEMMA UnsetType ==
  /\ Unset \in Arg
  /\ \A m \in Mode, x \in Int : [Unset EXCEPT !.mode = m, !.time = x] \in Arg
  /\ \A z \in Roi : [Unset EXCEPT !.roi = z] \in Arg
<1>1. Unset \in Arg
  BY DEF Unset, Arg
<1>2. \A m \in Mode, x \in Int : [Unset EXCEPT !.mode = m, !.time = x] \in Arg
  BY <1>1 DEF Arg
<1>3. \A z \in Roi : [Unset EXCEPT !.roi = z] \in Arg
  BY <1>1 DEF Arg
<1> QED
  BY <1>1, <1>2, <1>3

\* A thread that has an object has the one that is listed.
LEMMA TheOne ==
  ASSUME TypeInv, NEW t \in Thread, handle[t] # None
  PROVE  /\ handle[t] = handleList /\ handleList \in Thread /\ handleList # None
         /\ obj[handleList] \in Obj /\ Mine(t) = obj[handleList]
BY DEF TypeInv, TypeOK, Mine

LEMMA TypeInit == Init => TypeInv
<1> SUFFICES ASSUME Init PROVE TypeInv
  OBVIOUS
<1>1. bus \in Seq(Cfgs) /\ DOMAIN bus = {}
  BY DEF Init
<1>2. polled \in 0 .. PollEvery /\ calm \in 0 .. Delay
  BY TimeOfFlightConstants DEF Init, Delay
<1>3. \A t \in Thread : obj[t].txAge \in TxAge /\ obj[t].rxAge \in RxAge
  BY New DEF Init, Obj
<1> QED
  BY New, UnsetType, <1>1, <1>2, <1>3 DEF Init, TypeInv, TypeOK, Label, TxAge, RxAge

\* The handle table.
LEMMA HandleTypes ==
  ASSUME TypeInv, NEW t \in Thread, Create(t) \/ Destroy(t)
  PROVE  TypeInv'
<1> USE DEF TypeInv, TypeOK, call, bounds, TxAge, RxAge
<1>1. CASE Create(t)
  <2>1. obj' \in [Thread -> Obj]
    BY <1>1, New DEF Create
  <2>2. \A u \in Thread : obj'[u].txAge \in TxAge /\ obj'[u].rxAge \in RxAge
    BY <2>1 DEF Obj
  <2>3. handleList' \in Thread \cup {None} /\ handle' = [handle EXCEPT ![t] = handleList']
    BY <1>1 DEF Create
  <2>4. \A u \in Thread : handle'[u] \in {None, handleList'}
    BY <1>1, <2>3 DEF Create
  <2>5. polled' \in 0 .. PollEvery /\ calm' \in 0 .. Delay
    BY <1>1, TimeOfFlightConstants DEF Create, Delay
  <2>6. UNCHANGED <<pc, arg, changed, data, clash, bus, sensor>> /\ \A u \in Thread : pc[u] = "idle"
    BY <1>1 DEF Create, Quiet
  <2> QED
    BY <2>1, <2>2, <2>3, <2>4, <2>5, <2>6
<1>2. CASE Destroy(t)
  <2>1. obj' \in [Thread -> Obj]
    BY <1>2, New DEF Destroy
  <2>2. \A u \in Thread : obj'[u].txAge \in TxAge /\ obj'[u].rxAge \in RxAge
    BY <2>1 DEF Obj
  <2>3. \A u \in Thread \ {t} : handle[u] = None
    BY <1>2, TheOne DEF Destroy
  <2>4. \A u \in Thread : handle'[u] = None
    BY <1>2, <2>3 DEF Destroy
  <2>5. UNCHANGED <<pc, arg, changed, data, clash, bus, sensor, polled, calm>> /\ \A u \in Thread : pc[u] = "idle"
    BY <1>2 DEF Destroy, Quiet
  <2>6. handleList' = None /\ handle' \in [Thread -> Thread \cup {None}]
    BY <1>2 DEF Destroy
  <2> QED
    BY <2>1, <2>2, <2>4, <2>5, <2>6
<1> QED
  BY <1>1, <1>2

\* What a step of a call changes besides the objects and the frames: nothing.
LEMMA CallTypes ==
  ASSUME TypeInv, NEW t \in Thread, handle[t] # None, UNCHANGED objects,
         NEW o \in Obj, obj' = [obj EXCEPT ![handle[t]] = o],
         pc' \in [Thread -> Label], \A u \in Thread \ {t} : pc'[u] = pc[u],
         arg' \in [Thread -> Arg], changed' \in [Thread -> BOOLEAN], data' \in [Thread -> Cfgs],
         clash' \in [Thread -> BOOLEAN], bus' \in Seq(Cfgs),
         polled' \in {0, polled}, calm' \in {0, calm}, UNCHANGED sensor
  PROVE  TypeInv'
<1> USE DEF TypeInv, TypeOK, objects, TxAge, RxAge
<1>1. obj' \in [Thread -> Obj]
  OBVIOUS
<1>2. \A u \in Thread : obj'[u].txAge \in TxAge /\ obj'[u].rxAge \in RxAge
  BY <1>1 DEF Obj
<1>3. polled' \in 0 .. PollEvery /\ calm' \in 0 .. Delay
  BY TimeOfFlightConstants DEF Delay
<1>4. \A i \in DOMAIN bus' : bus'[i] \in Cfgs
  OBVIOUS
<1>5. \A u \in Thread : pc'[u] # "idle" => handle'[u] # None
  OBVIOUS
<1> QED
  BY <1>1, <1>2, <1>3, <1>4, <1>5

LEMMA SetterTypes ==
  ASSUME TypeInv, NEW t \in Thread,
         \/ \E m \in Mode, x \in SampleTime : SetRangingMode(t, m, x)
         \/ \E z \in Roi : SetRangeOfInterest(t, z)
         \/ CompareTime(t) \/ StoreMode(t) \/ StoreTime(t) \/ StoreRoi(t)
  PROVE  TypeInv'
<1> USE DEF Goto, Label
<1>0. /\ obj \in [Thread -> Obj] /\ bus \in Seq(Cfgs) /\ arg \in [Thread -> Arg]
      /\ data \in [Thread -> Cfgs] /\ changed \in [Thread -> BOOLEAN] /\ pc \in [Thread -> Label]
      /\ clash \in [Thread -> BOOLEAN]
      /\ handle[t] # None => handle[t] \in Thread /\ obj[handle[t]] \in Obj
      /\ pc[t] # "idle" => handle[t] # None
  BY DEF TypeInv, TypeOK
\* The call begins or compares, and the object stays.
<1>1. ASSUME UNCHANGED <<objects, obj, data, clash, bus, sensor, polled>>, calm' \in {0, calm},
             handle[t] # None, NEW l \in Label, NEW a \in Arg, NEW b \in BOOLEAN,
             pc' = [pc EXCEPT ![t] = l], arg' = [arg EXCEPT ![t] = a],
             changed' = [changed EXCEPT ![t] = b]
      PROVE  TypeInv'
  <2>1. obj' = [obj EXCEPT ![handle[t]] = obj[handle[t]]]
    BY <1>0, <1>1
  <2> QED
    BY <1>0, <1>1, <2>1, CallTypes
\* It stores a member.
<1>2. ASSUME UNCHANGED <<objects, changed, data, clash, bus, sensor, polled, calm>>,
             handle[t] # None, NEW l \in Label, NEW a \in Arg, NEW o \in Obj,
             pc' = [pc EXCEPT ![t] = l], arg' = [arg EXCEPT ![t] = a],
             obj' = [obj EXCEPT ![handle[t]] = o]
      PROVE  TypeInv'
  BY <1>0, <1>2, CallTypes
<1>3. ASSUME NEW m \in Mode, NEW x \in SampleTime, SetRangingMode(t, m, x) PROVE TypeInv'
  <2> DEFINE a == [Unset EXCEPT !.mode = m, !.time = x]
             b == Mine(t).mode # m
  <2>1. a \in Arg /\ b \in BOOLEAN
    BY UnsetType, TimeOfFlightConstants
  <2>2. /\ handle[t] # None /\ pc' = [pc EXCEPT ![t] = "compare"]
        /\ arg' = [arg EXCEPT ![t] = a] /\ changed' = [changed EXCEPT ![t] = b]
        /\ UNCHANGED <<objects, obj, data, clash, bus, sensor, polled>> /\ calm' = 0
    BY <1>3 DEF SetRangingMode, Idle
  <2> HIDE DEF a, b
  <2> QED
    BY <1>1, <2>1, <2>2
<1>4. ASSUME NEW z \in Roi, SetRangeOfInterest(t, z) PROVE TypeInv'
  <2> DEFINE a == [Unset EXCEPT !.roi = z]
             b == Mine(t).roi # z
  <2>1. a \in Arg /\ b \in BOOLEAN
    BY UnsetType
  <2>2. /\ handle[t] # None /\ pc' = [pc EXCEPT ![t] = "roi"]
        /\ arg' = [arg EXCEPT ![t] = a] /\ changed' = [changed EXCEPT ![t] = b]
        /\ UNCHANGED <<objects, obj, data, clash, bus, sensor, polled>> /\ calm' = 0
    BY <1>4 DEF SetRangeOfInterest, Idle
  <2> HIDE DEF a, b
  <2> QED
    BY <1>1, <2>1, <2>2
<1>5. CASE CompareTime(t)
  <2> DEFINE b == changed[t] \/ Mine(t).time # arg[t].time \/ arg[t].time = NaN
  <2>1. b \in BOOLEAN /\ arg[t] \in Arg /\ arg' = [arg EXCEPT ![t] = arg[t]]
    BY <1>0, <1>5 DEF CompareTime
  <2>2. /\ handle[t] # None /\ pc' = [pc EXCEPT ![t] = "mode"]
        /\ changed' = [changed EXCEPT ![t] = b]
        /\ UNCHANGED <<objects, obj, data, clash, bus, sensor, polled, calm>>
    BY <1>0, <1>5 DEF CompareTime
  <2> HIDE DEF b
  <2> QED
    BY <1>1, <2>1, <2>2
<1>6. CASE StoreMode(t)
  <2> DEFINE o == [obj[handle[t]] EXCEPT !.mode = arg[t].mode]
  <2>1. handle[t] # None /\ arg[t] \in Arg /\ arg' = [arg EXCEPT ![t] = arg[t]]
    BY <1>0, <1>6 DEF StoreMode
  <2>2. o \in Obj
    BY <1>0, <2>1 DEF Obj, Arg
  <2>3. /\ obj' = [obj EXCEPT ![handle[t]] = o] /\ pc' = [pc EXCEPT ![t] = "time"]
        /\ UNCHANGED <<objects, changed, data, clash, bus, sensor, polled, calm>>
    BY <1>0, <1>6, <2>1 DEF StoreMode
  <2> HIDE DEF o
  <2> QED
    BY <1>2, <2>1, <2>2, <2>3
<1>7. CASE StoreTime(t)
  <2> DEFINE o == [obj[handle[t]] EXCEPT !.time = arg[t].time]
  <2>1. handle[t] # None /\ arg[t] \in Arg
    BY <1>0, <1>7 DEF StoreTime
  <2>2. o \in Obj
    BY <1>0, <2>1 DEF Obj, Arg
  <2>3. /\ obj' = [obj EXCEPT ![handle[t]] = o] /\ pc' = [pc EXCEPT ![t] = "queue"]
        /\ arg' = [arg EXCEPT ![t] = Unset]
        /\ UNCHANGED <<objects, changed, data, clash, bus, sensor, polled, calm>>
    BY <1>0, <1>7, <2>1 DEF StoreTime
  <2> HIDE DEF o
  <2> QED
    BY <1>2, <2>1, <2>2, <2>3, UnsetType
<1>8. CASE StoreRoi(t)
  <2> DEFINE o == [obj[handle[t]] EXCEPT !.roi = arg[t].roi]
  <2>1. handle[t] # None /\ arg[t] \in Arg
    BY <1>0, <1>8 DEF StoreRoi
  <2>2. o \in Obj
    BY <1>0, <2>1 DEF Obj, Arg
  <2>3. /\ obj' = [obj EXCEPT ![handle[t]] = o] /\ pc' = [pc EXCEPT ![t] = "queue"]
        /\ arg' = [arg EXCEPT ![t] = Unset]
        /\ UNCHANGED <<objects, changed, data, clash, bus, sensor, polled, calm>>
    BY <1>0, <1>8, <2>1 DEF StoreRoi
  <2> HIDE DEF o
  <2> QED
    BY <1>2, <2>1, <2>2, <2>3, UnsetType
<1> QED
  BY <1>3, <1>4, <1>5, <1>6, <1>7, <1>8

LEMMA ClashType ==
  ASSUME clash \in [Thread -> BOOLEAN], NEW t \in Thread, Clashed(t)
  PROVE  clash' \in [Thread -> BOOLEAN]
<1>1. \A u \in Thread : (u # t /\ (clash[u] \/ pc[u] = pc[t])) \in BOOLEAN
  OBVIOUS
<1> QED
  BY <1>1 DEF Clashed

\* Getters, and what they make of the time points.
LEMMA TimeTypes ==
  ASSUME TypeInv, NEW t \in Thread,
         ExecuteTask(t) \/ MarkRx(t) \/ QueueCfgMsg(t) \/ StampTx(t)
  PROVE  TypeInv'
<1> USE DEF Goto, Label
<1>0. /\ obj \in [Thread -> Obj] /\ bus \in Seq(Cfgs) /\ arg \in [Thread -> Arg]
      /\ data \in [Thread -> Cfgs] /\ changed \in [Thread -> BOOLEAN] /\ pc \in [Thread -> Label]
      /\ clash \in [Thread -> BOOLEAN]
      /\ handle[t] # None => handle[t] \in Thread /\ obj[handle[t]] \in Obj
      /\ pc[t] # "idle" => handle[t] # None
  BY DEF TypeInv, TypeOK
\* A step that loads.
<1>1. ASSUME UNCHANGED <<objects, obj, arg, data, clash, bus, sensor, calm>>, polled' \in {0, polled},
             handle[t] # None, NEW l \in Label, pc' = [pc EXCEPT ![t] = l],
             changed' \in [Thread -> BOOLEAN]
      PROVE  TypeInv'
  <2>1. obj' = [obj EXCEPT ![handle[t]] = obj[handle[t]]]
    BY <1>0, <1>1
  <2> QED
    BY <1>0, <1>1, <2>1, CallTypes
\* A step that stores.
<1>2. ASSUME UNCHANGED <<objects, arg, data, bus, sensor, polled, calm>>,
             handle[t] # None, NEW l \in Label, NEW o \in Obj, pc' = [pc EXCEPT ![t] = l],
             obj' = [obj EXCEPT ![handle[t]] = o],
             changed' \in [Thread -> BOOLEAN], clash' \in [Thread -> BOOLEAN]
      PROVE  TypeInv'
  BY <1>0, <1>2, CallTypes
<1>3. CASE ExecuteTask(t)
  <2>1. PICK l \in Label : pc' = [pc EXCEPT ![t] = l]
    BY <1>3 DEF ExecuteTask
  <2> QED
    BY <1>0, <1>1, <1>3, <2>1 DEF ExecuteTask, Idle
<1>4. CASE MarkRx(t)
  <2>1. PICK y \in {0, -Wrap, ReceiveEvery} : obj' = [obj EXCEPT ![handle[t]].rxAge = y]
    BY <1>4 DEF MarkRx
  <2> DEFINE o == [obj[handle[t]] EXCEPT !.rxAge = y]
  <2>2. handle[t] # None /\ pc' = [pc EXCEPT ![t] = "queue"]
        /\ UNCHANGED <<objects, arg, data, bus, sensor, polled, calm>>
        /\ changed' = [changed EXCEPT ![t] = FALSE]
    BY <1>0, <1>4 DEF MarkRx
  <2>3. o \in Obj /\ obj' = [obj EXCEPT ![handle[t]] = o]
    BY <1>0, <2>1, <2>2, Ages, Aging
  <2>4. clash' \in [Thread -> BOOLEAN] /\ changed' \in [Thread -> BOOLEAN]
    BY <1>0, <1>4, <2>2, ClashType DEF MarkRx
  <2> HIDE DEF o
  <2> QED
    BY <1>2, <2>2, <2>3, <2>4
<1>5. CASE QueueCfgMsg(t)
  <2>1. PICK due : Queued(t, due)
    BY <1>5 DEF QueueCfgMsg
  <2>2. PICK l \in Label : pc' = [pc EXCEPT ![t] = l]
    BY <2>1 DEF Queued
  <2>3. changed' \in [Thread -> BOOLEAN] /\ UNCHANGED <<objects, obj, arg, data, clash, bus, sensor, calm, polled>>
    BY <1>0, <1>5, <2>1 DEF Queued, QueueCfgMsg
  <2> QED
    BY <1>0, <1>1, <1>5, <2>2, <2>3 DEF QueueCfgMsg
<1>6. CASE StampTx(t)
  <2>1. PICK x \in {0, -Wrap, ConfigEvery} : obj' = [obj EXCEPT ![handle[t]].txAge = x]
    BY <1>6 DEF StampTx
  <2> DEFINE o == [obj[handle[t]] EXCEPT !.txAge = x]
  <2>2. handle[t] # None /\ pc' = [pc EXCEPT ![t] = "tx"]
        /\ UNCHANGED <<objects, arg, changed, data, bus, sensor, polled, calm>>
    BY <1>0, <1>6 DEF StampTx
  <2>3. o \in Obj /\ obj' = [obj EXCEPT ![handle[t]] = o]
    BY <1>0, <2>1, <2>2, Ages, Aging
  <2>4. clash' \in [Thread -> BOOLEAN]
    BY <1>0, <1>6, ClashType DEF StampTx
  <2> HIDE DEF o
  <2> QED
    BY <1>0, <1>2, <2>2, <2>3, <2>4
<1> QED
  BY <1>3, <1>4, <1>5, <1>6

LEMMA TxTypes ==
  ASSUME TypeInv, NEW t \in Thread, TxCfgMsg(t) \/ TxRest(t) \/ TxSend(t)
  PROVE  TypeInv'
<1> USE DEF Goto, Label
<1>0. /\ obj \in [Thread -> Obj] /\ bus \in Seq(Cfgs) /\ arg \in [Thread -> Arg]
      /\ data \in [Thread -> Cfgs] /\ changed \in [Thread -> BOOLEAN] /\ pc \in [Thread -> Label]
      /\ clash \in [Thread -> BOOLEAN]
  BY DEF TypeInv, TypeOK
<1>1. handle[t] # None /\ handle[t] \in Thread /\ obj[handle[t]] \in Obj
  BY TheOne DEF TxCfgMsg, TxRest, TxSend, TypeInv
<1>2. obj' = [obj EXCEPT ![handle[t]] = obj[handle[t]]]
      /\ UNCHANGED <<objects, arg, changed, clash, sensor, polled, calm>>
  BY <1>0 DEF TxCfgMsg, TxRest, TxSend
<1>3. CASE TxCfgMsg(t)
  <2> DEFINE d == [data[t] EXCEPT !.time = Clamp(Mine(t).time)]
  <2>1. d \in Cfgs
    <3>1. Clamp(Mine(t).time) \in MinTime .. MaxTime
      BY <1>1, ClampType DEF Mine, Obj
    <3> QED
      BY <1>0, <3>1 DEF Cfgs
  <2>2. data' = [data EXCEPT ![t] = d] /\ pc' = [pc EXCEPT ![t] = "rest"] /\ bus' = bus
    BY <1>0, <1>3 DEF TxCfgMsg
  <2> HIDE DEF d
  <2> QED
    BY <1>0, <1>1, <1>2, <2>1, <2>2, CallTypes
<1>4. CASE TxRest(t)
  <2> DEFINE d == [data[t] EXCEPT !.mode = Mine(t).mode + 1, !.roi = Mine(t).roi]
  <2>1. d \in Cfgs
    BY <1>0, <1>1 DEF Cfgs, Obj, Mine
  <2>2. data' = [data EXCEPT ![t] = d] /\ pc' = [pc EXCEPT ![t] = "send"] /\ bus' = bus
    BY <1>0, <1>4 DEF TxRest
  <2> HIDE DEF d
  <2> QED
    BY <1>0, <1>1, <1>2, <2>1, <2>2, CallTypes
<1>5. CASE TxSend(t)
  <2>1. /\ data' = [data EXCEPT ![t] = Blank] /\ pc' = [pc EXCEPT ![t] = "idle"]
        /\ bus' = Append(bus, data[t]) /\ bus' \in Seq(Cfgs)
    BY <1>0, <1>5, AppendProperties DEF TxSend
  <2> QED
    BY <1>0, <1>1, <1>2, <2>1, New, CallTypes
<1> QED
  BY <1>3, <1>4, <1>5

LEMMA WorldTypes ==
  ASSUME TypeInv, Deliver \/ Lose \/ Restart \/ Tick
  PROVE  TypeInv'
<1> USE DEF TypeInv, TypeOK, objects, call, TxAge, RxAge
<1>1. CASE Deliver \/ Lose
  <2>1. bus' \in Seq(Cfgs) /\ \A i \in DOMAIN bus' : bus'[i] \in Cfgs
    <3>1. bus # <<>> /\ bus' = Tail(bus)
      BY <1>1 DEF Deliver, Lose
    <3>2. bus' \in Seq(Cfgs)
      BY <3>1, HeadTailProperties
    <3> QED
      BY <3>2
  <2>2. sensor' \in Cfgs
    BY <1>1, HeadTailProperties DEF Deliver, Lose
  <2>3. calm' \in 0 .. Delay
    BY <1>1, TimeOfFlightConstants DEF Deliver, Lose, Delay
  <2>4. UNCHANGED <<objects, obj, call, polled>>
    BY <1>1 DEF Deliver, Lose
  <2> QED
    BY <2>1, <2>2, <2>3, <2>4
<1>2. CASE Restart
  <2>1. sensor' \in Cfgs /\ calm' \in 0 .. Delay
    BY <1>2, New, TimeOfFlightConstants DEF Restart, Delay
  <2> QED
    BY <1>2, <2>1 DEF Restart
<1>3. CASE Tick
  <2>1. obj' \in [Thread -> Obj]
    <3>1. \A o \in Obj : [o EXCEPT !.txAge = Older(@, ConfigEvery), !.rxAge = Older(@, ReceiveEvery)] \in Obj
      <4>1. \A o \in Obj : Older(o.txAge, ConfigEvery) \in TxAge /\ Older(o.rxAge, ReceiveEvery) \in RxAge
        BY TimeOfFlightConstants DEF Obj, Older
      <4> QED
        BY <4>1, Aging
    <3> QED
      BY <1>3, <3>1 DEF Tick
  <2>2. \A u \in Thread : obj'[u].txAge \in TxAge /\ obj'[u].rxAge \in RxAge
    BY <2>1 DEF Obj
  <2>3. polled' \in 0 .. PollEvery /\ calm' \in 0 .. Delay
    <3>1. Delay \in Nat /\ PollEvery \in Nat
      BY TimeOfFlightConstants DEF Delay
    <3>2. polled' = 0 \/ (polled < PollEvery /\ polled' = polled + 1)
      BY <1>3 DEF Tick
    <3>3. calm' = IF calm < Delay THEN calm + 1 ELSE calm
      BY <1>3 DEF Tick, Older
    <3> QED
      BY <3>1, <3>2, <3>3
  <2>4. UNCHANGED <<objects, call, bus, sensor>>
    BY <1>3 DEF Tick
  <2> QED
    BY <2>1, <2>2, <2>3, <2>4
<1> QED
  BY <1>1, <1>2, <1>3

LEMMA TypeStep == TypeInv /\ [Next]_vars => TypeInv'
<1> SUFFICES ASSUME TypeInv, [Next]_vars PROVE TypeInv'
  OBVIOUS
<1>1. CASE UNCHANGED vars
  BY <1>1 DEF vars, objects, call, TypeInv, TypeOK
<1> QED
  BY <1>1, HandleTypes, SetterTypes, TimeTypes, TxTypes, WorldTypes DEF Next, Step

\* Every value has its type, the times their caps, and no sensor ever has a sample
\* time that is out of range, or none, whatever was asked for: for any threads and
\* any sample times (TimeOfFlightImpl.cpp:132-163).
THEOREM TypeCorrect == Spec => []TypeOK
<1>1. TypeInv => TypeOK
  BY DEF TypeInv
<1> QED
  BY TypeInit, TypeStep, <1>1, PTL DEF Spec

-----------------------------------------------------------------------------
(* SettingsBackInTime. *)

Settings == Cfg(obj[handleList])
Age == obj[handleList]

\* Since time has passed, calls only read the settings, and all frames have them.
Right ==
  /\ \A t \in Thread : pc[t] \notin {"compare", "mode", "time", "roi"}
  /\ \A t \in Thread : pc[t] = "rest" => data[t].time = Settings.time
  /\ \A t \in Thread : pc[t] = "send" => data[t] = Settings
  /\ \A i \in DOMAIN bus : bus[i] = Settings

\* A frame is on its way, or in the making.
Coming == bus # <<>> \/ \E t \in Thread : pc[t] \in {"stamp", "tx", "rest", "send"}
Looking == \E t \in Thread : pc[t] \in {"mark", "queue"}

\* When a frame is due for sure, and when a look is.
FrameDue == ConfigEvery + Wrap
LookDue == FrameDue + Wrap + (ReceiveEvery - 1)

\* No frame has been made since: the time for one comes closer, then that of a look
\* that finds it due, then that of a getter.  Either time point may have been torn,
\* and that of the look once more by the last look that was too early.
Waiting ==
  /\ Age.txAge >= calm - Wrap \/ Age.txAge = ConfigEvery
  /\ calm >= FrameDue /\ ~Looking =>
       Age.rxAge >= calm - FrameDue + 1 - Wrap \/ Age.rxAge = ReceiveEvery
  /\ calm >= LookDue /\ ~Looking => polled >= calm - LookDue + 1

BackInv ==
  calm >= 1 /\ handleList # None => Right /\ (sensor = Settings \/ Coming \/ Waiting)

\* The settings of an object without those of its ages.
LEMMA SettingsOf ==
  ASSUME NEW o \in Obj, NEW x \in TxAge, NEW y \in RxAge
  PROVE  /\ Cfg([o EXCEPT !.txAge = x]) = Cfg(o) /\ Cfg([o EXCEPT !.rxAge = y]) = Cfg(o)
         /\ [o EXCEPT !.txAge = x].rxAge = o.rxAge /\ [o EXCEPT !.txAge = x].txAge = x
         /\ [o EXCEPT !.rxAge = y].txAge = o.txAge /\ [o EXCEPT !.rxAge = y].rxAge = y
BY DEF Obj, Cfg

\* The types, as far as the steps below use them.
LEMMA Facts ==
  ASSUME TypeInv, handleList # None
  PROVE  /\ handleList \in Thread /\ Age \in Obj /\ obj \in [Thread -> Obj]
         /\ Age.txAge \in -Wrap .. ConfigEvery /\ Age.rxAge \in -Wrap .. ReceiveEvery
         /\ calm \in 0 .. Delay /\ polled \in 0 .. PollEvery /\ Wrap \in Nat
         /\ ConfigEvery \in Nat \ {0} /\ ReceiveEvery \in Nat \ {0} /\ PollEvery \in Nat \ {0}
         /\ pc \in [Thread -> Label] /\ data \in [Thread -> Cfgs] /\ bus \in Seq(Cfgs)
<1>1. handleList \in Thread /\ obj \in [Thread -> Obj]
  BY DEF TypeInv, TypeOK
<1>2. Age \in Obj
  BY <1>1 DEF Age
<1>3. Age.txAge \in -Wrap .. ConfigEvery /\ Age.rxAge \in -Wrap .. ReceiveEvery
  BY <1>2 DEF Obj, TxAge, RxAge
<1> QED
  BY <1>1, <1>2, <1>3, TimeOfFlightConstants DEF TypeInv, TypeOK

LEMMA AgeType == TypeInv /\ handleList # None => Age \in Obj
BY Facts

LEMMA ASettings == Settings = Cfg(Age) /\ Settings' = Cfg(Age')
BY DEF Settings, Age

\* A getter: if it looks, the look is under way; if not, it was not yet time for one,
\* and so not yet time for a getter that looks, or a look of another thread is.
LEMMA ExecuteBack ==
  ASSUME TypeInv, BackInv, NEW t \in Thread, ExecuteTask(t)
  PROVE  BackInv'
<1> SUFFICES ASSUME calm >= 1, handleList # None
             PROVE  Right' /\ (sensor = Settings' \/ Coming' \/ Waiting')
  BY DEF BackInv, ExecuteTask, objects
<1> USE DEF objects
<1>1. Right /\ (sensor = Settings \/ Coming \/ Waiting)
  BY DEF BackInv
<1>2. /\ handle[t] = handleList /\ Mine(t) = Age /\ pc[t] = "idle" /\ polled' = 0
      /\ UNCHANGED <<handleList, obj, data, bus, sensor, calm>>
  BY TheOne DEF ExecuteTask, Idle, Age
<1>3. Settings' = Settings /\ Age' = Age
  BY <1>2 DEF Settings, Age
<1>4. PICK due \in BOOLEAN : /\ Loaded(t, due, Age.rxAge >= ReceiveEvery, "mark")
                             /\ pc' = [pc EXCEPT ![t] = IF due THEN "mark" ELSE "idle"]
  BY <1>2 DEF ExecuteTask, Goto
<1>5. CASE due
  <2>1. pc' = [pc EXCEPT ![t] = "mark"]
    BY <1>4, <1>5
  <2>2. pc'[t] = "mark" /\ \A u \in Thread \ {t} : pc'[u] = pc[u]
    BY <2>1, Facts
  <2>3. Right'
    BY <1>1, <1>2, <1>3, <2>2 DEF Right
  <2>4. Coming => Coming'
    BY <1>2, <2>2 DEF Coming
  <2>5. Looking'
    BY <2>2 DEF Looking
  <2>6. Waiting => Waiting'
    BY <1>2, <1>3, <2>5 DEF Waiting
  <2> QED
    BY <1>1, <1>2, <1>3, <2>3, <2>4, <2>6
<1>6. CASE ~due
  <2>1. pc' = pc
    BY <1>2, <1>4, <1>6, Facts
  <2>2. Right' /\ (Coming => Coming') /\ Looking' = Looking
    BY <1>1, <1>2, <1>3, <2>1 DEF Right, Coming, Looking
  <2>3. Waiting => Waiting'
    <3> SUFFICES ASSUME Waiting, ~Looking, calm >= LookDue PROVE FALSE
      BY <1>2, <1>3, <2>2 DEF Waiting
    <3>a. /\ calm \in Int /\ Age.rxAge \in -Wrap .. ReceiveEvery /\ Wrap \in Nat
          /\ ConfigEvery \in Nat \ {0} /\ ReceiveEvery \in Nat \ {0}
      BY Facts
    <3>b. calm >= FrameDue /\ FrameDue \in Int
      BY <3>a DEF LookDue, FrameDue
    <3>c. Age.rxAge >= calm - FrameDue + 1 - Wrap \/ Age.rxAge = ReceiveEvery
      BY <3>b DEF Waiting
    <3>1. Age.rxAge = ReceiveEvery
      BY <3>a, <3>c DEF LookDue, FrameDue
    <3>2. Age.rxAge >= ReceiveEvery
      BY <3>1, Facts
    <3>3. \E u \in Thread : pc[u] = "mark"
      BY <1>4, <1>6, <3>2 DEF Loaded
    <3> QED
      BY <3>3 DEF Looking
  <2> QED
    BY <1>1, <1>2, <1>3, <2>2, <2>3
<1> QED
  BY <1>5, <1>6

\* A getter that looks, whatever becomes of the time point.
LEMMA MarkBack ==
  ASSUME TypeInv, BackInv, NEW t \in Thread, MarkRx(t)
  PROVE  BackInv'
<1> SUFFICES ASSUME calm >= 1, handleList # None
             PROVE  Right' /\ (sensor = Settings' \/ Coming' \/ Waiting')
  BY DEF BackInv, MarkRx, objects
<1> USE DEF objects
<1>1. Right /\ (sensor = Settings \/ Coming \/ Waiting)
  BY DEF BackInv
<1>2. /\ handle[t] = handleList /\ pc[t] = "mark" /\ pc' = [pc EXCEPT ![t] = "queue"]
      /\ UNCHANGED <<handleList, data, bus, sensor, polled, calm>>
  BY TheOne DEF MarkRx, Goto, TypeInv
<1>3. PICK y \in {0, -Wrap, ReceiveEvery} : obj' = [obj EXCEPT ![handle[t]].rxAge = y]
  BY DEF MarkRx
<1>4. Age' = [Age EXCEPT !.rxAge = y] /\ y \in RxAge
  BY <1>2, <1>3, Ages, Facts DEF Age
<1>5. Settings' = Settings /\ Age'.txAge = Age.txAge
  BY <1>4, Ages, AgeType, ASettings, SettingsOf
<1>6. pc'[t] = "queue" /\ \A u \in Thread \ {t} : pc'[u] = pc[u]
  BY <1>2, Facts
<1>7. Right'
  BY <1>1, <1>2, <1>5, <1>6 DEF Right
<1>8. Coming => Coming'
  BY <1>2, <1>6 DEF Coming
<1>9. Looking'
  BY <1>6 DEF Looking
<1>10. Waiting => Waiting'
  BY <1>2, <1>5, <1>9 DEF Waiting
<1> QED
  BY <1>1, <1>2, <1>5, <1>7, <1>8, <1>10

\* A look begins a frame if it is time for one, or another thread has begun it.
LEMMA QueueBack ==
  ASSUME TypeInv, BackInv, NEW t \in Thread, QueueCfgMsg(t)
  PROVE  BackInv'
<1> SUFFICES ASSUME calm >= 1, handleList # None
             PROVE  Right' /\ (sensor = Settings' \/ Coming' \/ Waiting')
  BY DEF BackInv, QueueCfgMsg, Queued, objects
<1> USE DEF objects
<1>1. Right /\ (sensor = Settings \/ Coming \/ Waiting)
  BY DEF BackInv
<1>2. handle[t] = handleList /\ Mine(t) = Age /\ pc[t] = "queue"
  BY TheOne DEF QueueCfgMsg, TypeInv, Age
<1>3. PICK due \in BOOLEAN :
        /\ Queued(t, due)
        /\ due \/ Loaded(t, FALSE, Age.txAge >= ConfigEvery, "stamp")
  BY <1>2 DEF QueueCfgMsg
<1>4. /\ pc' = [pc EXCEPT ![t] = IF due THEN "stamp" ELSE "idle"]
      /\ UNCHANGED <<handleList, obj, data, bus, sensor, polled, calm>>
  BY <1>3 DEF QueueCfgMsg, Queued, Goto
<1>5. Settings' = Settings /\ Age' = Age
  BY <1>4 DEF Settings, Age
<1>6. pc'[t] = (IF due THEN "stamp" ELSE "idle") /\ \A u \in Thread \ {t} : pc'[u] = pc[u]
  BY <1>4, Facts
<1>7. Right'
  BY <1>1, <1>4, <1>5, <1>6 DEF Right
<1>8. Coming => Coming'
  BY <1>2, <1>4, <1>6 DEF Coming
<1>9. CASE due
  <2>1. Coming'
    BY <1>6, <1>9 DEF Coming
  <2> QED
    BY <1>7, <2>1
<1>10. CASE ~due /\ Age.txAge >= ConfigEvery
  <2>1. \E u \in Thread \ {t} : pc[u] = "stamp"
    BY <1>3, <1>10 DEF Loaded
  <2>2. Coming
    BY <2>1 DEF Coming
  <2> QED
    BY <1>7, <1>8, <2>2
<1>11. CASE ~due /\ ~(Age.txAge >= ConfigEvery)
  <2>1. Waiting => calm < FrameDue
    BY <1>11, Facts DEF Waiting, FrameDue
  <2>2. Waiting => ~(calm' >= FrameDue) /\ ~(calm' >= LookDue)
    BY <1>4, <2>1, Facts DEF FrameDue, LookDue
  <2>3. Waiting => Waiting'
    BY <1>4, <1>5, <2>2 DEF Waiting
  <2> QED
    BY <1>1, <1>4, <1>5, <1>7, <1>8, <2>3
<1> QED
  BY <1>9, <1>10, <1>11

\* A frame in the making, whatever becomes of the time point.
LEMMA StampBack ==
  ASSUME TypeInv, BackInv, NEW t \in Thread, StampTx(t)
  PROVE  BackInv'
<1> SUFFICES ASSUME calm >= 1, handleList # None PROVE Right' /\ Coming'
  BY DEF BackInv, StampTx, objects
<1> USE DEF objects
<1>1. Right
  BY DEF BackInv
<1>2. /\ handle[t] = handleList /\ pc' = [pc EXCEPT ![t] = "tx"]
      /\ UNCHANGED <<handleList, data, bus, sensor, calm>>
  BY TheOne DEF StampTx, Goto, TypeInv
<1>3. PICK x \in {0, -Wrap, ConfigEvery} : obj' = [obj EXCEPT ![handle[t]].txAge = x]
  BY DEF StampTx
<1>4. Age' = [Age EXCEPT !.txAge = x] /\ x \in TxAge
  BY <1>2, <1>3, Ages, Facts DEF Age
<1>5. Settings' = Settings
  BY <1>4, Ages, AgeType, ASettings, SettingsOf
<1>6. pc'[t] = "tx" /\ \A u \in Thread \ {t} : pc'[u] = pc[u]
  BY <1>2, Facts
<1>7. Right'
  BY <1>1, <1>2, <1>5, <1>6 DEF Right
<1>8. Coming'
  BY <1>6 DEF Coming
<1> QED
  BY <1>7, <1>8

\* The making of a frame.
LEMMA TxBack ==
  ASSUME TypeInv, BackInv, NEW t \in Thread, TxCfgMsg(t) \/ TxRest(t) \/ TxSend(t)
  PROVE  BackInv'
<1> SUFFICES ASSUME calm >= 1, handleList # None PROVE Right' /\ Coming'
  BY DEF BackInv, TxCfgMsg, TxRest, TxSend, objects
<1> USE DEF objects, Goto
<1>1. Right
  BY DEF BackInv
<1>2. handle[t] = handleList /\ Mine(t) = Age
  BY TheOne DEF TxCfgMsg, TxRest, TxSend, TypeInv, Age
<1>3. UNCHANGED <<handleList, obj>> /\ Settings' = Settings
  BY DEF TxCfgMsg, TxRest, TxSend, Settings
<1>4. data[t] \in Cfgs /\ Settings = [mode |-> Age.mode + 1, time |-> Clamp(Age.time), roi |-> Age.roi]
  BY Facts DEF Settings, Age, Cfg
<1>5. CASE TxCfgMsg(t)
  <2>1. /\ pc'[t] = "rest" /\ \A u \in Thread \ {t} : pc'[u] = pc[u] /\ data'[u] = data[u]
        /\ data'[t] = [data[t] EXCEPT !.time = Clamp(Age.time)] /\ bus' = bus
    BY <1>2, <1>5, Facts DEF TxCfgMsg
  <2>2. data'[t].time = Settings.time
    BY <1>4, <2>1 DEF Cfgs
  <2> QED
    BY <1>1, <1>3, <2>1, <2>2 DEF Right, Coming
<1>6. CASE TxRest(t)
  <2>1. /\ pc[t] = "rest" /\ pc'[t] = "send" /\ \A u \in Thread \ {t} : pc'[u] = pc[u] /\ data'[u] = data[u]
        /\ data'[t] = [data[t] EXCEPT !.mode = Age.mode + 1, !.roi = Age.roi] /\ bus' = bus
    BY <1>2, <1>6, Facts DEF TxRest
  <2>2. data[t].time = Settings.time
    BY <1>1, <2>1 DEF Right
  <2>3. data'[t] = Settings
    BY <1>4, <2>1, <2>2 DEF Cfgs
  <2> QED
    BY <1>1, <1>3, <2>1, <2>3 DEF Right, Coming
<1>7. CASE TxSend(t)
  <2>1. /\ pc[t] = "send" /\ pc'[t] = "idle" /\ \A u \in Thread \ {t} : pc'[u] = pc[u] /\ data'[u] = data[u]
        /\ bus' = Append(bus, data[t])
    BY <1>7, Facts DEF TxSend
  <2>2. data[t] = Settings
    BY <1>1, <2>1 DEF Right
  <2>3. bus' # <<>> /\ \A i \in DOMAIN bus' : bus'[i] = Settings
    <3>1. bus \in Seq(Cfgs) /\ data[t] \in Cfgs
      BY Facts
    <3> QED
      BY <1>1, <2>1, <2>2, <3>1, AppendProperties, LenProperties DEF Right
  <2> QED
    BY <1>1, <1>3, <2>1, <2>3 DEF Right, Coming
<1> QED
  BY <1>5, <1>6, <1>7

\* A frame that arrives has the settings.
LEMMA DeliverBack ==
  ASSUME TypeInv, BackInv, Deliver
  PROVE  BackInv'
<1> SUFFICES ASSUME calm >= 1, handleList # None PROVE Right' /\ sensor' = Settings'
  BY DEF BackInv, Deliver, objects
<1>1. Right /\ bus # <<>> /\ bus \in Seq(Cfgs)
  BY Facts DEF BackInv, Deliver
<1>2. UNCHANGED <<handleList, obj, pc, data>> /\ bus' = Tail(bus) /\ sensor' = Head(bus)
  BY DEF Deliver, objects, call
<1>3. Settings' = Settings
  BY <1>2 DEF Settings
<1>4. \A i \in DOMAIN bus' : bus'[i] = Settings
  BY <1>1, <1>2, HeadTailProperties, LenProperties, EmptySeq DEF Right
<1>5. sensor' = Settings
  <2>1. 1 \in DOMAIN bus /\ Head(bus) = bus[1]
    BY <1>1, LenProperties, EmptySeq
  <2> QED
    BY <1>1, <1>2, <2>1 DEF Right
<1> QED
  BY <1>1, <1>2, <1>3, <1>4, <1>5 DEF Right

\* Time goes by when no call is under way: everything that is waited for is a tick
\* closer.
LEMMA TickBack ==
  ASSUME TypeInv, BackInv, Tick
  PROVE  BackInv'
<1> SUFFICES ASSUME handleList # None
             PROVE  Right' /\ (sensor' = Settings' \/ Waiting')
  BY DEF BackInv, Tick, objects
<1>1. /\ \A t \in Thread : pc[t] = "idle" /\ pc'[t] = "idle"
      /\ bus = <<>> /\ bus' = <<>> /\ handleList' = handleList /\ polled < PollEvery
      /\ polled' = polled + 1 /\ calm' = Older(calm, Delay) /\ UNCHANGED <<sensor, data>>
  BY DEF Tick, Quiet, objects, call
<1> DEFINE x == Older(Age.txAge, ConfigEvery)
           y == Older(Age.rxAge, ReceiveEvery)
<1>2. x \in TxAge /\ y \in RxAge
  BY Facts DEF Older, TxAge, RxAge
<1>3. Age' = [Age EXCEPT !.txAge = x, !.rxAge = y]
  <2>1. handleList \in Thread
    BY Facts
  <2>2. obj'[handleList] = [obj[handleList] EXCEPT !.txAge = Older(@, ConfigEvery),
                                                  !.rxAge = Older(@, ReceiveEvery)]
    BY <2>1 DEF Tick
  <2> QED
    BY <1>1, <2>2 DEF Age
<1> HIDE DEF x, y
<1>4. Settings' = Settings /\ Age'.txAge = x /\ Age'.rxAge = y
  <2>1. Age \in Obj
    BY AgeType
  <2>2. Cfg(Age') = Cfg(Age) /\ Age'.txAge = x /\ Age'.rxAge = y
    BY <1>2, <1>3, <2>1 DEF Obj, Cfg
  <2> QED
    BY <2>2, ASettings
<1>5. Right' /\ ~Coming /\ ~Looking
  BY <1>1 DEF Right, Coming, Looking
<1>6. Delay = LookDue + PollEvery /\ LookDue \in Nat /\ FrameDue \in Nat
      /\ FrameDue >= 1 + Wrap /\ LookDue >= FrameDue /\ LookDue = FrameDue + Wrap + (ReceiveEvery - 1)
  BY TimeOfFlightConstants DEF Delay, LookDue, FrameDue
<1>7. x = (IF Age.txAge < ConfigEvery THEN Age.txAge + 1 ELSE Age.txAge)
      /\ y = (IF Age.rxAge < ReceiveEvery THEN Age.rxAge + 1 ELSE Age.rxAge)
      /\ calm' = (IF calm < Delay THEN calm + 1 ELSE calm)
  BY <1>1 DEF x, y, Older
<1>8. /\ Age.txAge \in -Wrap .. ConfigEvery /\ Age.rxAge \in -Wrap .. ReceiveEvery
      /\ calm \in 0 .. Delay /\ polled \in 0 .. PollEvery /\ Wrap \in Nat
      /\ ConfigEvery \in Nat \ {0} /\ ReceiveEvery \in Nat \ {0} /\ PollEvery \in Nat \ {0}
  BY Facts
<1>9. y = ReceiveEvery \/ y = Age.rxAge + 1
  BY <1>7, <1>8
<1>10. CASE calm = 0
  <2>1. calm' = 1 /\ (x >= 1 - Wrap) /\ (y >= 1 - Wrap) /\ polled' >= 1
    BY <1>1, <1>6, <1>7, <1>8, <1>10, TimeOfFlightConstants
  <2>2. /\ x >= calm' - Wrap
        /\ calm' >= FrameDue => y >= calm' - FrameDue + 1 - Wrap
        /\ calm' >= LookDue => polled' >= calm' - LookDue + 1
    BY <1>1, <1>6, <1>8, <2>1
  <2> QED
    BY <1>4, <1>5, <2>2 DEF Waiting, FrameDue, LookDue
<1>11. CASE calm >= 1 /\ sensor # Settings
  <2>1. /\ Age.txAge >= calm - Wrap \/ Age.txAge = ConfigEvery
        /\ calm >= FrameDue =>
             Age.rxAge >= calm - FrameDue + 1 - Wrap \/ Age.rxAge = ReceiveEvery
        /\ calm >= LookDue => polled >= calm - LookDue + 1
    BY <1>5, <1>11 DEF BackInv, Waiting
  <2>2. calm < Delay
    BY <1>1, <1>6, <1>8, <2>1
  <2>3. calm' = calm + 1
    BY <1>7, <2>2
  <2>4. x >= calm' - Wrap \/ x = ConfigEvery
    BY <1>7, <1>8, <2>1, <2>3
  <2>5. calm' >= FrameDue => y >= calm' - FrameDue + 1 - Wrap \/ y = ReceiveEvery
    <3>1. CASE calm >= FrameDue
      BY <1>6, <1>7, <1>8, <2>1, <2>3, <1>9, <3>1
    <3>2. CASE ~(calm >= FrameDue)
      BY <1>6, <1>8, <2>3, <1>9, <3>2
    <3> QED
      BY <3>1, <3>2
  <2>6. calm' >= LookDue => polled' >= calm' - LookDue + 1
    BY <1>1, <1>6, <1>8, <2>1, <2>3
  <2> QED
    BY <1>4, <1>5, <2>4, <2>5, <2>6 DEF Waiting, FrameDue, LookDue
<1>12. CASE calm >= 1 /\ sensor = Settings
  BY <1>1, <1>4, <1>5, <1>12
<1> QED
  BY <1>1, <1>8, <1>10, <1>11, <1>12

LEMMA BackStep ==
  ASSUME TypeInv, TypeInv', BackInv, [Next]_vars
  PROVE  BackInv'
<1>1. CASE UNCHANGED vars
  BY <1>1 DEF vars, objects, call, BackInv, Right, Coming, Waiting, Looking, Settings, Age
<1>2. ASSUME NEW t \in Thread,
             \/ Create(t) \/ \E m \in Mode, x \in SampleTime : SetRangingMode(t, m, x)
             \/ \E r \in Roi : SetRangeOfInterest(t, r)
      PROVE  BackInv'
  <2>1. calm' = 0
    BY <1>2 DEF Create, SetRangingMode, SetRangeOfInterest
  <2> QED
    BY <2>1 DEF BackInv
<1>3. CASE Lose \/ Restart
  BY <1>3 DEF BackInv, Lose, Restart
<1>4. ASSUME NEW t \in Thread, Destroy(t) PROVE BackInv'
  BY <1>4 DEF BackInv, Destroy
\* No time has passed since the settings began to change.
<1>5. ASSUME NEW t \in Thread, CompareTime(t) \/ StoreMode(t) \/ StoreTime(t) \/ StoreRoi(t)
      PROVE  BackInv'
  <2>1. handleList # None /\ UNCHANGED <<handleList, calm>>
    BY <1>5, TheOne DEF CompareTime, StoreMode, StoreTime, StoreRoi, objects, TypeInv
  <2>2. pc[t] \in {"compare", "mode", "time", "roi"}
    BY <1>5 DEF CompareTime, StoreMode, StoreTime, StoreRoi
  <2>3. ~(calm >= 1)
    BY <2>1, <2>2 DEF BackInv, Right
  <2> QED
    BY <2>1, <2>3 DEF BackInv
<1> QED
  BY <1>1, <1>2, <1>3, <1>4, <1>5, ExecuteBack, MarkBack, QueueBack, StampBack, TxBack,
     DeliverBack, TickBack
  DEF Next, Step

LEMMA BackInit == Init => BackInv
BY DEF Init, BackInv

\* After a loss, a power failure or a change, the sensor has the settings of the object
\* after ConfigEvery + ReceiveEvery - 1 + PollEvery at the latest, and 2 * Wrap more
\* where time points are torn (TimeOfFlightImpl.h:78-80), whatever any number of
\* threads did meanwhile: for all periods and settings (TimeOfFlightImpl.cpp:77-163).
THEOREM BackInTime == Spec => []SettingsBackInTime
<1>1. TypeInv /\ BackInv /\ [Next]_vars => TypeInv' /\ BackInv'
  BY TypeStep, BackStep
<1>2. TypeInv /\ BackInv => SettingsBackInTime
  <2> SUFFICES ASSUME TypeInv, BackInv, calm = Delay, handleList # None, Quiet, bus = <<>>
               PROVE  sensor = Settings
    BY DEF SettingsBackInTime, Settled, Settings
  <2>a. /\ Wrap \in Nat /\ ConfigEvery \in Nat \ {0} /\ ReceiveEvery \in Nat \ {0}
        /\ PollEvery \in Nat \ {0}
    BY TimeOfFlightConstants
  <2>b. calm = LookDue + PollEvery /\ LookDue \in Nat /\ polled \in 0 .. PollEvery
    BY <2>a, Facts DEF Delay, LookDue, FrameDue
  <2>1. calm >= 1 /\ calm >= LookDue /\ ~(polled >= calm - LookDue + 1)
    BY <2>a, <2>b
  <2>2. ~Coming /\ ~Looking
    BY DEF Quiet, Coming, Looking
  <2>3. ~Waiting
    BY <2>1, <2>2 DEF Waiting
  <2> QED
    BY <2>1, <2>2, <2>3 DEF BackInv
<1> QED
  BY TypeInit, BackInit, <1>1, <1>2, PTL DEF Spec
=============================================================================
