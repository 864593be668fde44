---------------------------- MODULE TimeOfFlight ----------------------------
(***************************************************************************)
(* The configuration of a time of flight sensor.  A program gets the one   *)
(* object of the sensor by TimeOfFlight_Create, sets the ranging mode, the *)
(* sample time and the region of interest, and calls the getters, most of  *)
(* which run ExecuteTask first.  The configuration is sent when it is      *)
(* changed and, as nothing is acknowledged, again whenever the last one    *)
(* was sent ConfigEvery ago.                                               *)
(*                                                                         *)
(* Threads of the program share the object.  Its members are atomics, each *)
(* stored and loaded by itself, but for the time points, which are plain   *)
(* numbers of 64 bits.  A 32-bit build stores one in two halves: two       *)
(* stores at once may leave it torn, 2^32 ns ahead of the time or behind   *)
(* it, and a load that meets a store may yield anything.                   *)
(*                                                                         *)
(* Create and Destroy are called while nothing else is, and Destroy by the *)
(* last one who has the handle.  A call and a frame take less than a tick. *)
(* The corners of the region are taken as one member.  What the getters    *)
(* then read is left out, but for the time they take it from: see          *)
(* GaugeConnection.                                                        *)
(***************************************************************************)
EXTENDS Integers, Sequences

CONSTANTS
  Thread,       \* threads of the program
  NaN,          \* a number that stands for the double that is none
  MinTime, MaxTime,  \* 10.0 and 999.0, in ms
  Mode, SampleTime, Roi,  \* what may be asked for
  DefaultTime, DefaultRoi, \* the members of a new object
  ReceiveEvery, \* 10 ms, in ticks
  ConfigEvery,  \* 400 ms, in ticks
  PollEvery,    \* the program runs ExecuteTask that often, in ticks
  Wrap,         \* 2^32 ns, in ticks, or 0 where 64 bits are stored at once
  MaxSets, MaxTroubles, MaxTears  \* bounds, the last for each tick

ASSUME TimeOfFlightConstants ==
  /\ MinTime \in Nat /\ MaxTime \in Nat /\ MinTime <= MaxTime
  /\ NaN \in Int \ (0 .. MaxTime)
  /\ Mode \subseteq Nat /\ SampleTime \subseteq Int /\ DefaultTime \in MinTime .. MaxTime
  /\ ReceiveEvery \in Nat \ {0} /\ ConfigEvery \in Nat \ {0} /\ PollEvery \in Nat \ {0}
  /\ Wrap \in Nat /\ (Wrap # 0 => Wrap >= ReceiveEvery /\ Wrap >= ConfigEvery)
  /\ MaxSets \in Nat /\ MaxTroubles \in Nat /\ MaxTears \in Nat

VARIABLES
  handleList,  \* the object created for the sensor, or None
  handle,      \* the object each thread has, or None
  obj,         \* members of the objects
  pc, arg, changed, data, \* of the call each thread is in
  clash,       \* has another thread stored the time point that each is storing?
  bus,         \* RangingCfg frames under way
  sensor,      \* the configuration the sensor has
  polled,      \* ticks since the last ExecuteTask
  calm,        \* history: ticks since the last change or trouble
  sets, troubles, \* how many there have been
  tears        \* time points torn since the last tick

objects == <<handleList, handle>>
call == <<pc, arg, changed, data, clash>>
bounds == <<sets, troubles, tears>>
vars == <<objects, obj, call, bus, sensor, polled, calm, bounds>>

None == "none"
\* Longer than any time between two frames: the last look before a frame is due comes
\* just too early, a getter comes just too early for another look, and either time
\* point may be ahead.
Delay == ConfigEvery + (ReceiveEvery - 1) + PollEvery + 2 * Wrap

\* Threads name the objects they create.
NewObject == [mode |-> 0, time |-> DefaultTime, roi |-> DefaultRoi,
              txAge |-> ConfigEvery, rxAge |-> ReceiveEvery]

\* not-a-number, then the limits, which are not the 24 and 1000 of
\* TimeOfFlightApi.h:119-121.
Clamp(x) == LET y == IF x = NaN THEN 0 ELSE x IN
            IF y > MaxTime THEN MaxTime ELSE IF y < MinTime THEN MinTime ELSE y

\* The frame with the members of an object.
Cfg(o) == [mode |-> o.mode + 1, time |-> Clamp(o.time), roi |-> o.roi]
Cfgs == [mode : {m + 1 : m \in Mode \cup {0}}, roi : Roi \cup {DefaultRoi},
         time : MinTime .. MaxTime]
Blank == Cfg(NewObject)
Unset == [mode |-> 0, time |-> 0, roi |-> DefaultRoi]
\* What a sensor has when it gets power.
Factory == [Blank EXCEPT !.time = MinTime]

Init ==
  /\ handleList = None /\ handle = [t \in Thread |-> None] /\ obj = [t \in Thread |-> NewObject]
  /\ pc = [t \in Thread |-> "idle"] /\ arg = [t \in Thread |-> Unset]
  /\ changed = [t \in Thread |-> FALSE] /\ data = [t \in Thread |-> Blank]
  /\ clash = [t \in Thread |-> FALSE]
  /\ bus = <<>> /\ sensor = Factory
  /\ polled = 0 /\ calm = 0 /\ sets = 0 /\ troubles = 0 /\ tears = 0

Quiet == \A t \in Thread : pc[t] = "idle"
Idle(t) == pc[t] = "idle" /\ handle[t] # None
Goto(t, l) == pc' = [pc EXCEPT ![t] = l]
Mine(t) == obj[handle[t]]

-----------------------------------------------------------------------------
(* The handle table. *)

Create(t) ==
  /\ Quiet /\ handle[t] = None
  /\ IF handleList # None THEN UNCHANGED <<handleList, obj>>
     ELSE obj' = [obj EXCEPT ![t] = NewObject] /\ handleList' = t
  /\ handle' = [handle EXCEPT ![t] = handleList']
  /\ polled' = 0 /\ calm' = 0
  /\ UNCHANGED <<call, bus, sensor, bounds>>

Destroy(t) ==
  /\ Quiet /\ handle[t] # None /\ \A u \in Thread \ {t} : handle[u] # handle[t]
  /\ sets < MaxSets /\ sets' = sets + 1
  /\ obj' = [obj EXCEPT ![handle[t]] = NewObject] /\ handleList' = None
  /\ handle' = [handle EXCEPT ![t] = None]
  /\ UNCHANGED <<call, bus, sensor, polled, calm, troubles, tears>>

-----------------------------------------------------------------------------
(* Setters. *)

\* SetRangingMode compares both members, then stores both.
SetRangingMode(t, mode, time) ==
  /\ Idle(t) /\ sets < MaxSets
  /\ changed' = [changed EXCEPT ![t] = Mine(t).mode # mode]
  /\ arg' = [arg EXCEPT ![t] = [Unset EXCEPT !.mode = mode, !.time = time]]
  /\ Goto(t, "compare")
  /\ calm' = 0 /\ sets' = sets + 1
  /\ UNCHANGED <<objects, obj, data, clash, bus, sensor, polled, troubles, tears>>

\* A NaN differs from itself.
CompareTime(t) ==
  /\ pc[t] = "compare" /\ Goto(t, "mode")
  /\ changed' = [changed EXCEPT ![t] = @ \/ Mine(t).time # arg[t].time \/ arg[t].time = NaN]
  /\ UNCHANGED <<objects, obj, arg, data, clash, bus, sensor, polled, calm, bounds>>

StoreMode(t) ==
  /\ pc[t] = "mode" /\ Goto(t, "time")
  /\ obj' = [obj EXCEPT ![handle[t]].mode = arg[t].mode]
  /\ UNCHANGED <<objects, arg, changed, data, clash, bus, sensor, polled, calm, bounds>>

StoreTime(t) ==
  /\ pc[t] = "time" /\ Goto(t, "queue")
  /\ obj' = [obj EXCEPT ![handle[t]].time = arg[t].time]
  /\ arg' = [arg EXCEPT ![t] = Unset]
  /\ UNCHANGED <<objects, changed, data, clash, bus, sensor, polled, calm, bounds>>

SetRangeOfInterest(t, roi) ==
  /\ Idle(t) /\ sets < MaxSets
  /\ changed' = [changed EXCEPT ![t] = Mine(t).roi # roi]
  /\ arg' = [arg EXCEPT ![t] = [Unset EXCEPT !.roi = roi]] /\ Goto(t, "roi")
  /\ calm' = 0 /\ sets' = sets + 1
  /\ UNCHANGED <<objects, obj, data, clash, bus, sensor, polled, troubles, tears>>

StoreRoi(t) ==
  /\ pc[t] = "roi" /\ Goto(t, "queue")
  /\ obj' = [obj EXCEPT ![handle[t]].roi = arg[t].roi]
  /\ arg' = [arg EXCEPT ![t] = Unset]
  /\ UNCHANGED <<objects, changed, data, clash, bus, sensor, polled, calm, bounds>>

-----------------------------------------------------------------------------
(* The time points.  At label l a thread is about to store one, or amid it. *)

\* One half each of two times that have a multiple of 2^32 ns between them.
Torn == Wrap # 0 /\ tears < MaxTears /\ tears' = tears + 1

\* Does a time point lie far enough back, as a thread loads it?
Loaded(t, due, late, l) ==
  \/ due = late /\ UNCHANGED tears
  \/ due # late /\ (\E u \in Thread \ {t} : pc[u] = l) /\ Torn

\* Its age after a store.
Stored(t, age, limit) ==
  \/ age = 0 /\ UNCHANGED tears
  \/ age \in {-Wrap, limit} /\ clash[t] /\ Torn
Clashed(t) == clash' = [u \in Thread |-> u # t /\ (clash[u] \/ pc[u] = pc[t])]

\* A getter.  Within ReceiveEvery of the last one nothing is looked at.
ExecuteTask(t) ==
  /\ Idle(t) /\ polled' = 0
  /\ \E due \in BOOLEAN :
       /\ Loaded(t, due, Mine(t).rxAge >= ReceiveEvery, "mark")
       /\ Goto(t, IF due THEN "mark" ELSE "idle")
  /\ UNCHANGED <<objects, obj, arg, changed, data, clash, bus, sensor, calm, sets, troubles>>

MarkRx(t) ==
  /\ pc[t] = "mark" /\ Goto(t, "queue") /\ Clashed(t)
  /\ \E age \in {0, -Wrap, ReceiveEvery} :
       Stored(t, age, ReceiveEvery) /\ obj' = [obj EXCEPT ![handle[t]].rxAge = age]
  /\ changed' = [changed EXCEPT ![t] = FALSE]
  /\ UNCHANGED <<objects, arg, data, bus, sensor, polled, calm, sets, troubles>>

Queued(t, due) ==
  /\ Goto(t, IF due THEN "stamp" ELSE "idle")
  /\ changed' = [changed EXCEPT ![t] = FALSE]
  /\ UNCHANGED <<objects, arg, data, clash, bus, sensor, polled, calm, sets, troubles>>

\* Mutant of QueueCfgMsg: every look starts the time anew.
QueueCfgMsgPutsOff(t) ==
  /\ pc[t] = "queue" /\ Queued(t, changed[t] \/ Mine(t).txAge >= ConfigEvery)
  /\ obj' = [obj EXCEPT ![handle[t]].txAge = 0] /\ UNCHANGED tears

\* Mutant of QueueCfgMsg: a configuration is sent when it is changed, and never again.
QueueCfgMsgOnce(t) == pc[t] = "queue" /\ Queued(t, changed[t]) /\ UNCHANGED <<obj, tears>>

QueueCfgMsg(t) ==
  /\ pc[t] = "queue" /\ UNCHANGED obj
  /\ \/ changed[t] /\ Queued(t, TRUE) /\ UNCHANGED tears
     \/ ~changed[t] /\ \E due \in BOOLEAN :
          Loaded(t, due, Mine(t).txAge >= ConfigEvery, "stamp") /\ Queued(t, due)

StampTx(t) ==
  /\ pc[t] = "stamp" /\ Goto(t, "tx") /\ Clashed(t)
  /\ \E age \in {0, -Wrap, ConfigEvery} :
       Stored(t, age, ConfigEvery) /\ obj' = [obj EXCEPT ![handle[t]].txAge = age]
  /\ UNCHANGED <<objects, arg, changed, data, bus, sensor, polled, calm, sets, troubles>>

-----------------------------------------------------------------------------
(* The frame. *)

\* Mutant of TxCfgMsg: the sample time is sent as it was asked for.
TxCfgMsgUnclamped(t) ==
  /\ pc[t] = "tx" /\ data' = [data EXCEPT ![t].time = Mine(t).time] /\ Goto(t, "rest")
  /\ UNCHANGED <<objects, obj, arg, changed, clash, bus, sensor, polled, calm, bounds>>

\* The sample time is read first, then the others, and then the frame is sent.
TxCfgMsg(t) ==
  /\ pc[t] = "tx" /\ data' = [data EXCEPT ![t].time = Clamp(Mine(t).time)] /\ Goto(t, "rest")
  /\ UNCHANGED <<objects, obj, arg, changed, clash, bus, sensor, polled, calm, bounds>>
TxRest(t) ==
  /\ pc[t] = "rest" /\ Goto(t, "send")
  /\ data' = [data EXCEPT ![t].mode = Mine(t).mode + 1, ![t].roi = Mine(t).roi]
  /\ UNCHANGED <<objects, obj, arg, changed, clash, bus, sensor, polled, calm, bounds>>
TxSend(t) ==
  /\ pc[t] = "send" /\ Goto(t, "idle") /\ bus' = Append(bus, data[t])
  /\ data' = [data EXCEPT ![t] = Blank]
  /\ UNCHANGED <<objects, obj, arg, changed, clash, sensor, polled, calm, bounds>>

-----------------------------------------------------------------------------
(* The sensor, the bus and the time. *)

Deliver ==
  /\ bus # <<>> /\ sensor' = Head(bus) /\ bus' = Tail(bus)
  /\ UNCHANGED <<objects, obj, call, polled, calm, bounds>>

\* A frame is lost.
Lose ==
  /\ bus # <<>> /\ bus' = Tail(bus) /\ calm' = 0
  /\ UNCHANGED <<objects, obj, call, sensor, polled, bounds>>

\* The sensor loses power, and the configuration with it.
Restart ==
  /\ troubles < MaxTroubles /\ troubles' = troubles + 1
  /\ sensor' = Factory /\ calm' = 0
  /\ UNCHANGED <<objects, obj, call, bus, polled, sets, tears>>

Older(age, limit) == IF age < limit THEN age + 1 ELSE age

\* The program keeps calling getters while it has a handle.
Tick ==
  /\ Quiet /\ bus = <<>> /\ (handleList # None => polled < PollEvery)
  /\ obj' = [t \in Thread |-> [obj[t] EXCEPT !.txAge = Older(@, ConfigEvery),
                                             !.rxAge = Older(@, ReceiveEvery)]]
  /\ polled' = IF handleList = None THEN 0 ELSE polled + 1
  /\ calm' = Older(calm, Delay) /\ tears' = 0
  /\ UNCHANGED <<objects, call, bus, sensor, sets, troubles>>

Step(t) ==
  \/ CompareTime(t) \/ StoreMode(t) \/ StoreTime(t) \/ StoreRoi(t) \/ MarkRx(t)
  \/ QueueCfgMsg(t) \/ StampTx(t) \/ TxCfgMsg(t) \/ TxRest(t) \/ TxSend(t)
Next ==
  \/ \E t \in Thread :
       \/ Create(t) \/ Destroy(t) \/ ExecuteTask(t) \/ Step(t)
       \/ \E m \in Mode, x \in SampleTime : SetRangingMode(t, m, x)
       \/ \E r \in Roi : SetRangeOfInterest(t, r)
  \/ Deliver \/ Lose \/ Restart \/ Tick

\* Calls return, time passes, the program polls, and the bus does not lose every frame.
Fairness ==
  /\ \A t \in Thread : WF_vars(Step(t)) /\ WF_vars(ExecuteTask(t))
  /\ WF_vars(Tick) /\ WF_vars(Deliver \/ Lose) /\ SF_vars(Deliver)
Spec == Init /\ [][Next]_vars /\ Fairness

-----------------------------------------------------------------------------
Label == {"idle", "compare", "mode", "time", "roi", "mark", "queue", "stamp",
          "tx", "rest", "send"}
TypeOK ==
  /\ handleList \in Thread \cup {None} /\ handle \in [Thread -> Thread \cup {None}]
  /\ \A t \in Thread : /\ obj[t].txAge \in -Wrap .. ConfigEvery
                       /\ obj[t].rxAge \in -Wrap .. ReceiveEvery
  /\ pc \in [Thread -> Label] /\ changed \in [Thread -> BOOLEAN] /\ clash \in [Thread -> BOOLEAN]
  /\ sensor \in Cfgs /\ polled \in 0 .. PollEvery /\ calm \in 0 .. Delay
  /\ \A i \in DOMAIN bus : bus[i] \in Cfgs

\* The program and the bus have been left alone for so long that the sensor has been
\* sent the settings again.
Settled == calm = Delay /\ handleList # None /\ Quiet /\ bus = <<>>

\* A sensor that lost power, or a frame, has its settings back after the 400 ms, the
\* 10 ms in which getters look at nothing, one round of the program, and what torn
\* time points were ahead: whatever mixture of old and new settings the threads sent,
\* in whatever order, and however their stores of the time points met
\* (TimeOfFlightImpl.h:78-80, TimeOfFlightImpl.cpp:77-163).
SettingsBackInTime == Settled => sensor = Cfg(obj[handleList])

\* Once the settings rest, the sensor comes to have them and keeps them, whoever set
\* them and however many frames are lost: all threads have the one object, and it
\* sends again and again (TimeOfFlightApi.cpp:12-43, TimeOfFlightImpl.cpp:123-130).
\* MaxSets and MaxTroubles make changes and power failures cease.
ConfigConverges ==
  <>[](handleList # None => sensor = Cfg(obj[handleList]))
=============================================================================
