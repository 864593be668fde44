---------------------------- MODULE HalCANProofs -----------------------------
(***************************************************************************)
(* Handles and the choice of the adapter while adapters are scanned,       *)
(* opened, set up and closed, for any size of the list and any number of   *)
(* URBs, whatever call fails.                                              *)
(***************************************************************************)
EXTENDS HalCAN, FiniteSetTheorems, TLAPS

-----------------------------------------------------------------------------
(* Types, in parts that the steps keep independently. *)

Flags == using \in BOOLEAN /\ trouble \in BOOLEAN /\ misclosed \in BOOLEAN

Control ==
  /\ pc \in {"scan", "enum", "open", "events", "arm", "close", "get", "bitrate",
             "start", "pcan", "run", "done"}
  /\ driver \in {"none", "pcan", "candle"}

\* An adapter that is looked at is one of the list.
Indices ==
  /\ i \in 0 .. MaxDevices /\ k \in 0 .. UrbCount /\ present \in 0 .. MaxDevices
  /\ pc \in {"open", "events", "arm", "close"} => i < MaxDevices

Entries == dev \in Device /\ first \in Device
Numbers == live \subseteq 1 .. next - 1 /\ next \in Nat \ {0} /\ unarmed \in Nat
Holders == holder \in [Dev -> Handle]
Chan == channel \subseteq {"1 Mbit/s", "started"}

Types == Flags /\ Control /\ Chan /\ Indices /\ Entries /\ Numbers /\ Holders

LEMMA FlagsInit == Init => Flags
BY Zenon DEF Init, Flags

LEMMA FlagsStep == Flags /\ [Next]_vars => Flags'
<1> SUFFICES ASSUME Flags, [Next]_vars PROVE Flags'
  OBVIOUS
<1>1. CASE Scan
  BY Zenon, <1>1 DEF Scan, Fail, Flags
<1>2. CASE Enum
  BY Zenon, <1>2 DEF Enum, Fail, Flags
<1>3. CASE GetFirst
  <2>1. (present > 0) \in BOOLEAN
    OBVIOUS
  <2> QED
    BY Zenon, <1>3, <2>1 DEF GetFirst, history, Flags
<1>4. CASE InternalOpen
  BY Zenon, <1>4 DEF InternalOpen, Fail, Flags
<1>5. CASE CreateTxEvents
  BY Zenon, <1>5 DEF CreateTxEvents, history, Flags
<1>6. CASE ArmRead
  BY Zenon, <1>6 DEF ArmRead, Fail, CloseAll, history, Flags
<1>7. CASE Opened
  BY Zenon, <1>7 DEF Opened, history, Flags
<1>8. CASE CloseScanned
  BY Zenon, <1>8 DEF CloseScanned, DevClose, CloseAll, Flags
<1>9. CASE SetBitrate \/ ChannelStart
  BY Zenon, <1>9 DEF SetBitrate, ChannelStart, SetUp, Fail, Flags
<1>10. CASE TryPCAN
  BY Zenon, <1>10 DEF TryPCAN, history, Flags
<1>11. CASE HalClose
  BY Zenon, <1>11 DEF HalClose, DevClose, CloseAll, Flags
<1>12. CASE \E d \in Dev : OtherProgram(d)
  BY Zenon, <1>12 DEF OtherProgram, history, Flags
<1>13. CASE UNCHANGED vars
  BY Zenon, <1>13 DEF vars, history, Flags
<1> QED
  BY <1>1, <1>2, <1>3, <1>4, <1>5, <1>6, <1>7, <1>8, <1>9, <1>10, <1>11, <1>12, <1>13 DEF Next, Open

LEMMA ControlStep == Control /\ Chan /\ [Next]_vars => Control' /\ Chan'
<1> SUFFICES ASSUME Control, Chan, [Next]_vars PROVE Control' /\ Chan'
  OBVIOUS
<1> USE DEF Control, Chan
<1>1. CASE Scan
  BY <1>1 DEF Scan
<1>2. CASE Enum
  BY <1>2 DEF Enum
<1>3. CASE GetFirst
  BY <1>3 DEF GetFirst
<1>4. CASE InternalOpen
  BY <1>4 DEF InternalOpen, NotOpened, Scanned
<1>5. CASE CreateTxEvents
  BY <1>5 DEF CreateTxEvents
<1>6. CASE ArmRead
  BY <1>6 DEF ArmRead, NotOpened, Scanned
<1>7. CASE Opened
  BY <1>7 DEF Opened
<1>8. CASE CloseScanned
  BY <1>8 DEF CloseScanned, Scanned
<1>9. CASE SetBitrate \/ ChannelStart
  BY <1>9 DEF SetBitrate, ChannelStart, SetUp
<1>10. CASE TryPCAN
  BY <1>10 DEF TryPCAN
<1>11. CASE HalClose
  BY <1>11 DEF HalClose
<1>12. CASE \E d \in Dev : OtherProgram(d)
  BY <1>12 DEF OtherProgram
<1>13. CASE UNCHANGED vars
  BY <1>13 DEF vars
<1> QED
  BY <1>1, <1>2, <1>3, <1>4, <1>5, <1>6, <1>7, <1>8, <1>9, <1>10, <1>11, <1>12, <1>13 DEF Next, Open

LEMMA Limits == MaxDevices \in Nat \ {0} /\ UrbCount \in Nat \ {0}
BY HalConstants

LEMMA IndicesStep == Indices /\ [Next]_vars => Indices'
<1> SUFFICES ASSUME Indices, [Next]_vars PROVE Indices'
  OBVIOUS
<1> USE Limits DEF Indices
<1>1. CASE Scan
  BY <1>1 DEF Scan
<1>2. CASE Enum
  BY <1>2 DEF Enum
<1>3. CASE GetFirst
  BY <1>3 DEF GetFirst
<1>4. CASE InternalOpen
  BY <1>4 DEF InternalOpen, NotOpened, Scanned
<1>5. CASE CreateTxEvents
  BY <1>5 DEF CreateTxEvents
<1>6. CASE ArmRead
  BY <1>6 DEF ArmRead, NotOpened, Scanned
<1>7. CASE Opened
  BY <1>7 DEF Opened
<1>8. CASE CloseScanned
  BY <1>8 DEF CloseScanned, Scanned
<1>9. CASE SetBitrate \/ ChannelStart
  BY <1>9 DEF SetBitrate, ChannelStart, SetUp
<1>10. CASE TryPCAN
  BY <1>10 DEF TryPCAN
<1>11. CASE HalClose
  BY <1>11 DEF HalClose
<1>12. CASE \E d \in Dev : OtherProgram(d)
  BY <1>12 DEF OtherProgram
<1>13. CASE UNCHANGED vars
  BY <1>13 DEF vars
<1> QED
  BY <1>1, <1>2, <1>3, <1>4, <1>5, <1>6, <1>7, <1>8, <1>9, <1>10, <1>11, <1>12, <1>13 DEF Next, Open

LEMMA NumbersStep == Numbers /\ Holders /\ [Next]_vars => Numbers' /\ Holders'
<1> SUFFICES ASSUME Numbers, Holders, [Next]_vars PROVE Numbers' /\ Holders'
  OBVIOUS
<1> USE DEF Numbers, Holders, kernel, history, Handle
<1>1. CASE Scan
  BY <1>1 DEF Scan
<1>2. CASE Enum
  BY <1>2 DEF Enum
<1>3. CASE GetFirst
  BY <1>3 DEF GetFirst
<1>4. CASE InternalOpen
  BY <1>4 DEF InternalOpen
<1>5. CASE CreateTxEvents
  BY <1>5 DEF CreateTxEvents
<1>6. CASE ArmRead
  BY <1>6 DEF ArmRead, CloseAll, Free
<1>7. CASE Opened
  BY <1>7 DEF Opened
<1>8. CASE CloseScanned
  BY <1>8 DEF CloseScanned, DevClose, CloseAll, Free
<1>9. CASE SetBitrate \/ ChannelStart
  BY <1>9 DEF SetBitrate, ChannelStart, SetUp
<1>10. CASE TryPCAN
  BY <1>10 DEF TryPCAN
<1>11. CASE HalClose
  BY <1>11 DEF HalClose, DevClose, CloseAll, Free
<1>12. CASE \E d \in Dev : OtherProgram(d)
  BY <1>12 DEF OtherProgram, Free, Other, INVALID
<1>13. CASE UNCHANGED vars
  BY <1>13 DEF vars
<1> QED
  BY <1>1, <1>2, <1>3, <1>4, <1>5, <1>6, <1>7, <1>8, <1>9, <1>10, <1>11, <1>12, <1>13 DEF Next, Open

LEMMA NoDeviceType == NoDevice \in Device
BY DEF NoDevice, NoEvents, Device, Handle, NULL

LEMMA CleanType ==
  ASSUME NEW d \in Device PROVE [d EXCEPT !.txevents = NULL, !.rxevents = NoEvents] \in Device
BY DEF NoEvents, Device, Handle, NULL

LEMMA HandleTypes ==
  ASSUME NEW d \in Device, NEW h \in Handle, NEW w \in Handle
  PROVE  /\ [d EXCEPT !.deviceHandle = h] \in Device
         /\ [d EXCEPT !.deviceHandle = h, !.winUSBHandle = w] \in Device
BY DEF Device

LEMMA EventTypes ==
  ASSUME NEW d \in Device, NEW h \in Handle, NEW u
  PROVE  [d EXCEPT !.txevents = h] \in Device /\ [d EXCEPT !.rxevents[u] = h] \in Device
BY DEF Device

LEMMA EntriesStep == Entries /\ Numbers /\ [Next]_vars => Entries'
<1> SUFFICES ASSUME Entries, Numbers, [Next]_vars PROVE Entries'
  OBVIOUS
<1> USE DEF Entries
<1>1. CASE Scan
  BY <1>1 DEF Scan
<1>2. CASE Enum
  BY <1>2, NoDeviceType DEF Enum
<1>3. CASE GetFirst
  BY <1>3 DEF GetFirst
<1>4. CASE InternalOpen
  <2>0. Cleared \in Device
    BY CleanType DEF Cleared
  <2>1. next \in Handle /\ next + 1 \in Handle /\ NULL \in Handle /\ INVALID \in Handle
    BY DEF Handle, NULL, Numbers
  <2>2. /\ [Cleared EXCEPT !.deviceHandle = INVALID] \in Device
        /\ [Cleared EXCEPT !.deviceHandle = NULL] \in Device
        /\ [Cleared EXCEPT !.deviceHandle = NULL, !.winUSBHandle = NULL] \in Device
        /\ [Cleared EXCEPT !.deviceHandle = next, !.winUSBHandle = next + 1] \in Device
    BY <2>0, <2>1, HandleTypes
  <2>3. \/ NotOpened([Cleared EXCEPT !.deviceHandle = INVALID])
        \/ NotOpened([Cleared EXCEPT !.deviceHandle = NULL])
        \/ NotOpened([Cleared EXCEPT !.deviceHandle = NULL, !.winUSBHandle = NULL])
        \/ dev' = [Cleared EXCEPT !.deviceHandle = next, !.winUSBHandle = next + 1] /\ first' = first
    BY <1>4 DEF InternalOpen
  <2>4. ASSUME NEW d \in Device, NotOpened(d) PROVE dev' \in Device /\ first' \in Device
    BY <2>4 DEF NotOpened, Scanned
  <2> QED
    BY <2>2, <2>3, <2>4
<1>5. CASE CreateTxEvents
  BY <1>5, EventTypes DEF CreateTxEvents, Handle, Numbers
<1>6. CASE ArmRead
  <2>1. [dev EXCEPT !.rxevents[k] = next] \in Device
    BY EventTypes DEF Handle, Numbers
  <2> QED
    BY <1>6, <2>1 DEF ArmRead, NotOpened, Scanned
<1>7. CASE Opened
  BY <1>7 DEF Opened
<1>8. CASE CloseScanned \/ HalClose
  <2>1. [dev EXCEPT !.deviceHandle = NULL, !.winUSBHandle = NULL] \in Device
    BY HandleTypes DEF Handle, NULL
  <2> QED
    BY <1>8, <2>1 DEF CloseScanned, DevClose, Scanned, HalClose
<1>9. CASE SetBitrate \/ ChannelStart
  BY <1>9 DEF SetBitrate, ChannelStart, SetUp
<1>10. CASE TryPCAN
  BY <1>10 DEF TryPCAN
<1>11. CASE \E d \in Dev : OtherProgram(d)
  BY <1>11 DEF OtherProgram
<1>12. CASE UNCHANGED vars
  BY <1>12 DEF vars
<1> QED
  BY <1>1, <1>2, <1>3, <1>4, <1>5, <1>6, <1>7, <1>8, <1>9, <1>10, <1>11, <1>12 DEF Next, Open

LEMMA TypesImply == Types => TypeOK
BY Zenon DEF Types, TypeOK, Flags, Control, Chan, Indices, Entries, Numbers, Holders

LEMMA TypesInit == Init => Types
<1>1. Init => Control /\ Chan
  BY DEF Init, Control, Chan
<1>2. Init => Indices
  BY Limits DEF Init, Indices
<1>3. Init => Entries
  BY NoDeviceType DEF Init, Entries
<1>4. Init => Numbers
  BY DEF Init, Numbers
<1>5. Init => Holders
  BY DEF Init, Holders, Handle, Free, Other, INVALID
<1> QED
  BY <1>1, <1>2, <1>3, <1>4, <1>5, FlagsInit DEF Types

LEMMA TypesStep == Types /\ [Next]_vars => Types'
BY FlagsStep, ControlStep, IndicesStep, NumbersStep, EntriesStep DEF Types

\* Every state of the scan, the opening and the set-up is well typed (halCAN.c:20-77,
\* candle.c:77-404).
THEOREM TypeCorrect == Spec => []TypeOK
BY TypesInit, TypesStep, TypesImply, PTL DEF Spec

-----------------------------------------------------------------------------
(* Handles. *)

\* An adapter is open, for the scan or for use.
Opening == {"events", "arm", "close", "bitrate", "start"}
IsOpen == pc \in Opening \/ (pc = "run" /\ driver = "candle")
Held(d) == Events(d) \cup Handles(d)
HeldNow == IF IsOpen THEN Held(dev) ELSE {}

DriverInv ==
  /\ driver = "candle" => pc \in {"bitrate", "start", "run", "done"}
  /\ pc \in {"bitrate", "start"} => driver = "candle"

\* What the entry at work holds is open, and no URB from k on has an event yet.
OpenInv ==
  /\ HeldNow \subseteq live
  /\ IsOpen => dev.deviceHandle \in Nat \ {0}
  /\ pc = "events" => Events(dev) = {}
  /\ pc = "arm" => \A u \in Urb : u >= k => dev.rxevents[u] = NULL

LEMMA DriverStep == DriverInv /\ [Next]_vars => DriverInv'
<1> SUFFICES ASSUME DriverInv, [Next]_vars PROVE DriverInv'
  OBVIOUS
<1> USE DEF DriverInv
<1>1. CASE Scan
  BY <1>1 DEF Scan
<1>2. CASE Enum
  BY <1>2 DEF Enum
<1>3. CASE GetFirst
  BY <1>3 DEF GetFirst
<1>4. CASE InternalOpen
  BY <1>4 DEF InternalOpen, NotOpened, Scanned
<1>5. CASE CreateTxEvents
  BY <1>5 DEF CreateTxEvents
<1>6. CASE ArmRead
  BY <1>6 DEF ArmRead, NotOpened, Scanned
<1>7. CASE Opened
  BY <1>7 DEF Opened
<1>8. CASE CloseScanned
  BY <1>8 DEF CloseScanned, Scanned
<1>9. CASE SetBitrate \/ ChannelStart
  BY <1>9 DEF SetBitrate, ChannelStart, SetUp
<1>10. CASE TryPCAN
  BY <1>10 DEF TryPCAN
<1>11. CASE HalClose
  BY <1>11 DEF HalClose
<1>12. CASE \E d \in Dev : OtherProgram(d)
  BY <1>12 DEF OtherProgram
<1>13. CASE UNCHANGED vars
  BY <1>13 DEF vars
<1> QED
  BY <1>1, <1>2, <1>3, <1>4, <1>5, <1>6, <1>7, <1>8, <1>9, <1>10, <1>11, <1>12, <1>13 DEF Next, Open

\* What setting a field of an entry does to what it holds.
LEMMA HeldCleared ==
  ASSUME NEW d \in Device, d.txevents = NULL, d.rxevents = NoEvents
  PROVE  Events(d) = {}
BY DEF Events, NoEvents

LEMMA HeldTx ==
  ASSUME NEW d \in Device, Events(d) = {}, NEW h \in Nat \ {0}
  PROVE  LET e == [d EXCEPT !.txevents = h] IN
         /\ Held(e) = Held(d) \cup {h}
         /\ e.deviceHandle = d.deviceHandle
         /\ \A u \in Urb : e.rxevents[u] = NULL
<1> DEFINE e == [d EXCEPT !.txevents = h]
<1>1. e.txevents = h /\ e.rxevents = d.rxevents /\ Handles(e) = Handles(d) /\ e.deviceHandle = d.deviceHandle
  BY DEF Device, Handles
<1>2. \A u \in Urb : d.rxevents[u] = NULL
  BY DEF Events
<1> HIDE DEF e
<1>3. Events(e) = {h}
  BY <1>1, <1>2 DEF Events, NULL
<1> QED
  BY <1>1, <1>2, <1>3 DEF Held, e

LEMMA HeldRx ==
  ASSUME NEW d \in Device, NEW u \in Urb, d.rxevents[u] = NULL, NEW h \in Nat \ {0}
  PROVE  LET e == [d EXCEPT !.rxevents[u] = h] IN
         /\ Events(e) = Events(d) \cup {h} /\ Handles(e) = Handles(d)
         /\ e.deviceHandle = d.deviceHandle
         /\ \A v \in Urb : v # u => e.rxevents[v] = d.rxevents[v]
<1> DEFINE e == [d EXCEPT !.rxevents[u] = h]
<1>1. e.txevents = d.txevents /\ Handles(e) = Handles(d) /\ e.deviceHandle = d.deviceHandle
  BY DEF Device, Handles
<1>2. e.rxevents[u] = h /\ \A v \in Urb : v # u => e.rxevents[v] = d.rxevents[v]
  BY DEF Device
<1> HIDE DEF e
<1>3. Events(e) = Events(d) \cup {h}
  BY <1>1, <1>2 DEF Events, NULL
<1> QED
  BY <1>1, <1>2, <1>3 DEF e

LEMMA HandlesTwo ==
  ASSUME NEW d
  PROVE  IsFiniteSet(Handles(d)) /\ Cardinality(Handles(d)) <= 2
<1>1. IsFiniteSet({d.deviceHandle, d.winUSBHandle}) /\ Cardinality({d.deviceHandle, d.winUSBHandle}) <= 2
  <2>1. IsFiniteSet({d.deviceHandle}) /\ Cardinality({d.deviceHandle}) = 1
    BY FS_Singleton
  <2>2. {d.deviceHandle, d.winUSBHandle} = {d.deviceHandle} \cup {d.winUSBHandle}
    OBVIOUS
  <2> QED
    BY <2>1, <2>2, FS_AddElement
<1>2. Handles(d) \subseteq {d.deviceHandle, d.winUSBHandle}
  BY DEF Handles
<1>3. IsFiniteSet(Handles(d)) /\ Cardinality(Handles(d)) <= Cardinality({d.deviceHandle, d.winUSBHandle})
  BY <1>1, <1>2, FS_Subset
<1>4. Cardinality(Handles(d)) \in Nat /\ Cardinality({d.deviceHandle, d.winUSBHandle}) \in Nat
  BY <1>1, <1>3, FS_CardinalityType
<1> QED
  BY <1>1, <1>3, <1>4

\* What every state satisfies, but for the count of the handles that are lost.
Sound == Types /\ DriverInv /\ OpenInv /\ ClosedOnce

\* Steps that leave the handles, the entry and whether it is open alone.
LEMMA SameHandles ==
  ASSUME OpenInv, UNCHANGED <<live, dev, IsOpen>>, pc' # "events", pc' # "arm"
  PROVE  OpenInv' /\ live' \ HeldNow' = live \ HeldNow
BY DEF OpenInv, HeldNow, Held, Events, Handles

\* Steps with no adapter open, before and after.
LEMMA NoneOpen ==
  ASSUME ~IsOpen, ~IsOpen', live' = live, pc' # "events", pc' # "arm"
  PROVE  OpenInv' /\ live' \ HeldNow' = live \ HeldNow
BY DEF OpenInv, HeldNow

LEMMA NotOpenedShut ==
  ASSUME DriverInv, NEW d, NotOpened(d), pc \in {"open", "arm"}, driver' = driver
  PROVE  ~IsOpen' /\ pc' # "events" /\ pc' # "arm"
BY DEF NotOpened, Scanned, IsOpen, Opening, DriverInv

LEMMA InternalOpenHandles ==
  ASSUME Sound, InternalOpen
  PROVE  OpenInv' /\ ClosedOnce' /\ live' \ HeldNow' \subseteq live \ HeldNow /\ unarmed' = unarmed
<1>0. driver' = driver /\ misclosed' = misclosed /\ unarmed' = unarmed /\ pc = "open"
  BY DEF InternalOpen
<1>1. ~IsOpen
  BY <1>0 DEF IsOpen, Opening
<1>2. CASE live' = live /\ \E d : NotOpened(d)
  BY <1>0, <1>1, <1>2, NotOpenedShut, NoneOpen DEF Sound, ClosedOnce
<1>3. CASE /\ dev' = [Cleared EXCEPT !.deviceHandle = next, !.winUSBHandle = next + 1]
           /\ live' = live \cup {next, next + 1}
           /\ pc' = "events"
  <2>1. Cleared \in Device /\ Cleared.txevents = NULL /\ Cleared.rxevents = NoEvents
    BY CleanType DEF Cleared, Sound, Types, Entries, Device
  <2>2. next \in Nat \ {0}
    BY DEF Sound, Types, Numbers
  <2>3. /\ dev'.txevents = NULL /\ dev'.rxevents = NoEvents
        /\ dev'.deviceHandle = next /\ dev'.winUSBHandle = next + 1
    BY <1>3, <2>1 DEF Device
  <2>4. Events(dev') = {} /\ Handles(dev') \subseteq {next, next + 1}
    BY <2>3 DEF Events, Handles, NoEvents
  <2>5. Handles(dev') = {next, next + 1}
    BY <2>2, <2>3 DEF Handles, NULL, INVALID
  <2>6. IsOpen' /\ HeldNow' = {next, next + 1}
    BY <1>3, <2>4, <2>5 DEF IsOpen, Opening, HeldNow, Held, Events, Handles
  <2>7. HeldNow = {}
    BY <1>1 DEF HeldNow
  <2>8. OpenInv'
    BY <1>3, <2>2, <2>3, <2>4, <2>6 DEF OpenInv, Events
  <2> QED
    BY <1>0, <1>3, <2>6, <2>7, <2>8 DEF Sound, ClosedOnce
<1> QED
  BY <1>2, <1>3 DEF InternalOpen, kernel

LEMMA CreateTxHandles ==
  ASSUME Sound, CreateTxEvents
  PROVE  OpenInv' /\ ClosedOnce' /\ live' \ HeldNow' \subseteq live \ HeldNow /\ unarmed' = unarmed
<1>1. pc = "events" /\ pc' = "arm" /\ dev' = [dev EXCEPT !.txevents = next] /\ live' = live \cup {next}
  BY DEF CreateTxEvents
<1>2. unarmed' = unarmed /\ ClosedOnce'
  BY DEF CreateTxEvents, history, Sound, ClosedOnce
<1>3. IsOpen /\ IsOpen' /\ dev \in Device /\ next \in Nat \ {0} /\ Events(dev) = {}
  BY <1>1 DEF IsOpen, Opening, Sound, Types, Entries, Numbers, OpenInv
<1>4. /\ Held(dev') = Held(dev) \cup {next} /\ dev'.deviceHandle = dev.deviceHandle
      /\ \A u \in Urb : dev'.rxevents[u] = NULL
  BY <1>1, <1>3, HeldTx
<1>5. HeldNow' = HeldNow \cup {next}
  BY <1>3, <1>4 DEF HeldNow, Held, Events, Handles
<1> QED
  BY <1>1, <1>2, <1>3, <1>4, <1>5 DEF OpenInv, Sound

LEMMA ArmReadHandles ==
  ASSUME Sound, ArmRead
  PROVE  /\ OpenInv' /\ ClosedOnce'
         /\ \/ live' \ HeldNow' \subseteq live \ HeldNow /\ unarmed' = unarmed
            \/ /\ live' \ HeldNow' \subseteq (live \ HeldNow) \cup Handles(dev)
               /\ unarmed' = unarmed + 1
<1> DEFINE armed == [dev EXCEPT !.rxevents[k] = next]
<1>1. pc = "arm" /\ k < UrbCount /\ driver' = driver /\ next' = next + 1
  BY DEF ArmRead
<1>2. IsOpen /\ dev \in Device /\ next \in Nat \ {0} /\ live \subseteq 1 .. next - 1
  BY <1>1 DEF IsOpen, Opening, Sound, Types, Entries, Numbers
<1>3. k \in Urb /\ k \in Nat /\ dev.rxevents[k] = NULL
  BY <1>1, Limits DEF Sound, Types, Indices, OpenInv, Urb
<1>4. /\ Events(armed) = Events(dev) \cup {next} /\ Handles(armed) = Handles(dev)
      /\ armed.deviceHandle = dev.deviceHandle
      /\ \A v \in Urb : v # k => armed.rxevents[v] = dev.rxevents[v]
  BY <1>2, <1>3, HeldRx
<1>5. next \notin live /\ HeldNow = Events(dev) \cup Handles(dev) /\ HeldNow \subseteq live
  BY <1>2 DEF HeldNow, Held, Sound, OpenInv
<1> HIDE DEF armed
<1>6. CASE dev' = armed /\ live' = live \cup {next} /\ k' = k + 1 /\ UNCHANGED <<pc, history>>
  <2>1. IsOpen' /\ HeldNow' = HeldNow \cup {next}
    BY <1>1, <1>4, <1>5, <1>6 DEF IsOpen, Opening, HeldNow, Held, Events, Handles
  <2>2. \A v \in Urb : v >= k + 1 => armed.rxevents[v] = NULL
    BY <1>1, <1>3, <1>4 DEF Sound, OpenInv, Urb
  <2>3. dev'.deviceHandle \in Nat \ {0}
    BY <1>2, <1>4, <1>6 DEF Sound, OpenInv
  <2>4. OpenInv'
    BY <1>1, <1>5, <1>6, <2>1, <2>2, <2>3 DEF OpenInv
  <2> QED
    BY <1>6, <2>1, <2>4 DEF history, Sound, ClosedOnce
<1>7. CASE unarmed' = unarmed + 1 /\ CloseAll(Events(armed) \ {next}) /\ NotOpened(armed)
  <2>1. Events(armed) \ {next} = Events(dev)
    BY <1>4, <1>5
  <2>2. live' = live \ Events(dev) /\ ClosedOnce'
    BY <1>5, <1>7, <2>1 DEF CloseAll, Sound, ClosedOnce
  <2>3. ~IsOpen' /\ pc' # "events" /\ pc' # "arm"
    BY <1>1, <1>7, NotOpenedShut DEF Sound
  <2>4. HeldNow' = {}
    BY <2>3 DEF HeldNow
  <2>5. OpenInv'
    BY <2>3, <2>4 DEF OpenInv
  <2> QED
    BY <1>5, <1>7, <2>2, <2>4, <2>5
<1> QED
  BY <1>6, <1>7 DEF ArmRead, armed

LEMMA DevCloseHandles ==
  ASSUME Sound, DevClose, IsOpen, ~IsOpen', pc' # "events", pc' # "arm"
  PROVE  OpenInv' /\ ClosedOnce' /\ live' \ HeldNow' \subseteq live \ HeldNow
<1>1. HeldNow = Events(dev) \cup Handles(dev) /\ HeldNow \subseteq live
  BY DEF Sound, OpenInv, HeldNow, Held
<1>2. live' = live \ HeldNow /\ ClosedOnce' /\ HeldNow' = {}
  BY <1>1 DEF DevClose, CloseAll, Sound, ClosedOnce, HeldNow
<1> QED
  BY <1>2 DEF OpenInv

LEMMA HandlesStep ==
  ASSUME Sound, [Next]_vars
  PROVE  /\ OpenInv' /\ ClosedOnce'
         /\ \/ live' \ HeldNow' \subseteq live \ HeldNow /\ unarmed' = unarmed
            \/ /\ live' \ HeldNow' \subseteq (live \ HeldNow) \cup Handles(dev)
               /\ unarmed' = unarmed + 1
<1> USE DEF Sound
<1>1. CASE Scan \/ Enum \/ GetFirst \/ TryPCAN
  <2>1. live' = live /\ unarmed' = unarmed /\ misclosed' = misclosed
    BY <1>1 DEF Scan, Enum, GetFirst, TryPCAN, kernel, history
  <2>2. ~IsOpen /\ ~IsOpen' /\ pc' # "events" /\ pc' # "arm"
    BY <1>1 DEF Scan, Enum, GetFirst, TryPCAN, IsOpen, Opening, DriverInv
  <2> QED
    BY <2>1, <2>2, NoneOpen DEF ClosedOnce
<1>2. CASE InternalOpen
  BY <1>2, InternalOpenHandles
<1>3. CASE CreateTxEvents
  BY <1>3, CreateTxHandles
<1>4. CASE ArmRead
  BY <1>4, ArmReadHandles
<1>5. CASE Opened \/ SetBitrate \/ ChannelStart
  <2>1. live' = live /\ dev' = dev /\ unarmed' = unarmed /\ misclosed' = misclosed
    BY <1>5 DEF Opened, SetBitrate, ChannelStart, SetUp, kernel, history
  <2>2. IsOpen /\ IsOpen' /\ pc' # "events" /\ pc' # "arm"
    BY <1>5 DEF Opened, SetBitrate, ChannelStart, SetUp, IsOpen, Opening, DriverInv
  <2> QED
    BY <2>1, <2>2, SameHandles DEF ClosedOnce
<1>6. CASE CloseScanned
  <2>1. DevClose /\ IsOpen /\ ~IsOpen' /\ pc' = "enum" /\ unarmed' = unarmed
    BY <1>6 DEF CloseScanned, Scanned, IsOpen, Opening
  <2> QED
    BY <2>1, DevCloseHandles
<1>7. CASE HalClose /\ driver = "candle"
  <2>1. DevClose /\ IsOpen /\ ~IsOpen' /\ pc' = "done" /\ unarmed' = unarmed
    BY <1>7 DEF HalClose, IsOpen, Opening
  <2> QED
    BY <2>1, DevCloseHandles
<1>8. CASE HalClose /\ driver # "candle"
  <2>1. live' = live /\ misclosed' = misclosed /\ unarmed' = unarmed /\ pc' = "done"
    BY <1>8 DEF HalClose
  <2>2. ~IsOpen /\ ~IsOpen'
    BY <1>8 DEF HalClose, IsOpen, Opening
  <2> QED
    BY <2>1, <2>2, NoneOpen DEF ClosedOnce
<1>9. CASE \E d \in Dev : OtherProgram(d)
  BY <1>9 DEF OtherProgram, OpenInv, HeldNow, IsOpen, Held, Events, Handles, history, ClosedOnce
<1>10. CASE UNCHANGED vars
  BY <1>10 DEF vars, kernel, OpenInv, HeldNow, IsOpen, Held, Events, Handles, history, ClosedOnce
<1> QED
  BY <1>1, <1>2, <1>3, <1>4, <1>5, <1>6, <1>7, <1>8, <1>9, <1>10 DEF Next, Open

\* What the entry does not hold are two handles for each adapter whose reads could
\* not be armed.
LeakInv == Cardinality(live \ HeldNow) <= 2 * unarmed

LEMMA LiveFinite == ASSUME Types, NEW S PROVE IsFiniteSet(live \ S)
<1>1. IsFiniteSet(1 .. next - 1)
  BY FS_Interval DEF Types, Numbers
<1>2. live \ S \subseteq 1 .. next - 1
  BY DEF Types, Numbers
<1> QED
  BY <1>1, <1>2, FS_Subset

LEMMA LeakStep == Sound /\ LeakInv /\ [Next]_vars => LeakInv'
<1> SUFFICES ASSUME Sound, LeakInv, [Next]_vars PROVE LeakInv'
  OBVIOUS
<1> DEFINE Lost == live \ HeldNow
<1>1. IsFiniteSet(Lost) /\ Cardinality(Lost) \in Nat /\ unarmed \in Nat
  BY LiveFinite, FS_CardinalityType DEF Sound, Types, Numbers
<1>2. Cardinality(Lost) <= 2 * unarmed
  BY DEF LeakInv
<1>3. CASE (live \ HeldNow)' \subseteq Lost /\ unarmed' = unarmed
  <2>1. Cardinality((live \ HeldNow)') \in Nat /\ Cardinality((live \ HeldNow)') <= Cardinality(Lost)
    BY <1>1, <1>3, FS_Subset, FS_CardinalityType
  <2> QED
    BY <1>1, <1>2, <1>3, <2>1 DEF LeakInv
<1>4. CASE (live \ HeldNow)' \subseteq Lost \cup Handles(dev) /\ unarmed' = unarmed + 1
  <2>1. IsFiniteSet(Handles(dev)) /\ Cardinality(Handles(dev)) <= 2 /\ Cardinality(Handles(dev)) \in Nat
    BY HandlesTwo, FS_CardinalityType
  <2>2. /\ IsFiniteSet(Lost \cup Handles(dev)) /\ IsFiniteSet(Lost \cap Handles(dev))
        /\ Cardinality(Lost \cup Handles(dev))
             = Cardinality(Lost) + Cardinality(Handles(dev)) - Cardinality(Lost \cap Handles(dev))
    BY <1>1, <2>1, FS_Union, FS_Subset
  <2>3. Cardinality(Lost \cap Handles(dev)) \in Nat /\ Cardinality(Lost \cup Handles(dev)) \in Nat
    BY <2>2, FS_CardinalityType
  <2>4. /\ Cardinality((live \ HeldNow)') \in Nat
        /\ Cardinality((live \ HeldNow)') <= Cardinality(Lost \cup Handles(dev))
    BY <1>4, <2>2, FS_Subset, FS_CardinalityType
  <2> QED
    BY <1>1, <1>2, <1>4, <2>1, <2>2, <2>3, <2>4 DEF LeakInv
<1> QED
  BY <1>3, <1>4, HandlesStep

-----------------------------------------------------------------------------
IInv == Sound /\ LeakInv

LEMMA InvInit == Init => IInv
<1> SUFFICES ASSUME Init PROVE IInv
  OBVIOUS
<1>1. Types
  BY TypesInit
<1>2. DriverInv /\ ~IsOpen /\ live = {} /\ unarmed = 0 /\ pc = "scan" /\ ClosedOnce
  BY DEF Init, DriverInv, IsOpen, Opening, ClosedOnce
<1>3. OpenInv
  BY <1>2 DEF OpenInv, HeldNow
<1>4. live \ HeldNow = {}
  BY <1>2
<1>5. LeakInv
  BY <1>2, <1>4, FS_EmptySet DEF LeakInv
<1> QED
  BY <1>1, <1>2, <1>3, <1>5 DEF IInv, Sound

LEMMA InvStep == IInv /\ [Next]_vars => IInv'
BY TypesStep, DriverStep, HandlesStep, LeakStep DEF IInv, Sound

LEMMA InvImplies == IInv => ClosedOnce /\ HandlesAccounted /\ DriverIsOpen
<1> SUFFICES ASSUME IInv PROVE ClosedOnce /\ HandlesAccounted /\ DriverIsOpen
  OBVIOUS
<1>1. Sound /\ LeakInv
  BY DEF IInv
<1>2. pc \in {"run", "done"} => InUse = HeldNow
  BY DEF InUse, HeldNow, Held, IsOpen, Opening
<1>3. ASSUME driver = "candle", pc # "done"
      PROVE  Handles(dev) # {} /\ (Events(dev) \cup Handles(dev)) \subseteq live
  <2>1. IsOpen
    BY <1>1, <1>3 DEF Sound, DriverInv, IsOpen, Opening
  <2>2. dev.deviceHandle \in Nat \ {0} /\ Events(dev) \cup Handles(dev) \subseteq live
    BY <1>1, <2>1 DEF Sound, OpenInv, HeldNow, Held
  <2>3. dev.deviceHandle \in Handles(dev)
    BY <2>2 DEF Handles, NULL, INVALID
  <2> QED
    BY <2>2, <2>3
<1> QED
  BY <1>1, <1>2, <1>3 DEF Sound, LeakInv, HandlesAccounted, DriverIsOpen

LEMMA Invariance == Spec => []IInv
BY InvInit, InvStep, PTL DEF Spec

\* No handle is closed twice, though the events of closed adapters keep their numbers
\* (candle.c:170, 202-207, 334-347).
THEOREM Once == Spec => []ClosedOnce
BY Invariance, InvImplies, PTL

\* The handles that stay open and unused are those of the adapters whose reads could
\* not be armed, two for each (candle.c:363-366).
THEOREM Accounted == Spec => []HandlesAccounted
BY Invariance, InvImplies, PTL

\* While the candle driver is chosen its adapter is open, set up or not (halCAN.c:35).
THEOREM DriverOpen == Spec => []DriverIsOpen
BY Invariance, InvImplies, PTL

-----------------------------------------------------------------------------
(* The first adapter, when nothing fails. *)

Scanning == {"open", "events", "arm", "close"}

\* Every adapter that is open here is the one at work, and will be closed with it.
CleanInv ==
  ~trouble =>
    \A d \in Dev : holder[d] \notin {Free, Other} =>
      IsOpen /\ d = i /\ holder[d] = dev.deviceHandle

\* The scan goes through the adapters in turn, and the one chosen is the first.
WayInv ==
  ~trouble /\ 0 < present /\ present < MaxDevices =>
    /\ pc \in {"scan", "enum", "get"} => ~using
    /\ pc = "scan" => i = 0
    /\ pc = "enum" => i <= present
    /\ pc \in Scanning /\ ~using => i < present
    /\ pc \in Scanning \cup {"bitrate", "start"} /\ using => i = 0
    /\ pc = "close" => ~using
    /\ pc # "pcan"
    /\ pc \in {"run", "start"} => "1 Mbit/s" \in channel
    /\ pc = "run" => "started" \in channel
    /\ pc = "run" => driver = "candle"

LEMMA TroubleStays == trouble /\ [Next]_vars => trouble'
<1> SUFFICES ASSUME trouble, [Next]_vars PROVE trouble'
  OBVIOUS
<1>1. CASE Scan \/ Enum \/ GetFirst \/ InternalOpen \/ CreateTxEvents \/ ArmRead \/ Opened
  <2>1. CASE InternalOpen
    BY Zenon, <2>1 DEF InternalOpen, Fail
  <2> QED
    BY Zenon, <1>1, <2>1 DEF Scan, Enum, GetFirst, CreateTxEvents, ArmRead, Opened, Fail, history
<1>2. CASE CloseScanned \/ SetBitrate \/ ChannelStart \/ TryPCAN \/ HalClose
  BY Zenon, <1>2 DEF CloseScanned, SetBitrate, ChannelStart, SetUp, TryPCAN, HalClose, Fail, history
<1>3. CASE \E d \in Dev : OtherProgram(d)
  BY Zenon, <1>3 DEF OtherProgram, history
<1>4. CASE UNCHANGED vars
  BY Zenon, <1>4 DEF vars, history
<1> QED
  BY <1>1, <1>2, <1>3, <1>4 DEF Next, Open

LEMMA CleanStep ==
  ASSUME Sound, CleanInv, [Next]_vars
  PROVE  CleanInv'
<1> USE DEF CleanInv
<1>1. CASE Scan \/ Enum \/ GetFirst \/ TryPCAN
  <2>1. holder' = holder /\ (trouble => trouble')
    BY <1>1 DEF Scan, Enum, GetFirst, TryPCAN, kernel, history, Fail
  <2>2. ~IsOpen
    BY <1>1 DEF Scan, Enum, GetFirst, TryPCAN, IsOpen, Opening, Sound, DriverInv
  <2> QED
    BY <2>1, <2>2
<1>2. CASE InternalOpen
  <2>1. ~IsOpen
    BY <1>2 DEF InternalOpen, IsOpen, Opening
  <2>2. CASE holder' = holder /\ (trouble => trouble')
    BY <2>1, <2>2
  <2>3. CASE trouble'
    BY <2>3
  <2>4. CASE /\ dev' = [Cleared EXCEPT !.deviceHandle = next, !.winUSBHandle = next + 1]
             /\ holder' = [holder EXCEPT ![i] = next]
             /\ pc' = "events" /\ i' = i /\ trouble' = trouble
    <3>1. Cleared \in Device
      BY CleanType DEF Cleared, Sound, Types, Entries
    <3>2. dev'.deviceHandle = next
      BY <2>4, <3>1 DEF Device
    <3>3. IsOpen'
      BY <2>4 DEF IsOpen, Opening
    <3>4. \A d \in Dev : holder'[d] = IF d = i THEN next ELSE holder[d]
      BY <2>4 DEF Sound, Types, Holders
    <3> QED
      BY <2>1, <2>4, <3>2, <3>3, <3>4
  <2>5. \/ holder' = holder /\ (trouble => trouble')
        \/ trouble'
        \/ /\ dev' = [Cleared EXCEPT !.deviceHandle = next, !.winUSBHandle = next + 1]
           /\ holder' = [holder EXCEPT ![i] = next]
           /\ pc' = "events" /\ i' = i /\ trouble' = trouble
    BY <1>2 DEF InternalOpen, Fail, kernel
  <2> QED
    BY <2>2, <2>3, <2>4, <2>5
<1>3. CASE CreateTxEvents \/ ArmRead
  <2>1. IsOpen
    BY <1>3 DEF CreateTxEvents, ArmRead, IsOpen, Opening
  <2>2. CASE trouble'
    BY <2>2
  <2>3. CASE /\ dev' = [dev EXCEPT !.txevents = next] \/ dev' = [dev EXCEPT !.rxevents[k] = next]
             /\ pc' = "arm" /\ UNCHANGED <<i, holder, trouble>>
    <3>1. dev'.deviceHandle = dev.deviceHandle
      BY <2>3 DEF Device, Sound, Types, Entries
    <3>2. IsOpen'
      BY <2>3 DEF IsOpen, Opening
    <3> QED
      BY <2>1, <2>3, <3>1, <3>2
  <2> QED
    BY <1>3, <2>2, <2>3 DEF CreateTxEvents, ArmRead, Fail, history
<1>4. CASE Opened \/ SetBitrate \/ ChannelStart
  <2>0. trouble => trouble'
    BY Zenon, <1>4 DEF Opened, SetBitrate, ChannelStart, SetUp, history, Fail
  <2>1. UNCHANGED <<i, holder, dev>>
    BY <1>4 DEF Opened, SetBitrate, ChannelStart, SetUp, kernel
  <2>2. IsOpen /\ IsOpen'
    BY <1>4 DEF Opened, SetBitrate, ChannelStart, SetUp, IsOpen, Opening, Sound, DriverInv
  <2> QED
    BY <2>0, <2>1, <2>2
<1>5. CASE CloseScanned \/ (HalClose /\ driver = "candle")
  <2>1. DevClose /\ IsOpen /\ trouble' = trouble
    BY <1>5 DEF CloseScanned, HalClose, IsOpen, Opening
  <2>2. dev.deviceHandle \in Handles(dev)
    BY <2>1 DEF Sound, OpenInv, Handles, NULL, INVALID
  <2>3. \A d \in Dev : holder'[d] = IF holder[d] \in Events(dev) \cup Handles(dev) THEN Free ELSE holder[d]
    BY <2>1 DEF DevClose, CloseAll
  <2> QED
    BY <2>1, <2>2, <2>3
<1>6. CASE HalClose /\ driver # "candle"
  <2>1. ~IsOpen /\ holder' = holder /\ trouble' = trouble
    BY <1>6 DEF HalClose, IsOpen, Opening
  <2> QED
    BY <2>1
<1>7. CASE \E d \in Dev : OtherProgram(d)
  <2>1. UNCHANGED <<i, dev, IsOpen, trouble>>
    BY <1>7 DEF OtherProgram, IsOpen, history
  <2>2. \A e \in Dev : holder'[e] \in {Free, Other} \/ holder'[e] = holder[e]
    BY <1>7 DEF OtherProgram, Sound, Types, Holders
  <2> QED
    BY <2>1, <2>2
<1>8. CASE UNCHANGED vars
  BY <1>8 DEF vars, kernel, history, IsOpen
<1> QED
  BY <1>1, <1>2, <1>3, <1>4, <1>5, <1>6, <1>7, <1>8 DEF Next, Open

LEMMA IndexTypes == Indices => i \in Nat /\ present \in Nat /\ MaxDevices \in Nat
<1>1. Indices => i \in Nat
  BY Limits DEF Indices
<1>2. Indices => present \in Nat
  BY Limits DEF Indices
<1> QED
  BY <1>1, <1>2, Limits

LEMMA WayStep ==
  ASSUME Sound, CleanInv, WayInv, [Next]_vars
  PROVE  WayInv'
<1> SUFFICES ASSUME ~trouble', 0 < present', present' < MaxDevices
             PROVE  WayInv'
  BY DEF WayInv
<1> USE DEF WayInv, Scanning
<1>a. present' = present
  BY Zenon DEF Next, Open, Scan, Enum, GetFirst, InternalOpen, CreateTxEvents, ArmRead, Opened,
     CloseScanned, SetBitrate, ChannelStart, SetUp, TryPCAN, HalClose, OtherProgram, vars
<1>b. i \in Nat /\ present \in Nat /\ MaxDevices \in Nat
  BY IndexTypes DEF Sound, Types
<1>c. ~trouble
  BY TroubleStays
<1>0. present' = present /\ i \in Nat /\ present \in Nat /\ MaxDevices \in Nat /\ ~trouble
  BY <1>a, <1>b, <1>c
<1>1. CASE Scan
  <2>1. pc' = "enum" /\ pc = "scan" /\ UNCHANGED <<i, using, channel, driver>>
    BY <1>0, <1>1 DEF Scan, Fail
  <2> QED
    BY <1>0, <2>1
<1>2. CASE Enum
  <2>1. pc = "enum" /\ UNCHANGED <<i, using, channel, driver>>
    BY <1>2 DEF Enum
  <2>2. i <= present
    BY <1>0, <2>1
  <2>3. (i < present /\ pc' = "open") \/ (i = present /\ pc' = "get")
    BY <1>0, <1>2, <2>2 DEF Enum, Fail
  <2> QED
    BY <1>0, <2>1, <2>2, <2>3
<1>3. CASE GetFirst
  BY <1>0, <1>3 DEF GetFirst, history
<1>4. CASE InternalOpen
  <2>1. pc = "open" /\ using' = using /\ channel' = channel /\ driver' = driver /\ ~trouble
    BY <1>0, <1>4 DEF InternalOpen
  <2>2. CASE pc' = "events" /\ i' = i
    BY <1>0, <2>1, <2>2
  <2>3. CASE /\ trouble' = (trouble \/ holder[i] = Free \/ (holder[i] = Other /\ i = 0))
             /\ \E d : NotOpened(d)
    <3>0. ~IsOpen
      BY <2>1 DEF IsOpen, Opening
    <3>1. i \in Dev /\ ~IsOpen
      BY <1>0, <2>1, <3>0 DEF Sound, Types, Indices, Dev
    <3>2. holder[i] = Other /\ i # 0
      BY <2>1, <2>3, <3>1 DEF CleanInv
    <3>3. ~using /\ i < present
      BY <1>0, <2>1, <3>2
    <3>4. pc' = "enum" /\ i' = i + 1
      BY <2>3, <3>3 DEF NotOpened, Scanned
    <3> QED
      BY <1>0, <2>1, <3>3, <3>4
  <2>4. \/ pc' = "events" /\ i' = i
        \/ trouble'
        \/ /\ trouble' = (trouble \/ holder[i] = Free \/ (holder[i] = Other /\ i = 0))
           /\ \E d : NotOpened(d)
    BY <1>4 DEF InternalOpen, Fail
  <2> QED
    BY <2>2, <2>3, <2>4
<1>5. CASE CreateTxEvents
  BY <1>0, <1>5 DEF CreateTxEvents, history
<1>6. CASE ArmRead
  <2>1. pc = "arm" /\ pc' = "arm" /\ UNCHANGED <<i, using, channel, driver>>
    BY <1>6 DEF ArmRead, Fail
  <2> QED
    BY <1>0, <2>1
<1>7. CASE Opened
  BY <1>0, <1>7 DEF Opened, history
<1>8. CASE CloseScanned
  BY <1>0, <1>8 DEF CloseScanned, Scanned
<1>9. CASE SetBitrate
  BY <1>0, <1>9 DEF SetBitrate, SetUp, Fail
<1>10. CASE ChannelStart
  BY <1>0, <1>10 DEF ChannelStart, SetUp, Fail, Sound, DriverInv
<1>11. CASE TryPCAN
  BY <1>0, <1>11 DEF TryPCAN, history
<1>12. CASE HalClose
  BY <1>0, <1>12 DEF HalClose
<1>13. CASE \E d \in Dev : OtherProgram(d)
  <2>1. UNCHANGED <<pc, i, using, channel, driver>>
    BY <1>13 DEF OtherProgram
  <2> QED
    BY <1>0, <2>1
<1>14. CASE UNCHANGED vars
  BY <1>0, <1>14 DEF vars, history
<1> QED
  BY <1>1, <1>2, <1>3, <1>4, <1>5, <1>6, <1>7, <1>8, <1>9, <1>10, <1>11, <1>12, <1>13, <1>14 DEF Next, Open

LEMMA FirstInit == Init => CleanInv /\ WayInv
BY DEF Init, CleanInv, WayInv, Scanning

LEMMA FirstStep == (IInv /\ CleanInv /\ WayInv) /\ [Next]_vars => (CleanInv /\ WayInv)'
BY CleanStep, WayStep DEF IInv

LEMMA FirstImplies == Types /\ WayInv => FirstAdapterUsed
<1> SUFFICES ASSUME Types, WayInv, pc = "run", ~trouble, 0 < present, present < MaxDevices
             PROVE  driver = "candle" /\ channel = {"1 Mbit/s", "started"}
  BY DEF FirstAdapterUsed
<1> QED
  BY DEF WayInv, Types, Chan

\* With a list that is not full, and nothing failing, the first adapter is in use, with
\* its bit rate set and started (candle.c:66-71, 101-130; halCAN.c:25-41).
THEOREM First == Spec => []FirstAdapterUsed
<1>1. IInv /\ WayInv => FirstAdapterUsed
  BY FirstImplies DEF IInv, Sound
<1> QED
  BY <1>1, Invariance, FirstInit, FirstStep, PTL DEF Spec
=============================================================================
