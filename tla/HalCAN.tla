------------------------------- MODULE HalCAN -------------------------------
(***************************************************************************)
(* HalCAN_Open and HalCAN_Close: the scan for candle adapters, which opens *)
(* and closes each one it finds, the opening of the first, its set-up, and *)
(* the PCAN driver as the last resort.  Any call into Windows may fail.    *)
(*                                                                         *)
(* Handles are numbers, in the order of their creation, and none is used   *)
(* twice: a CloseHandle of one that is closed already shows.  An adapter   *)
(* is open at most once (candle_read_di relies on it to tell which are in  *)
(* use); other programs open and close adapters too.  Memory allocation    *)
(* and CreateEvent do not fail.  txevents stands for the whole array,      *)
(* which is created before any read is armed.                              *)
(***************************************************************************)
EXTENDS Integers, FiniteSets

CONSTANTS
  MaxDevices,   \* CANDLE_MAX_DEVICES, 32 in the code
  UrbCount      \* CANDLE_URB_COUNT, 30 in the code

ASSUME HalConstants == MaxDevices \in Nat \ {0} /\ UrbCount \in Nat \ {0}

Dev == 0 .. MaxDevices - 1
Urb == 0 .. UrbCount - 1
NULL == 0
INVALID == -1          \* INVALID_HANDLE_VALUE
Free == 0              \* holder of an adapter that nobody has open
Other == -1            \* ... that another program has open

VARIABLES
  pc,        \* where HalCAN_Open, or the program after it, is
  i, k,      \* loop indices: adapter in the scan, URB in candle_dev_open
  using,     \* is the adapter opened for use, or by the scan?
  dev,       \* the candle_device_t at work: an entry of the list, then *hCandle
  first,     \* l->dev[0]
  driver,    \* the global of halCAN.c
  channel,   \* CAN channel of the adapter in use: what its set-up has reached
  holder,    \* who has each adapter open: Free, Other or our handle
  live, next,   \* our open handles, the next handle
  present,   \* adapters plugged in
  unarmed,   \* history: times candle_prepare_read failed in candle_dev_open
  trouble,   \* history: has a call failed, or adapter 0 been found in use?
  misclosed  \* history: has a handle been closed twice?

kernel == <<holder, live, next>>
history == <<unarmed, trouble, misclosed>>
vars == <<pc, i, k, using, dev, first, driver, channel, kernel, present, history>>

NoEvents == [u \in Urb |-> NULL]
\* calloc of the list.
NoDevice == [deviceHandle |-> NULL, winUSBHandle |-> NULL,
             txevents |-> NULL, rxevents |-> NoEvents]

Init ==
  /\ pc = "scan" /\ i = 0 /\ k = 0 /\ using = FALSE
  /\ dev = NoDevice /\ first = NoDevice
  /\ driver = "none" /\ channel = {}
  /\ holder \in [Dev -> {Free, Other}] /\ live = {} /\ next = 1
  /\ present \in 0 .. MaxDevices
  /\ unarmed = 0 /\ trouble = FALSE /\ misclosed = FALSE

Fail == trouble' = TRUE

\* CloseHandle, or WinUsb_Free, of each handle of a set.
CloseAll(handles) ==
  /\ live' = live \ handles
  /\ misclosed' = (misclosed \/ ~(handles \subseteq live))
  /\ holder' = [d \in Dev |-> IF holder[d] \in handles THEN Free ELSE holder[d]]

Events(d) == ({d.txevents} \cup {d.rxevents[u] : u \in Urb}) \ {NULL}
Handles(d) == {d.deviceHandle, d.winUSBHandle} \ {NULL, INVALID}

-----------------------------------------------------------------------------
(* candle_list_scan. *)

Scan ==
  /\ pc = "scan"
  /\ \/ pc' = "enum" /\ UNCHANGED trouble
     \/ pc' = "pcan" /\ Fail
  /\ UNCHANGED <<i, k, using, dev, first, driver, channel, kernel, present,
                 unarmed, misclosed>>

\* Mutant of Enum: the scan goes on past the end of the list.
EnumUnbounded ==
  /\ pc = "enum"
  /\ \/ i < present /\ pc' = "open" /\ dev' = NoDevice /\ UNCHANGED trouble
     \/ i = present /\ pc' = "get" /\ UNCHANGED <<dev, trouble>>
     \/ pc' = "pcan" /\ Fail /\ UNCHANGED dev
  /\ i' = IF pc' = "get" THEN i + 1 ELSE i
  /\ UNCHANGED <<k, using, first, driver, channel, kernel, present, unarmed, misclosed>>

\* The next adapter; or there is none, and the scan succeeds; or the list is
\* full, and the scan fails, as it does when an adapter cannot be looked up.
Enum ==
  /\ pc = "enum"
  /\ \/ /\ i < MaxDevices /\ i < present
        /\ pc' = "open" /\ dev' = NoDevice /\ UNCHANGED trouble
     \/ i < MaxDevices /\ i = present /\ pc' = "get" /\ UNCHANGED <<dev, trouble>>
     \/ i = MaxDevices /\ pc' = "pcan" /\ UNCHANGED <<dev, trouble>>
     \/ i < MaxDevices /\ pc' = "pcan" /\ Fail /\ UNCHANGED dev
  /\ UNCHANGED <<i, k, using, first, driver, channel, kernel, present,
                 unarmed, misclosed>>

\* candle_read_di is done with an adapter, whose entry is d.
Scanned(d) ==
  /\ first' = IF i = 0 THEN d ELSE first
  /\ i' = i + 1 /\ pc' = "enum"

\* candle_dev_open answers FALSE and leaves d: to the scan, the adapter is in
\* use; to HalCAN_Open, there is none.
NotOpened(d) ==
  /\ dev' = d
  /\ IF using THEN pc' = "pcan" /\ UNCHANGED <<i, first>> ELSE Scanned(d)

-----------------------------------------------------------------------------
(* candle_dev_open. *)

\* Mutant of InternalOpen: the URBs' events are left from the last time.
InternalOpenKeeps ==
  /\ pc = "open"
  /\ \/ /\ Fail /\ NotOpened([dev EXCEPT !.deviceHandle = INVALID])
        /\ UNCHANGED kernel
     \/ /\ holder[i] = Free
        /\ dev' = [dev EXCEPT !.deviceHandle = next, !.winUSBHandle = next + 1]
        /\ holder' = [holder EXCEPT ![i] = next]
        /\ live' = live \cup {next, next + 1} /\ next' = next + 2
        /\ pc' = "events" /\ UNCHANGED <<i, first, trouble>>
  /\ UNCHANGED <<k, using, driver, channel, present, unarmed, misclosed>>

\* Mutant of InternalOpen: a failed set-up frees the interface only.
InternalOpenLeaks ==
  /\ pc = "open"
  /\ \/ /\ holder[i] = Free /\ Fail
        /\ next' = next + 2
        /\ live' = live \cup {next} /\ holder' = [holder EXCEPT ![i] = next]
        /\ NotOpened([NoDevice EXCEPT !.deviceHandle = next])
     \/ /\ holder[i] = Free
        /\ dev' = [NoDevice EXCEPT !.deviceHandle = next, !.winUSBHandle = next + 1]
        /\ holder' = [holder EXCEPT ![i] = next]
        /\ live' = live \cup {next, next + 1} /\ next' = next + 2
        /\ pc' = "events" /\ UNCHANGED <<i, first, trouble>>
  /\ UNCHANGED <<k, using, driver, channel, present, unarmed, misclosed>>

\* candle_dev_internal_open begins by forgetting the URBs.
Cleared == [dev EXCEPT !.txevents = NULL, !.rxevents = NoEvents]

\* CreateFile fails; or it succeeds, and WinUsb_Initialize, or a step after it,
\* fails and all is closed again; or the device is open.
InternalOpen ==
  /\ pc = "open"
  /\ \/ /\ trouble' = (trouble \/ holder[i] = Free \/ (holder[i] = Other /\ i = 0))
        /\ NotOpened([Cleared EXCEPT !.deviceHandle = INVALID])
        /\ UNCHANGED kernel
     \/ /\ holder[i] = Free /\ Fail
        /\ \/ /\ next' = next + 1
              /\ NotOpened([Cleared EXCEPT !.deviceHandle = NULL])
           \/ /\ next' = next + 2
              /\ NotOpened([Cleared EXCEPT !.deviceHandle = NULL, !.winUSBHandle = NULL])
        /\ UNCHANGED <<holder, live>>
     \/ /\ holder[i] = Free
        /\ dev' = [Cleared EXCEPT !.deviceHandle = next, !.winUSBHandle = next + 1]
        /\ holder' = [holder EXCEPT ![i] = next]
        /\ live' = live \cup {next, next + 1} /\ next' = next + 2
        /\ pc' = "events" /\ UNCHANGED <<i, first, trouble>>
  /\ UNCHANGED <<k, using, driver, channel, present, unarmed, misclosed>>

CreateTxEvents ==
  /\ pc = "events" /\ pc' = "arm" /\ k' = 0
  /\ dev' = [dev EXCEPT !.txevents = next]
  /\ live' = live \cup {next} /\ next' = next + 1
  /\ UNCHANGED <<i, using, first, driver, channel, holder, present, history>>

\* The next URB gets its event and its read.  If candle_prepare_read answers
\* FALSE, candle_dev_open closes the URBs, and nothing else.
ArmRead ==
  LET armed == [dev EXCEPT !.rxevents[k] = next] IN
  /\ pc = "arm" /\ k < UrbCount
  /\ next' = next + 1
  /\ \/ /\ dev' = armed /\ live' = live \cup {next}
        /\ k' = k + 1
        /\ UNCHANGED <<pc, i, first, holder, history>>
     \/ /\ Fail /\ unarmed' = unarmed + 1
        /\ CloseAll(Events(armed) \ {next})
        /\ NotOpened(armed)
        /\ UNCHANGED k
  /\ UNCHANGED <<using, driver, channel, present>>

\* Mutant of Opened: the scan leaves the adapter open.
OpenedStays ==
  /\ pc = "arm" /\ k = UrbCount
  /\ IF using
     THEN driver' = "candle" /\ pc' = "bitrate" /\ UNCHANGED <<i, first>>
     ELSE UNCHANGED driver /\ Scanned(dev)
  /\ UNCHANGED <<k, using, dev, channel, kernel, present, history>>

\* candle_dev_open answers TRUE.
Opened ==
  /\ pc = "arm" /\ k = UrbCount
  /\ IF using THEN driver' = "candle" /\ pc' = "bitrate"
     ELSE UNCHANGED driver /\ pc' = "close"
  /\ UNCHANGED <<i, k, using, dev, first, channel, kernel, present, history>>

\* candle_dev_close: the events keep their numbers, the handles do not.
DevClose ==
  /\ CloseAll(Events(dev) \cup Handles(dev))
  /\ dev' = [dev EXCEPT !.deviceHandle = NULL, !.winUSBHandle = NULL]

\* candle_read_di closes the adapter it could open.
CloseScanned ==
  /\ pc = "close" /\ DevClose /\ Scanned(dev')
  /\ UNCHANGED <<k, using, driver, channel, next, present, unarmed, trouble>>

-----------------------------------------------------------------------------
(* HalCAN_Open and HalCAN_Close. *)

\* Mutant of GetFirst: the driver is chosen before the device is open.
GetFirstEarly ==
  /\ pc = "get" /\ i' = 0 /\ dev' = first
  /\ using' = (present > 0)
  /\ IF present > 0 THEN driver' = "candle" /\ pc' = "open"
     ELSE UNCHANGED driver /\ pc' = "pcan"
  /\ UNCHANGED <<k, first, channel, kernel, present, history>>

\* candle_dev_get copies the list's first entry, whatever its state.
GetFirst ==
  /\ pc = "get" /\ i' = 0 /\ dev' = first
  /\ using' = (present > 0)
  /\ pc' = IF present > 0 THEN "open" ELSE "pcan"
  /\ UNCHANGED <<k, first, driver, channel, kernel, present, history>>

\* candle_channel_set_bitrate, then candle_channel_start, whose answers nobody
\* looks at.
SetUp(here, what, there) ==
  /\ pc = here /\ pc' = there
  /\ \/ channel' = channel \cup {what} /\ UNCHANGED trouble
     \/ UNCHANGED channel /\ Fail
  /\ UNCHANGED <<i, k, using, dev, first, driver, kernel, present, unarmed, misclosed>>

SetBitrate == SetUp("bitrate", "1 Mbit/s", "start")
ChannelStart == SetUp("start", "started", "run")

TryPCAN ==
  /\ pc = "pcan" /\ pc' = "run"
  /\ driver' \in {"pcan", "none"}
  /\ UNCHANGED <<i, k, using, dev, first, channel, kernel, present, history>>

\* Escape was pressed: HalCAN_Close, which leaves driver as it is.
HalClose ==
  /\ pc = "run" /\ pc' = "done"
  /\ IF driver = "candle" THEN DevClose /\ channel' = {}
     ELSE UNCHANGED <<dev, holder, live, misclosed, channel>>
  /\ UNCHANGED <<i, k, using, first, driver, next, present, unarmed, trouble>>

-----------------------------------------------------------------------------
\* Another program opens an adapter, or closes it.
OtherProgram(d) ==
  /\ \/ holder[d] = Free /\ holder' = [holder EXCEPT ![d] = Other]
     \/ holder[d] = Other /\ holder' = [holder EXCEPT ![d] = Free]
  /\ UNCHANGED <<pc, i, k, using, dev, first, driver, channel, live, next, present, history>>

Open ==
  \/ Scan \/ Enum \/ GetFirst
  \/ InternalOpen \/ CreateTxEvents \/ ArmRead \/ Opened \/ CloseScanned
  \/ SetBitrate \/ ChannelStart \/ TryPCAN
Next == Open \/ HalClose \/ \E d \in Dev : OtherProgram(d)

Spec == Init /\ [][Next]_vars

-----------------------------------------------------------------------------
Handle == Nat \cup {INVALID}
Device == [deviceHandle : Handle, winUSBHandle : Handle,
           txevents : Handle, rxevents : [Urb -> Handle]]

TypeOK ==
  /\ pc \in {"scan", "enum", "open", "events", "arm", "close", "get", "bitrate",
             "start", "pcan", "run", "done"}
  /\ i \in 0 .. MaxDevices /\ k \in 0 .. UrbCount
  /\ using \in BOOLEAN /\ dev \in Device /\ first \in Device
  /\ driver \in {"none", "pcan", "candle"} /\ channel \subseteq {"1 Mbit/s", "started"}
  /\ holder \in [Dev -> Handle] /\ live \subseteq 1 .. next - 1 /\ next \in Nat \ {0}
  /\ present \in 0 .. MaxDevices
  /\ unarmed \in Nat /\ trouble \in BOOLEAN /\ misclosed \in BOOLEAN

\* No handle is closed twice, though candle_dev_close leaves the numbers of the
\* events in the entry that candle_dev_get copies (candle.c:170, 202-207, 334-347).
ClosedOnce == ~misclosed

\* What HalCAN_Open has opened and the driver does not use, it has closed, except
\* the device handle and the interface of an adapter whose reads could not be
\* armed (candle.c:363-366): those stay open until the process ends.
InUse == IF driver = "candle" /\ pc = "run" THEN Events(dev) \cup Handles(dev) ELSE {}
HandlesAccounted ==
  pc \in {"run", "done"} => Cardinality(live \ InUse) <= 2 * unarmed

\* The HTTP thread may send as soon as the driver is chosen, while HalCAN_Open is
\* still at work: it finds the adapter open and its events there (halCAN.c:35,
\* 113-131).  Only HalCAN_Close ends that.
DriverIsOpen ==
  driver = "candle" /\ pc # "done" =>
    Handles(dev) # {} /\ (Events(dev) \cup Handles(dev)) \subseteq live

\* If nothing fails and adapter 0 is nobody else's, it is the one in use, at the
\* right bit rate and started: the scan leaves it free to be opened again, and
\* what other adapters are doing does not matter.  But with a full list of
\* adapters the scan fails (candle.c:66-71, 101-130; halCAN.c:25-41).
FirstAdapterUsed ==
  pc = "run" /\ ~trouble /\ 0 < present /\ present < MaxDevices =>
    driver = "candle" /\ channel = {"1 Mbit/s", "started"}
=============================================================================
