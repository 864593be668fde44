# Battery Fuel Gauge desktop application: TLA+ verification project

The program (`src/src/`) is a Windows desktop application for the Playing With
Fusion battery fuel gauge: it talks to a gs_usb ("candle") or PCAN adapter,
keeps the CAN messages it hears, finds the gauges on the bus, decodes what they
send, and serves a web page from which they are watched and configured. These
modules model its core logic. TLC checks them on small instances, and TLAPS
proves theorems about them for every value of the constants.

All paths below are relative to `src/src/`; `cpp/` stands for
`libPlayingWithFusion/cpp/`.

## 1. The system

### Threads and shared state

| thread | runs | shared state it touches |
|---|---|---|
| main | `while` loop of `main.cpp`: `RecieveCANMessages` -> `HalCAN_Receive` -> `candle_frame_read` | reads the receive ring; pushes to `canRxFifo`; writes `canMsgMap` |
| identify | `FusionFlashUtil::IdentifyHeartbeatTask` (started by the constructor) | pops `canRxFifo` (`readStreamSession`); writes `m_controllerList` |
| HTTP (libuv loop) | `FusionHttpServerConnection::ProcessRequest`, and through it every gauge object | reads `canMsgMap` (`receiveMessage`); reads and changes `m_controllerList`; sends (`sendMessage` -> `HalCAN_Transmit` -> `candle_frame_send`) |

There is no lock between any two of them. Only the HTTP thread sends, so the
transmit pool has one caller; only main receives. The kernel and the adapter
complete transfers at any time.

### Components

| component | state | operations | correct when |
|---|---|---|---|
| candle driver, transmit (`candle/candle.c`) | `txurbs_in_use`, events, OVERLAPPEDs and buffers of the URBs | `candle_frame_send`, `find_free_txurb`, `check_write_result` | a buffer in the kernel's hands is not touched; frames leave in call order, at most once; a TRUE answer means sent; every call returns |
| candle driver, receive | events, OVERLAPPEDs, buffers of the read URBs | `candle_frame_read`, `candle_prepare_read` | no frame twice, none invented; losses are accounted for; a frame leaves its buffer unless the kernel keeps refusing URBs |
| candle driver, device (`candle.c`, `candle_ctrl_req.c`) | device list, handles, `last_error` | scan, open, close, bit rate, channel start | every exit leaves handles and URBs as its answer says |
| HAL (`halCAN.c`) | `Driver`, the device list and handle | `HalCAN_Open/Close/Transmit/Receive` | the driver in use is one that was opened |
| program (`main.cpp`) | `canRxFifo`, `canMsgMap` | receive loop, `sendMessage`, `receiveMessage`, `readStreamSession` | the FIFO hands over what was received; a reader of the map sees a whole message |
| FusionFlashUtil (`cpp/FusionFlashUtil.cpp`) | `m_controllerList` | `IdentifyHeartbeatTask`, `GetControllerById`, `SetControllerId`, `IdentifyController`, `UnlockController` | one entry per controller; active means recently heard; identifiers converge |
| gauge (`cpp/BattFuelGaugeImpl.cpp`) | decoded values, time points, the controller it is bound to | `ExecuteTask`, `RxFastMsgs`, `RxSlowMsgs`, `IsConnected`, setters | connected means heard in the last two seconds; a setter addresses the gauge it is meant for |
| HTTP connection (`cpp/FusionHttpServerConnection.cpp`) | `bfgArray` and the form fields of the request | `ProcessRequest` and the handlers behind it | a form is decoded whole; an answer says what happened |
| time of flight sensor (`cpp/TimeOfFlightApi.cpp`, `TimeOfFlightImpl.cpp`), a library built into the program, which does not call it | table of handles, configuration, time points | `Create`, `Destroy`, setters, getters, most of which run `ExecuteTask` (not `GetRangingMode`, `GetSampleTime` and `IsConnected`) | one object per sensor; the sensor comes to have the configuration of the object, and gets it back in time |
| helpers | task list (`PeriodicHelper`), hash state (`XxHash32`) | `AddTask`, `CallPeriodicTasks`; `Add`, `Hash` | - |
| C API of the gauge, JNI | table of handles | not part of the desktop build | - |
| wpinet, wpiutil, the WPILib HAL, PCAN | third party | - | - |

### What is hard about it

`PROJECT.json` lists the hazards with their lines. In short: URBs left behind
by a timeout and found again by a later call; a transfer that ended badly and
leaves its event signaled; the ring read by index and not by age; three threads
on containers without a lock; a flag copied uninitialised over a good one; a
static local shared by all gauge objects; time stamps that wrap; time points that
tear; a number that was never typed; commands that
are assumed to have arrived; settings that share a message; a serial number that
is out of date when it is used; failures of open and set-up that are not passed on.

## 2. Modules

| module | models | kind |
|---|---|---|
| `TxChannel` | what the transmit side promises: an ordered lossy channel with definite and indefinite answers | abstract |
| `CandleTx` | `candle_frame_send` as `HalCAN_Transmit` calls it, and the bulk OUT pipe | detailed, implements `TxChannel` |
| `CandleTxProofs` | the theorems about `CandleTx` | proofs |
| `RxChannel` | what the receive side promises: an unordered lossy channel without duplicates | abstract |
| `CandleRx` | `candle_frame_read`, `candle_prepare_read`, and the bulk IN pipe | detailed, implements `RxChannel` |
| `CandleRxProofs` | the theorems about `CandleRx` | proofs |
| `CanRxFifo`, `CanRxFifoProofs` | the queue between main and the identify thread, at the grain of loads and stores; the theorems about it | detailed, proofs |
| `FusionFlashUtil` | the controller list: heartbeats, ageing, renaming, the bus | detailed |
| `FusionFlashUtilProofs` | the theorems about `FusionFlashUtil` | proofs |
| `GaugeConnection`, `GaugeConnectionProofs` | `canMsgMap` between main and the server's thread; what a gauge object shows, and how it decides that its gauge is connected | detailed, proofs |
| `GaugeCommands`, `GaugeCommandsProofs` | the settings of a gauge: from the setters to the gauge, and back to the page | detailed, proofs |
| `HalCAN`, `HalCANProofs` | the scan for adapters, opening, set-up and closing, the choice of the driver | detailed, proofs |
| `HttpConnection` | requests that arrive in pieces on several connections, the gauge and the controller they are carried out for | detailed |
| `TimeOfFlight`, `TimeOfFlightProofs` | the table of handles and the configuration of a sensor that several threads use | detailed, proofs |
| `MC*` | what TLC checks of each: one `.cfg` per question | model checking |

### CandleTx

One action per step of `candle_frame_send` that another party can get between:
`Send` (entry, and the first URB of all, which is taken unseen), `Poll` (the
first `WaitForMultipleObjects`, timeout 0, and the URB never used yet), `Block`
(the second, with a timeout), `CheckFree` (`check_write_result` of the previous
transfer), `Fill` (the `memcpy`), `WritePipe`, `WaitSent` (`wait_send` is always
set by `HalCAN_Transmit`). `Complete` is the kernel: the oldest transfer ends
in full, short, or in an error. `WaitForMultipleObjects` returns the lowest
signaled index; both timeouts may expire whenever nothing is signaled. Events
are manual-reset, and only `WritePipe` resets one. The `Failed` outcomes stay:
nothing in the code re-arms or clears such a URB.

Frames are numbered by call. `status`, `pipe` and `wire` are the OVERLAPPEDs,
the transfers in the kernel's hands, and what the adapter received.

### CandleRx

`Poll`, `Collect`, `Rearm` are the three parts of `candle_frame_read`; a call
that finds nothing changes nothing. `Rearm` has the outcomes of
`candle_prepare_read`: re-armed; refused with the event left signaled or reset;
or completed on the spot, which the code takes for a failure (it answers TRUE
only for ERROR_IO_PENDING). In all but the first the frame just read is dropped.
A URB whose re-arming is refused with its event left signaled is found again by
the next call, and while that goes on no URB behind it is looked at. Nothing bounds
such refusals here, nor transfers that fail; `refusals` counts those that take the
URB out of the reader's hands, with its event reset or with a transfer that ended on
the spot, which cost a frame or a URB each.

### CanRxFifo

`std::queue` over `std::deque` has no lock, so a push on main and a pop on the
identify thread race. The outcomes are those of the library the project is
built with: an offset, a size, and slots, each updated by a load and a store.
The growth and wrap-around of the deque's map are left out; they only add ways
to fail. `overlapped` is a history variable: it says whether a push and a pop
were ever under way together, and the properties say what holds until then.

### FusionFlashUtil

`Read` and `Tick` are the two arms of the loop of `IdentifyHeartbeatTask`.
`Read` overwrites the entry with the local `controller`, whose `activeOnBus` is
never assigned: `garbage` is what that byte holds, which is the same on every
pass of the loop. `SetControllerId` is the HTTP thread's: it renames the entry
first and sends afterwards, and nobody looks at the outcome. The environment is
the controllers (`Beat`, `Power`), the commands under way (`Command`, delivered
or lost), and other traffic (`Chatter`). `since` is a history variable: ticks
since the thread last read a heartbeat of each controller.

### GaugeConnection

main stores the last message of each identifier in `canMsgMap`, without a lock
(`Power`: the entry is found, or added and all zero; `Store`: one word of the
assignment). Adding an identifier, also for other devices (`Grow`), may rehash the
table, and a search that meets this may miss what is there. On the server's
thread `Find` is the entry of `ExecuteTask` and the search of `receiveMessage`, `Load`
one word of its copy, `Polled` what `RxFastMsgs` makes of the copy: it decodes it,
compares its time stamp with `lastTimestamp`, a static local, one for all the
objects, and takes it for new if they differ. The words of a message are its
length, its data and its milliseconds, copied in any order. Time passes in ticks of
the 10 ms after which `ExecuteTask` reads again. `said`, `heardAge`, `unread`, `twin`,
`missed` and `disturbed` are history variables: what was said last and when, whether
an undisturbed poll has seen it, and how many polls main disturbed since.

What two threads in a `std::unordered_map` do is undefined, and two outcomes end
the behaviour here: a search that crashes, and the second search of
`receiveMessage`, by `operator[]` (`main.cpp:184`), that misses what the first has found
because main adds an identifier in between: it then inserts a zeroed entry from the
server's thread, with two threads changing the table at once.

### GaugeCommands

Each setter looks the serial number up (`GetPWFControllerInfo`), sends
`UnlockController` for it, then its frames under the object's identifier (`Send`).
Manufacturer, reset and display travel in the message of the second half of the
name, with `0xFF` (`Keep`) in the bytes they leave alone. `RxSlowMsgs` reads the
broadcasts of the gauge back: those with numbers and the first half of the name in
one step, since no field of theirs is of two messages, then the second half, with
main storing new messages in between (`reading`). Bytes are digits of base `Radix`,
names and numbers shorter than in the code, and the casts to 16 bits are modulo
`Radix^2`.

The environment: frames arrive in order (`Deliver`) or are lost (`Lose`, that one has
found no room in the driver included), `Broadcast` repeats what the gauge holds,
batteries with gauges of their own take turns (`Swap`), the controller list shows the
one that is there, or none, or still the old one (`Identified`), and a gauge's unlocking
ends at some time after the frames that follow it (`Relock`). What an unlocked gauge
does (`Taken`) is not in the repository: it is what the setters rely on. `asked`
and `intact` are history: what was asked for last, and whether all went well since.

### TimeOfFlight

Threads of a program share the object `Create` hands out. Its settings are atomics,
so a setter is a sequence of loads and stores (`SetRangingMode`, `CompareTime`, `StoreMode`,
`StoreTime`; `SetRangeOfInterest`, `StoreRoi`), then `QueueCfgMsg`, and a frame is put
together by loads (`TxCfgMsg`, `TxRest`) before it is sent (`TxSend`); threads
interleave at each. The four corners of the region are one member here. A getter is
`ExecuteTask`, which looks at most every 10 ms (`MarkRx` stores when), and a look sends
the configuration if the last time was 400 ms ago (`QueueCfgMsg`, then `StampTx`, which
stores when). `GetRangingMode`, `GetSampleTime` and `IsConnected` do not run it.

The two time points, `lastMsgRx` and `lastCfgMsgTx`, are plain 64-bit members, tested and
stored without a lock (`TimeOfFlightImpl.h:78-80`). Two threads may both find one due
and both store it. Where a build stores 64 bits in two halves (`Wrap` is not zero:
2^32 ns, about 4.3 s, in ticks), a load that meets a store may yield anything
(`Loaded`), and two stores that meet (`clash`) may leave half of one time and half of the
other (`Stored`): if a multiple of 2^32 ns lies between them, the result is that much
ahead of the time, or so long ago that it is due at once. In ages: `-Wrap`, or the limit.
Where 64 bits are stored at once `Wrap` is zero, and nothing tears.

The sensor may lose power and with it the configuration (`Restart`), the bus may
lose frames. Time passes when no call is under way. `Create` and `Destroy` are
called while nothing else is, and `Destroy` by the last one who has the handle:
without a lock the code needs as much, and nothing checks it.

### HalCAN

`HalCAN_Open`, with `candle_list_scan`, `candle_read_di`, `candle_dev_get` and
`candle_dev_open` behind it, then `HalCAN_Close`. Every call into Windows may
fail. Handles are numbers that are never used again, so a double close shows
(`misclosed`); `holder` says who has each adapter open, for an adapter can be open
once and other programs open adapters too (`OtherProgram`). The scan opens and
closes every adapter it finds (`using` is FALSE), then `HalCAN_Open` opens a copy
of the first entry, whatever the scan made of it. `InternalOpen` is
`candle_dev_internal_open` with its two exits (`close_handle`, `winusb_free`);
`ArmRead` that of `candle_prepare_read` failing, which closes the events but
neither the interface nor the device handle. The transmit events are one
handle: they are created together before any read is armed. That memory
allocation and `CreateEvent` do not fail is an assumption.

### HttpConnection

One thread runs the event loop, so what it does with one piece of data is one
step. A request is what the pages of the program send: its fields in the order
of the form. `ProcessNewRequest` comes with its head, `ProcessBody` with a piece
that is not the last, which is dropped (`left` says how many fields are still to
come; a field the cut goes through is lost, since neither half decodes as
it), and `Root`, `BfgCgi`, `BfgState` with the last piece, which is decoded
(`DecodeGetPost`) and acted upon. `m_post` is the connection's; `bfgArray`, of which
`m_serialNumber` is the part that matters here, and `lastBfgSrcAddr` are shared.
`Connect` replaces the gauge objects of all. `listed` is the controller list, which
may change in any way between two steps (`Listing`): `FusionFlashUtil` says how
it really does. A URL, with its query, arrives whole, since the parser hands it
on whole. `done` is what was done in the last step; `down` is the end of the
program by an exception that nobody catches. The 302 answer to
`Live+Data`, which makes the browser open `bfg.html` with the address, is the
`srcaddr` of the later requests. The new identifier of a Change ID form is a text box:
`newid` is what was typed (`Typed`), an address, a number beyond 8 bits, which the cast to
`uint8_t` cuts (`Id`), or zero for anything `std::stoi` finds no number in, an empty box
included; a field that did not arrive reads as empty too. Addresses count from 1 here, since 0 stands for
no address; `lastBfgSrcAddr` starts as the first of them, as in the code.

## 3. What is checked

| run | question | result |
|---|---|---|
| `candle_tx` | does the pool keep the kernel's buffers alone, keep the order, end every call, and implement `TxChannel`? What happens once a transfer has failed? | holds. `WedgedForGood`: once URB 0 has failed no later call reaches the pipe again |
| `candle_rx` | does the ring lose or repeat anything beyond what the kernel refuses? | holds: one frame and one URB at most per refusal; once the adapter is silent, a frame stays in a buffer for ever only if its URB, or one before it, is refused or fails again and again |
| `can_rx_fifo` | what is still sure of the unlocked queue? | the size never wraps below zero; exact and drained until a push first meets a pop |
| `flash_util` | is the list sound under renames, lost commands, power cuts, and does it agree with the bus in the end? | holds |
| `flash_util_active` | does an entry stay active while its controller is heard? | no: a heartbeat copies the uninitialised flag over it |
| `gauge_connection` | with one gauge object, does `IsConnected` tell whether the gauge was heard in the last two seconds, and does the page show what it said, though main writes the table meanwhile? | holds, give or take one poll and one more for each that main disturbed, with one named exception for equal stamps |
| `gauge_connection_two` | and with two? | no: each makes the other's old message look new, so a dead gauge stays connected |
| `gauge_commands` | does a setting reach the gauge it was meant for, and no other, as it was asked for? Does the page find out what the gauge holds? | holds: a setting is lost rather than misdirected; the page follows the gauge |
| `time_of_flight` | does the sensor get its configuration back in time, and for good once it rests, whichever threads set it and however their time points are torn? | holds: after the 400 ms, the 10 ms in which getters look at nothing, one round of the program, and 2^32 ns for each of the two time points that may be torn |
| `hal_can` | what is left behind by a failure while adapters are scanned, opened, set up? Which adapter is used? | holds: no double close; only an adapter whose reads could not be armed stays open; a full list of adapters is the one case in which the first one is not used although nothing failed |
| `http_connection` | do requests that interleave on two connections, in pieces, keep apart? Is the gauge of a form the one addressed? | holds, for forms that come in one piece; one that asks for an identifier that is no number ends the program, and 8 bits count of one that is |
| `http_connection_cut` | and for forms in two pieces? | no: the address is lost with the first piece, and the command goes to the gauge last looked at |

The three runs that find a violation (`flash_util_active`, `gauge_connection_two`,
`http_connection_cut`) are the findings of `PROJECT.json`, each with the line of the
repository that says otherwise. Two more disagreements show in the properties of
passing runs, which state what the code does:

* A Change ID form that comes whole, but with an identifier box that is empty or holds no
  number, ends the program: `std::stoi` throws (`cpp/FusionHttpServerConnection.cpp:259`)
  where nothing catches. wpinet asks of `ProcessRequest` to "call the appropriate Send()
  functions to send a response back to the client" (`HttpServerConnection.h:29-30`).
  `WholeFormsCarriedOut` excepts these forms, and no others.
* The sample time of a sensor "must be between 24 and 1000 milliseconds"
  (`TimeOfFlightApi.h:119-121`), but is clamped to 10 .. 999 (`TimeOfFlightImpl.cpp:152`):
  1000, which may be asked for, is sent as 999, and 12, which may not, as it is. `TypeOK`
  of `TimeOfFlight` says that what is sent lies within the limits of the code, and
  `SettingsBackInTime` that the sensor gets what the code makes of what was asked for.

Two other things are as coded, and no run of their own asks about them. The ring
of `CandleRx` is read by index: a reader that lags behind by one lap gets a later
message before an earlier one, which is why `RxChannel` is not ordered. And a push
that meets a pop in `CanRxFifo` may lose, repeat or reorder messages, which is why its
properties end at `overlapped`.

Every property of a passing run has a mutant: a change to a definition of the
model of the kind a plausible bug would be (a dropped check, an off-by-one, a
retry), with which TLC finds the property violated. The mutants stand beside
the definitions they replace.

### Bounds, and why they are enough

* `UrbCount` 3 (30 in the code): room for a URB in the caller's hands, one left
  behind by a timeout, and one free; the code treats all indices alike but 0,
  which is taken unseen the first time. `MaxFrames` 5 in `CandleTx` exceeds
  it by two, so that the pool is exhausted and URBs are reused.
* `CandleRx`: `MaxFrames` 4, one more than the ring has, so that it wraps.
  `MaxRefusals` 2, one of each kind or two of a kind; refusals that leave the event
  signaled, and transfers that fail, are not bounded.
* `CanRxFifo`: four messages, enough for a push to meet the pop of an earlier
  message, and for the deque to become empty and fill again; the race is found
  with two. `MaxSlots` exceeds what the offset and size can reach.
* `FusionFlashUtil`: two controllers, two identifiers, so that two controllers
  can want the same one. `Timeout` 2 (40 in the code) still tells heard now,
  heard before, and timed out. One message in the FIFO and one command under
  way let both be stale with respect to the list.
* `GaugeConnection`: `Window` 4 and `PollEvery` 2 ticks (200 and 100 in the code),
  `StampMod` 5: stamps wrap within the window, harsher than in the code. Two
  readings, so that a torn or old one shows; one identifier of another device
  (`MaxGrow`), so that a poll may miss an entry that has been there for long. The
  second configuration has two objects, and a long stamp period, to show that the
  violation has nothing to do with the wrap.
* `GaugeCommands`: bytes of two bits and a nickname of 2 + 1 characters keep the
  lengths of the messages in proportion: a name that fits the first message, one
  that is cut; a capacity and a number of cycles that do not fit 16 bits. Two gauges,
  two commands and two changes of the battery: a setting meets the gauge that came,
  and the one that came back. Four frames are two settings under way at once.
* `TimeOfFlight`: two threads, two changes, one power failure; 400 ms are 3 ticks,
  10 ms are 2, and the program polls every 2, so that looks that come too early and
  frames that are due fall together in every way. `Wrap` is 3 ticks, no less than either
  period, as in the code. `MaxTears` 1: time points torn within one tick; times
  that have a multiple of 2^32 ns between them are passed once in 4.3 s. `Delay` is
  exact: with one tick less TLC finds `SettingsBackInTime` violated. Sample times are in ms;
  2000 stands for one that is not a number, which is sent as the shortest one. What
  `Clamp` makes of the others is a lemma of the proofs, for every number.
* `HalCAN`: a list of three adapters (32 in the code): none, one, several, and a
  full list. Two URBs: the first read that fails, and one after a read is armed.
* `HttpConnection`: two connections, two addresses, two gauges, two requests:
  a request meets what another on the same connection, or on the other, has left.
  Three is a number beyond 8 bits there.
  Connections are interchangeable (symmetry), and only safety is checked. The run
  that finds the violation needs one connection and one gauge.

`PROJECT.json` maps every definition to its source lines.

### Fairness, and why the code justifies it

* `CandleTx`: weak fairness of the caller's steps (`Sending`). The HTTP thread
  runs to the end of the call; both waits are bounded by the timeout, so each
  step is enabled whatever the kernel does. Nothing is assumed of the kernel:
  `SendReturns` holds with a pipe that never completes.
* `CandleRx`: weak fairness of the reader. main calls `RecieveCANMessages` in an
  endless loop. The adapter need not send. Nothing is assumed of the kernel: refusals and
  failures may go on for ever, and `HeldFramesLeave` says whom they then hold up. It
  speaks of an adapter that falls silent, for `MaxFrames` makes it: one that keeps
  sending may keep filling the URBs before a given one.
* `HalCAN`, `HttpConnection`, `GaugeConnection`: none; only safety is checked.
* `GaugeCommands`: weak fairness of what becomes of a frame (delivered or lost), of
  `RxSlowMsgs`, since the page polls, and of each broadcast, which the gauge repeats.
* `TimeOfFlight`: weak fairness of the steps of a call, of each thread's getters and of
  time, and strong fairness of delivery: the bus does not lose every frame.
* `CanRxFifo`: weak fairness of a push once started, and of the reader, whose
  loop does not end.
* `FusionFlashUtil`: weak fairness of `Read`; strong fairness of `Tick`, since the
  thread reads faster than a 1 Mbit/s bus fills the FIFO and so finds it empty
  again and again; strong fairness of the heartbeats of a live controller, which
  sends them periodically (strong because the bound on the FIFO, which is the
  model's and not the code's, may disable one again and again).

## 4. What is proved

`CandleTxProofs` proves, for every `UrbCount >= 1` and every `MaxFrames` (assumption
`TxConstants`):

| theorem | says |
|---|---|
| `TypeCorrect` | `Spec => []TypeOK`: in particular `txurbs_in_use` never exceeds the pool |
| `BuffersOwned` | `Spec => []BufferOwned` |
| `WireOrdered` | `Spec => []WireInOrder` |
| `Wedges` | once URB 0 has failed between calls, no later call reaches the pipe |
| `Implements` | `Spec => ImplementsChannel`: the pool implements `TxChannel` |

`BufferOwned` and `WireInOrder` are not
inductive by themselves. The inductive invariant is
`TypeOK /\ PoolInv /\ CallInv /\ OrderInv`:

* `PoolInv`: URBs from `txurbs_in_use` on are unused; a signaled URB has completed;
  the pipe holds pending URBs, each once; in `fill` and `write` the URB in the
  caller's hands is neither unused beyond the pool nor pending. It is what makes
  a signaled URB one the kernel has let go of.
* `CallInv`: a call has its number and has not answered while it is under way; every
  earlier call has answered, no later one has.
* `OrderInv`: the frames on the wire, then those in the buffers of the URBs in the
  pipe, then the current call's, are in the order of the calls. This is what
  survives when a call gives up and leaves its transfer behind.

The initial states satisfy it, every action preserves it (one lemma per
conjunct, one step per action), and each theorem follows. The refinement maps the
queue of `TxChannel` to the frames in the buffers of the URBs in the pipe; every
step of `CandleTx` is a step of `TxChannel` or a stutter. The facts about
sequences (appending, tails, increasing sequences, images) are its first lemmas.

`CandleRxProofs` proves, for every `UrbCount >= 1`, `MaxFrames` and `MaxRefusals`
(assumption `RxConstants`):

| theorem | says |
|---|---|
| `TypeCorrect` | `Spec => []TypeOK` |
| `BuffersOwned` | `Spec => []BufferOwned` |
| `Implements` | `Spec => ImplementsChannel`: the ring implements `RxChannel` |
| `LossBounded` | `Spec => []LossAccounted`: a frame lost for each refusal at most |
| `RingBounded` | `Spec => []RingAccounted`: a URB lost for each refusal at most |

The inductive invariant is `TypeOK /\ RingInv /\ FrameInv`. `RingInv`: a signaled URB
has completed, an armed one is pending and armed once, and the URB in the
reader's hands is signaled; so it is not armed, which is `BufferOwned`. `FrameInv`: the
frames held are frames that arrived, each in one URB, none of them delivered
yet, and the reader's copy is that of the URB it found. The lemma `HoldingStep`
says what every step makes of the URBs that hold a frame: nothing, one more, one
fewer with the frame delivered, or one fewer without. These are `Arrive`, `Deliver`
and `Lose` of `RxChannel`, where `held` is the set of frames in buffers. The two
bounds follow by induction from the same lemma (`LostStep`) and its like for the
ring (`DeadStep`), with the library's facts about the cardinality of finite sets.

`FusionFlashUtilProofs` proves, for any sets of controllers and identifiers, any
`Timeout >= 1`, and any bounds on the FIFO and the commands (`FlashConstants`):

| theorem | says |
|---|---|
| `TypeCorrect` | `Spec => []TypeOK` |
| `OneEntry` | `Spec => []OneEntryEach` |
| `Heard` | `Spec => []ActiveWasHeard` |
| `Stay` | `Spec => EntriesStay` |

`ListSteps` reduces every step to what it makes of the list: nothing, an entry
overwritten or added by a heartbeat, all entries aged, or one renamed.
`ActiveWasHeard` needs `AgeInv`: until an entry has timed out, the time since its
controller was heard is no more than its age; this is why `Tick`, which alone can
make an entry active beyond the heartbeat, does so in time.

`CanRxFifoProofs` proves, for every number of messages and slots (`FifoConstants`),
`Underflow` (`Spec => []NeverUnderflows`) and `Exact` (`Spec => []ExactUntilOverlap`). For
the first, what counts is that of the two threads only the reader makes the size
smaller: the size main has loaded, and the one it finds, are positive whenever
the reader is between its check and its store. For the second the invariant,
as long as nothing overlapped, is the abstract queue itself: the slots from the offset
on hold the messages received and not yet read, in order, with the half-done push or
pop accounted for; at most one of the two is under way.

`GaugeConnectionProofs` proves, for any objects, readings and periods
(`ConnectionConstants`):

| theorem | says |
|---|---|
| `TypeCorrect` | `Spec => []TypeOK` |
| `Shows` | `Spec => []ShownIsLast` |
| `Heard` | for `Gauge = {a}`: `Spec => []HeardIsConnected` |
| `Connected` | for `Gauge = {a}`: `Spec => []ConnectedWasHeard` |

`Shows` rests on what a poll can have seen: if main has not touched the table since
the poll began, the words loaded are those of the entry, and the entry is what was
said last once main has stored it. `Heard` adds (`HeardInv`) that a
message that is not the twin is one the object has taken for new since, or has yet to
read, under a stamp that is not the last one seen. Other objects would change that stamp;
hence the assumption of one: with two, the run `gauge_connection_two` refutes
`ConnectedWasHeard`.

`Connected` is by induction over the polls that main disturbed (`LateInv`, with
`Delay(g) = missed[g] * PollEvery`). `Known`: a message that has been read, or never
came, bears the stamp last seen, so it is not taken for new again. `Late`: one that is
still unread was heard no longer ago than the disturbed polls and the current period take.
`InTime`: so what was taken for new had been heard one period and those polls ago at most,
and from then on both ages grow together. `Budget` bounds the disturbed polls by one
for each identifier main adds, and one for the message itself, so that the ages stay below
the value at which they stop (`Long`).

`GaugeCommandsProofs` proves, for any gauges, settings and bounds
(`GaugeCommandsConstants`):

| theorem | says |
|---|---|
| `MeantOnly` | `Spec => OnlyTheOneMeant` |
| `TypeCorrect` | `Spec => []TypeOK` |
| `AllTaken` | `Spec => []SettingsTaken` |

The assumptions: the characters of a name are neither zero nor `0xFF`, which no UTF-8
text contains; manufacturers and the magic number are not `0xFF`; `Radix` is above 2, so that
an inverted display can be told from `0xFF`; the age and the calibration values are
32-bit numbers, as their types in the code are; capacity and cycles are any numbers, of
which 16 bits are sent. There is a gauge.

The invariant of `MeantOnly`, `OpenInv`, relates the frames under way to the unlocking: if
the gauge that is there is unlocked, or its unlocking is among the frames, then the serial
number found last is its own, the list shows it or none, and every frame behind is meant
for it. A change of the battery empties the bus and locks; after it the list may still
show the old gauge, whose unlocking the new one does not take.

`SettingsTaken` speaks of an empty bus only; its invariant `TakenInv` says what the frames
under way will make of it. The settings of a gauge fall into fields: the two halves of the
name, manufacturer, health, calibration, display. A frame may change some of them
(`Writes`) and sets some to a known value (`Sets`). A value *arrives* in a field
(`Arrives`) if the gauge has it and no frame under way changes the field, or if the last
frame that does sets it and comes behind one that unlocks the gauge. For each kind that is
`intact`, what was asked for arrives in the fields of its kind (`TakenAs`). The proof has
four parts:

* bytes: `LowWord` and `LowDWord` taken apart and put together give the number back
  (`HealthBytes`, `CalBytes`), and the name `CopyName` leaves reads as the name
  asked for, cut to its size (`NameSent`);
* frames: a frame changes the fields it writes and no other one, though manufacturer, reset
  and display share the message of the second half of the name (`Effects`, `SmallSetting`).
  This needs the type invariant `TypeInv`: such a message either carries all
  characters of the half name or keeps all of them, never some;
* the bus: frames behind keep what they do not write on its way (`ArrivesStill`), a new one
  behind its unlocking arrives (`ArrivesNew`), and a delivery brings it nearer, since the
  unlocking lasts for what follows it (`ArrivesDelivered`);
* the actions: each setter (`...Takes`) and each other step (`AllSteps`).

`TypeInv` strengthens `TypeOK` by the types of the frames, of the stored messages and of the
name in the object's buffer, which always fits it.

`TimeOfFlightProofs` proves, for any threads, settings and periods
(`TimeOfFlightConstants`), `TypeCorrect` (`Spec => []TypeOK`) and `BackInTime`
(`Spec => []SettingsBackInTime`). `BackInv`, from the first tick after the last change,
loss or power failure on: the calls under way and the frames on the bus have the settings of the
object (`Right`: time passes only when no call is between reading and sending), and the
sensor has them, or a frame is coming, or else one comes closer (`Waiting`): the
400 ms since the last frame run out, then the 10 ms in which getters look at nothing, then
the round of the program. Either time point may have been left `Wrap` ahead just before,
and adds as much. No step in between starts a wait anew: a thread that finds a frame
due, but loads a torn time point and gives up, does so beside one that is storing it and
sends; and a time point that is torn later is torn by threads that look, or send, as they
do it. When the sum (`Delay`) is over, only the first of the three is left.
For `Wrap = 0`, a build that stores 64 bits at once, the bound is that of the periods alone.
`TypeInv` adds to `TypeOK` that every thread with an object has the one of the table.

`HalCANProofs` proves, for any size of the list and number of URBs
(`HalConstants`):

| theorem | says |
|---|---|
| `TypeCorrect` | `Spec => []TypeOK` |
| `Once` | `Spec => []ClosedOnce` |
| `Accounted` | `Spec => []HandlesAccounted` |
| `DriverOpen` | `Spec => []DriverIsOpen` |
| `First` | `Spec => []FirstAdapterUsed` |

The invariant `IInv`: what the entry at work holds (`HeldNow`) is open, and the URBs not yet
armed have no event, so that none is overwritten (`OpenInv`); the candle driver is
chosen only from the set-up on (`DriverInv`); and the open handles that the entry does
not hold are two for each adapter that could not be armed (`LeakInv`): by `HandlesStep`
no step adds to them but a refused read, which adds those of the device. Closing
what the entry holds is then closing open handles, each once. `First` adds, as long as
nothing failed, that no adapter is open but the one at work (`CleanInv`) and where the
scan is (`WayInv`).

Only model-checked: liveness (`SendReturns`, `HeldFramesLeave`, the two liveness
properties of `FusionFlashUtil`, `DrainedUntilOverlap`, `PageFollowsGauge`,
`ConfigConverges`), since TLAPS does not reason about fairness and ENABLED here;
and the action properties of `HttpConnection`, which no theorem states yet: they are checked
for two connections.

## 5. What is not modelled, and why

* Most of the repository is third-party code: wpinet, wpiutil, the WPILib HAL, fmt,
  protobuf and others under `wpilib/`, and the PCAN binary. It is the environment of what
  calls it, stated where it is used. The program's own code is `main.cpp`,
  `halCAN.c`, `candle/` and `libPlayingWithFusion/`.
* Contents of CAN frames, apart from what a property tells apart; the measurements,
  which are decoded and shown as they are; logging (`SaveLog`), HTML layout, JSON wording.
* The flashing half of FusionFlashUtil (`BeginFlash`, `FlashTask`): its bodies are empty.
  `IdentifyController` sends one frame that makes a controller blink.
* Requests for static files, error answers, and the handling of one piece of data
  in smaller steps: the identify thread may change the list while a request
  looks things up in it.
* The end of the program: `HalCAN_Close` while the HTTP thread is still sending,
  and the destruction of the static objects under the threads. Nothing is promised
  there, and nothing holds.
* `XxHash32`: a pure function of a text, whose multiplications modulo 2^32 TLC cannot
  enumerate. The program calls `Add` once for each hash, so its buffering never
  carries anything from one call to another.
* `PeriodicHelper`: the calls that would give it a task are commented out.
* The C API of the gauge, which the desktop program does not contain (its table of
  handles is that of `TimeOfFlight`, its getters run the code of `GaugeConnection`),
  and the JNI bindings, wrappers without state.
* What the getters of the time of flight sensor decode; how fresh it is is decided by
  the same code as in `GaugeConnection`, static time stamp included.
* The rest of the candle library's interface, which the program does not call.

## 6. What could come next

`FormsDoNotMix` and `WholeFormsCarriedOut` of `HttpConnection` for any number of
connections.
