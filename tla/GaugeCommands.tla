---------------------------- MODULE GaugeCommands ----------------------------
(***************************************************************************)
(* The settings of a gauge on their way there and back.  A setter of       *)
(* BattFuelGaugeImpl looks the gauge's serial number up, unlocks the gauge *)
(* by it, and sends the setting in one or two frames under the object's    *)
(* identifier; nothing is acknowledged.  The gauge broadcasts its settings *)
(* and RxSlowMsgs, once a second, reads them back for the page.            *)
(*                                                                         *)
(* Batteries, each with a gauge of its own, take turns under one           *)
(* identifier.  The controller list may show the old one for a while, or   *)
(* none: see FusionFlashUtil.  Frames stay in order and may be lost: see   *)
(* TxChannel.  What the gauge does is inferred from what is sent to it.    *)
(***************************************************************************)
EXTENDS Integers, Sequences, SequencesExt

CONSTANTS
  Gauge,        \* the gauges that take turns, by serial number
  Radix,        \* 256: bytes are 0 .. Radix - 1
  FrontLen,     \* 8 characters of the nickname in one message,
  BackLen,      \* 3 in the other
  Magic,        \* 0x69, what resets the gauge
  Name, Mfg, Health, Cal, Inverted,  \* what the user may ask for
  MaxCommands, MaxSwaps, MaxFrames  \* bounds

Nobody == "nobody"  \* no serial number
Byte == 0 .. Radix - 1
DWords == 0 .. Radix * Radix * Radix * Radix - 1  \* a uint32_t

ASSUME GaugeCommandsConstants ==
  /\ Gauge # {} /\ Nobody \notin Gauge
  /\ Radix \in Nat \ {0, 1, 2} /\ FrontLen \in Nat \ {0} /\ BackLen \in Nat \ {0}
  /\ Magic \in 0 .. Radix - 2 /\ Mfg \subseteq 0 .. Radix - 2
  /\ Name \subseteq Seq(1 .. Radix - 2)
  /\ Health \subseteq [age : DWords, cap : Nat, cycles : Nat]
  /\ Cal \subseteq [offset : DWords, gain : DWords] /\ Inverted \subseteq Byte
  /\ MaxFrames \in Nat

VARIABLES
  m_serialNumber,  \* serial number found last, or Nobody
  shown,           \* the object's fields: m_szNickname and the others
  reading,         \* is RxSlowMsgs between the two messages of the name?
  bus,             \* frames under way
  canMsgMap,       \* last messages of each part, or Nothing
  present,         \* the gauge that is on the bus
  unlocked,        \* does it take commands?
  memory,          \* the settings of each gauge
  listed,          \* the gauge the controller list has under the identifier, or Nobody
  commands, swaps, \* how many there have been
  asked,           \* history: what the user last asked for, of each kind
  intact           \* history: has nothing gone wrong on the way since?

object == <<m_serialNumber, shown, reading>>
battery == <<present, unlocked, memory>>
history == <<asked, intact>>
vars == <<object, bus, canMsgMap, battery, listed, commands, swaps, history>>

Keep == Radix - 1               \* 0xFF: leaves a byte of the gauge as it is
\* The messages with settings: the one with the end of the name, and the others
\* (BatteryHealth, Calibration, MatchDeltaEnergy, Nickname1), which are stored and
\* read in one step, for no field is of two of them.
Part == {"first", "second"}
Nothing == <<>>
NameLen == FrontLen + BackLen

\* Numbers in bytes, the lowest first.
LowWord(v) == <<v % Radix, (v \div Radix) % Radix>>
LowDWord(v) == LowWord(v) \o LowWord(v \div (Radix * Radix))
Word(b, i) == b[i] + Radix * b[i + 1]
DWord(b, i) == Word(b, i) + Radix * Radix * Word(b, i + 2)
Zeros(n) == [i \in 1 .. n |-> 0]
NameFront(b) == SubSeq(b, 1, FrontLen)
NameBack(b) == SubSeq(b, FrontLen + 1, NameLen)
\* What a C string reads.
EndOf(b) == SelectInSeq(b, LAMBDA c : c = 0)
Text(b) == IF EndOf(b) = 0 THEN b ELSE SubSeq(b, 1, EndOf(b) - 1)

Memory == [name : [1 .. NameLen -> Byte], mfg : Byte, health : [1 .. 8 -> Byte],
           cal : [1 .. 8 -> Byte], inverted : {0, 1}]
Kind == {"name", "mfg", "health", "cal", "display"}
NewMemory == [name |-> Zeros(NameLen), mfg |-> 0, health |-> Zeros(8), cal |-> Zeros(8), inverted |-> 0]

\* What a gauge holds of a kind, as a number or a string.
Health_(b) == [age |-> DWord(b, 1), cap |-> Word(b, 5), cycles |-> Word(b, 7)]
Cal_(b) == [offset |-> DWord(b, 1), gain |-> DWord(b, 5)]
Held(mem, k) ==
  CASE k = "name" -> Text(mem.name) [] k = "mfg" -> mem.mfg
    [] k = "health" -> Health_(mem.health) [] k = "cal" -> Cal_(mem.cal)
    [] k = "display" -> mem.inverted

\* The members of a new object: some manufacturer, and calibration values that are
\* not initialised.
\* Which gauge is there first makes no difference.
Init ==
  /\ m_serialNumber = Nobody /\ reading = FALSE
  /\ \E c \in Cal, m \in Mfg : shown = [name |-> Zeros(NameLen + 1), mfg |-> m,
                                       health |-> Health_(Zeros(8)), cal |-> c]
  /\ bus = <<>>
  /\ canMsgMap = [part \in Part |-> Nothing]
  /\ present = (CHOOSE g \in Gauge : TRUE) /\ unlocked = FALSE /\ memory = [g \in Gauge |-> NewMemory]
  /\ listed = Nobody /\ commands = 0 /\ swaps = 0
  /\ asked = [k \in Kind |-> Held(NewMemory, k)] /\ intact = [k \in Kind |-> FALSE]

-----------------------------------------------------------------------------
(* The setters, in the server's thread. *)

\* Mutant of GetPWFControllerInfo: only the first lookup counts.
FindOnce == IF m_serialNumber # Nobody THEN m_serialNumber ELSE listed

\* The serial number listed; where none is, the one found last stays.
GetPWFControllerInfo == IF listed # Nobody THEN listed ELSE m_serialNumber

Reprog(command, s) == [id |-> "Reprog", command |-> command, serial |-> s, meant |-> s]
UnlockController(s) == Reprog("unlock", s)
Frame(id, data) == [id |-> id, data |-> data, meant |-> GetPWFControllerInfo]

\* Mutant of Send: the gauge is unlocked before it is looked up.
SendUnlocksFirst(frames) ==
  /\ ~reading /\ commands < MaxCommands /\ Len(bus) + 1 + Len(frames) <= MaxFrames
  /\ m_serialNumber' = GetPWFControllerInfo
  /\ bus' = bus \o <<UnlockController(m_serialNumber)>> \o frames
  /\ commands' = commands + 1
  /\ UNCHANGED <<reading, canMsgMap, battery, listed, swaps>>

\* What every setter does: look up, unlock, send.
Send(frames) ==
  /\ ~reading /\ commands < MaxCommands /\ Len(bus) + 1 + Len(frames) <= MaxFrames
  /\ m_serialNumber' = GetPWFControllerInfo
  /\ bus' = bus \o <<UnlockController(m_serialNumber')>> \o frames
  /\ commands' = commands + 1
  /\ UNCHANGED <<reading, canMsgMap, battery, listed, swaps>>

\* The user asked the gauge that is listed, and it is the one that is there.
Ask(k, value) ==
  /\ asked' = [asked EXCEPT ![k] = value]
  /\ intact' = [intact EXCEPT ![k] = (listed = present)]

\* Mutant of CopyName: room is not left for the terminator.
CopyNameFull(name) ==
  LET len == IF Len(name) < NameLen + 1 THEN Len(name) ELSE NameLen + 1 IN
  [i \in 1 .. (IF len > NameLen THEN len + 1 ELSE NameLen + 1) |->
     IF i <= len THEN name[i] ELSE IF i = len + 1 THEN 0 ELSE shown.name[i]]

\* name.copy into m_szNickname, cut to its size, and the terminator; what is
\* behind it stays.
CopyName(name) ==
  LET len == IF Len(name) < NameLen THEN Len(name) ELSE NameLen IN
  [i \in 1 .. NameLen + 1 |->
     IF i <= len THEN name[i] ELSE IF i = len + 1 THEN 0 ELSE shown.name[i]]

SetNickname(name) ==
  LET sz == CopyName(name) IN
  /\ Send(<<Frame("SetNickname1", NameFront(sz)), Frame("SetNickname2", NameBack(sz))>>)
  /\ shown' = [shown EXCEPT !.name = sz]
  /\ Ask("name", IF Len(name) > NameLen THEN SubSeq(name, 1, NameLen) ELSE name)

\* The second nickname message carries the other small settings behind the name;
\* the bytes before them say: keep.
Kept(n) == [i \in 1 .. n |-> Keep]

\* Mutant of SetManufacturer: the bytes in front are zero.
SetManufacturerZeros(mfgId) ==
  /\ Send(<<Frame("SetNickname2", Zeros(BackLen) \o <<mfgId>>)>>)
  /\ UNCHANGED shown /\ Ask("mfg", mfgId)

SetManufacturer(mfgId) ==
  /\ Send(<<Frame("SetNickname2", Kept(BackLen) \o <<mfgId>>)>>)
  /\ UNCHANGED shown /\ Ask("mfg", mfgId)

\* Capacity, in mAh, and cycles are cast to 16 bits on their way.
SetBatteryAge(h) ==
  /\ Send(<<Frame("SetHealth", LowDWord(h.age) \o LowWord(h.cap) \o LowWord(h.cycles))>>)
  /\ UNCHANGED shown
  /\ Ask("health", [age |-> h.age, cap |-> h.cap % (Radix * Radix), cycles |-> h.cycles % (Radix * Radix)])

SetCalibrationVals(c) ==
  /\ Send(<<Frame("SetCalibration", LowDWord(c.offset) \o LowDWord(c.gain))>>)
  /\ UNCHANGED shown /\ Ask("cal", c)

SetDisplay(inverted) ==
  /\ Send(<<Frame("SetNickname2", Kept(BackLen + 2) \o <<IF inverted # 0 THEN 1 ELSE 0>>)>>)
  /\ UNCHANGED shown /\ Ask("display", IF inverted # 0 THEN 1 ELSE 0)

\* The gauge is asked to forget, or to measure: what it then holds is its own.
ResetAllBatteryStats ==
  /\ Send(<<Frame("SetNickname2", Kept(BackLen + 1) \o <<Magic>>)>>)
  /\ intact' = [intact EXCEPT !["health"] = FALSE] /\ UNCHANGED <<shown, asked>>

\* Of the offset or of the gain.
InitiateCurrentCalibration ==
  /\ Send(<<Reprog("calibrate", GetPWFControllerInfo)>>)
  /\ intact' = [intact EXCEPT !["cal"] = FALSE] /\ UNCHANGED <<shown, asked>>

Setter ==
  \/ \E n \in Name : SetNickname(n)
  \/ \E m \in Mfg : SetManufacturer(m)
  \/ \E h \in Health : SetBatteryAge(h)
  \/ \E c \in Cal : SetCalibrationVals(c)
  \/ \E i \in Inverted : SetDisplay(i)
  \/ ResetAllBatteryStats \/ InitiateCurrentCalibration

-----------------------------------------------------------------------------
(* RxSlowMsgs, in the server's thread: main stores messages meanwhile. *)

\* Mutant of ReadNickname2: it is taken for the first half.
ReadNickname2First(b) == [shown EXCEPT !.name = b \o SubSeq(@, BackLen + 1, NameLen + 1)]

ReadSlow(m) ==
  [health |-> Health_(m.health), cal |-> Cal_(m.cal), mfg |-> m.mfg,
   name |-> m.front \o SubSeq(shown.name, FrontLen + 1, NameLen + 1)]
ReadNickname2(b) == [shown EXCEPT !.name = NameFront(@) \o b \o <<0>>]

\* What never came is passed over.
RxSlowMsgs ==
  /\ LET part == IF reading THEN "second" ELSE "first" IN
     shown' = IF canMsgMap[part] = Nothing THEN shown
              ELSE IF reading THEN ReadNickname2(canMsgMap[part]) ELSE ReadSlow(canMsgMap[part])
  /\ reading' = ~reading
  /\ UNCHANGED <<m_serialNumber, bus, canMsgMap, battery, listed, commands, swaps, history>>

-----------------------------------------------------------------------------
(* The gauge and the bus. *)

Over(old, new) == [i \in DOMAIN old |-> IF i \in DOMAIN new /\ new[i] # Keep THEN new[i] ELSE old[i]]
At(b, i, old) == IF i \in DOMAIN b /\ b[i] # Keep THEN b[i] ELSE old

\* What an unlocked gauge makes of a setting.
Taken(mem, f) ==
  CASE f.id = "SetNickname1" -> {[mem EXCEPT !.name = f.data \o NameBack(@)]}
    [] f.id = "SetNickname2" ->
         LET set == [mem EXCEPT !.name = NameFront(@) \o Over(NameBack(@), f.data),
                                !.mfg = At(f.data, BackLen + 1, @),
                                !.inverted = At(f.data, BackLen + 3, @)]
         IN IF At(f.data, BackLen + 2, Keep) = Magic
            THEN {[set EXCEPT !.health = Zeros(8)], set} ELSE {set}
    [] f.id = "SetHealth" -> {[mem EXCEPT !.health = f.data]}
    [] f.id = "SetCalibration" -> {[mem EXCEPT !.cal = f.data]}
    [] f.id = "Reprog" -> {[mem EXCEPT !.cal = LowDWord(c.offset) \o LowDWord(c.gain)] : c \in Cal}

Deliver ==
  /\ bus # <<>> /\ bus' = Tail(bus)
  /\ LET f == Head(bus) IN
     \/ /\ f.id = "Reprog" /\ f.serial # present /\ UNCHANGED <<unlocked, memory>>
     \/ /\ f.id = "Reprog" /\ f.serial = present /\ f.command = "unlock"
        /\ unlocked' = TRUE /\ UNCHANGED memory
     \/ /\ f.id = "Reprog" => f.serial = present /\ f.command # "unlock"
        /\ IF unlocked THEN \E mem \in Taken(memory[present], f) : memory' = [memory EXCEPT ![present] = mem]
                       ELSE UNCHANGED memory
        /\ UNCHANGED unlocked
  /\ UNCHANGED <<object, canMsgMap, present, listed, commands, swaps, history>>

\* A frame finds no room in the driver, or dies on the way.
Lose ==
  /\ bus # <<>> /\ bus' = Tail(bus)
  /\ intact' = [k \in Kind |-> FALSE]
  /\ UNCHANGED <<object, canMsgMap, battery, listed, commands, swaps, asked>>

\* The unlocking lasts for the frames that follow it, and no one knows how much longer.
Relock ==
  /\ bus = <<>> /\ unlocked' = FALSE
  /\ UNCHANGED <<object, bus, canMsgMap, present, memory, listed, commands, swaps, history>>

\* The battery is changed: what was under way finds no one, and the other gauge
\* starts locked.
Swap(g) ==
  /\ g # present /\ swaps < MaxSwaps
  /\ present' = g /\ unlocked' = FALSE /\ bus' = <<>> /\ swaps' = swaps + 1
  /\ intact' = [k \in Kind |-> FALSE]
  /\ UNCHANGED <<object, canMsgMap, memory, listed, commands, asked>>

\* The list comes to show the gauge that is there, or for a while none.
Identified(g) ==
  /\ g \in {present, Nobody} /\ listed' = g
  /\ UNCHANGED <<object, bus, canMsgMap, battery, commands, swaps, history>>

\* A broadcast of the gauge, stored by main.  One that is lost is no step.
Content(part, mem) ==
  IF part = "second" THEN NameBack(mem.name)
  ELSE [health |-> mem.health, cal |-> mem.cal, mfg |-> mem.mfg, front |-> NameFront(mem.name)]
Broadcast(part) ==
  /\ canMsgMap' = [canMsgMap EXCEPT ![part] = Content(part, memory[present])]
  /\ UNCHANGED <<object, bus, battery, listed, commands, swaps, history>>

Next ==
  \/ Setter \/ RxSlowMsgs \/ Deliver \/ Lose \/ Relock
  \/ \E g \in Gauge : Swap(g)
  \/ \E g \in Gauge \cup {Nobody} : Identified(g)
  \/ \E part \in Part : Broadcast(part)

\* Frames are sent or lost, every broadcast is repeated, and the page polls.
Fairness ==
  /\ WF_vars(Deliver \/ Lose) /\ WF_vars(RxSlowMsgs)
  /\ \A part \in Part : WF_vars(Broadcast(part))

Spec == Init /\ [][Next]_vars /\ Fairness

-----------------------------------------------------------------------------
TypeOK ==
  /\ m_serialNumber \in Gauge \cup {Nobody} /\ listed \in Gauge \cup {Nobody}
  /\ DOMAIN shown.name = 1 .. NameLen + 1 /\ shown.mfg \in Byte
  /\ reading \in BOOLEAN
  /\ Len(bus) <= MaxFrames
  /\ present \in Gauge /\ unlocked \in BOOLEAN /\ memory \in [Gauge -> Memory]
  /\ intact \in [Kind -> BOOLEAN]

\* A setting whose frames all arrived is in the gauge as it was asked for: cut to
\* its size, and not touched by the settings that were sent after it, which share
\* its message; and the gauge the list showed was unlocked for it
\* (BattFuelGaugeImpl.cpp:306-473).
SettingsTaken ==
  bus = <<>> => \A k \in Kind : intact[k] => Held(memory[present], k) = asked[k]

\* No gauge takes a setting that was meant for another one, however the batteries
\* are changed and however far the list lags behind: the unlocking, by serial
\* number, sees to it (FusionFlashUtil.cpp:208-223, BattFuelGaugeImpl.cpp:46-59).
OnlyTheOneMeant ==
  [][\A g \in Gauge : memory'[g] # memory[g] => Head(bus).meant = g]_vars

Shows(mem) ==
  /\ Text(shown.name) = Text(mem.name) /\ shown.mfg = mem.mfg
  /\ shown.health = Health_(mem.health) /\ shown.cal = Cal_(mem.cal)

\* Once no more is asked and no battery changed, the page comes to show what the
\* gauge holds, whatever was lost on the way, and not what was asked for
\* (BattFuelGaugeImpl.cpp:543-808): MaxCommands and MaxSwaps make both cease.
PageFollowsGauge == <>[]Shows(memory[present])
=============================================================================
