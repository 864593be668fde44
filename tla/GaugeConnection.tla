-------------------------- MODULE GaugeConnection ---------------------------
(***************************************************************************)
(* How a BattFuelGaugeImpl follows its gauge: main stores the last message *)
(* of each kind in canMsgMap; ExecuteTask, in the server's thread, reads   *)
(* the last Power message there; RxFastMsgs shows what it says, takes it   *)
(* for a new one if its time stamp is not the last one seen, and           *)
(* IsConnected holds for two seconds after a new one.                      *)
(*                                                                         *)
(* canMsgMap has no lock.  Both threads copy an entry word by word, in an  *)
(* order the compiler chose, and while an identifier is added the table    *)
(* may be rehashed under the other thread's search, which may then miss    *)
(* what is there.  It may also crash, and so may the second search, that   *)
(* of operator[] (main.cpp:184): if it misses what the first has found, it *)
(* adds an entry while main adds one.  There the behaviour ends.           *)
(*                                                                         *)
(* The stamp last seen is a static local of RxFastMsgs: one for all the    *)
(* objects.  Time goes by in ticks of FastPeriod, 10 ms, and none goes by  *)
(* inside a copy; times past the point where they matter are capped.       *)
(***************************************************************************)
EXTENDS Integers

CONSTANTS
  Gauge,      \* the gauge objects in use
  Reading,    \* what a Power message may say; 0 is what a new object shows
  Window,     \* 2000 ms, in ticks
  PollEvery,  \* the page asks for the state at least this often: 1000 ms
  StampMod,   \* time stamps are milliseconds modulo 2^32 / 1000
  MaxGrow     \* bound on the identifiers other devices add to the table

ASSUME ConnectionConstants ==
  /\ Reading \subseteq Nat \ {0}
  /\ Window \in Nat /\ PollEvery \in Nat /\ StampMod \in Nat /\ MaxGrow \in Nat
  /\ 0 < PollEvery /\ PollEvery < Window /\ PollEvery < StampMod

VARIABLES
  clock,          \* the adapter's clock, as messages are stamped with it
  canMsgMap,      \* the words of the entry of each gauge's Power message
  present,        \* the gauges that have an entry
  storing,        \* main: the message it stores and the words still to copy
  growing,        \* main: is it adding an identifier to the table?
  grown,          \* number of identifiers other devices have added
  polling,        \* server: the gauge it reads, the words it has, those to copy
  lastTimestamp,  \* RxFastMsgs' static local
  shown,          \* what each object shows
  fastAge,        \* time since lastFastMsgRx of each object
  powerAge,       \* time since lastPowerMsgRx of each object
  said,           \* history: what the last Power message of each gauge said
  heardAge,       \* history: time since that message
  unread,         \* history: has its object polled, undisturbed, since?
  twin,           \* history: did it bear the stamp last seen?
  missed,         \* history: polls that main disturbed since that message
  disturbed       \* history: did main touch the table during this poll?

table == <<canMsgMap, present, storing, growing, grown>>
object == <<lastTimestamp, shown, powerAge>>
history == <<said, heardAge, unread, twin, missed>>
vars == <<clock, table, polling, object, fastAge, history, disturbed>>

Stamp == 0 .. StampMod - 1
Long == Window + (2 + MaxGrow) * PollEvery     \* the cap on times
Older(age) == [g \in Gauge |-> IF age[g] < Long THEN age[g] + 1 ELSE Long]

Word == {"LEN", "DATA", "millis"}
Entry == [LEN : {0, 8}, DATA : Reading \cup {0}, millis : Stamp]
Zeroed == [LEN |-> 0, DATA |-> 0, millis |-> 0]
Idle == [words |-> {}]
Storing == [gauge : Gauge, msg : Entry, words : SUBSET Word]
Polling == [gauge : Gauge, found : BOOLEAN, msg : Entry, words : SUBSET Word]

\* The time points of a new object are the epoch of steady_clock, long ago.
Init ==
  /\ clock \in Stamp
  /\ canMsgMap = [g \in Gauge |-> Zeroed] /\ present = {}
  /\ storing = Idle /\ growing = FALSE /\ grown = 0 /\ polling = Idle
  /\ lastTimestamp = 0 /\ shown = [g \in Gauge |-> 0]
  /\ fastAge = [g \in Gauge |-> 1]
  /\ powerAge = [g \in Gauge |-> Long] /\ heardAge = [g \in Gauge |-> Long]
  /\ said = [g \in Gauge |-> 0]
  /\ unread = [g \in Gauge |-> FALSE] /\ twin = [g \in Gauge |-> FALSE]
  /\ missed = [g \in Gauge |-> 0] /\ disturbed = FALSE

-----------------------------------------------------------------------------
(* main: RecieveCANMessages. *)

MainIdle == storing = Idle /\ ~growing

\* A Power message of g arrives: canMsgMap[ID] finds its entry, or adds one that
\* is all zero; the assignment has yet to copy the words.
Power(g, d) ==
  /\ MainIdle
  /\ storing' = [gauge |-> g, msg |-> [LEN |-> 8, DATA |-> d, millis |-> clock], words |-> Word]
  /\ growing' = (g \notin present) /\ present' = present \cup {g}
  /\ said' = [said EXCEPT ![g] = d] /\ heardAge' = [heardAge EXCEPT ![g] = 0]
  /\ unread' = [unread EXCEPT ![g] = TRUE]
  /\ twin' = [twin EXCEPT ![g] = (clock = lastTimestamp)]
  /\ missed' = [missed EXCEPT ![g] = 0]
  /\ disturbed' = TRUE
  /\ UNCHANGED <<clock, canMsgMap, grown, polling, object, fastAge>>

\* One word of the assignment; the table is whole again before the first.
Store(w) ==
  /\ w \in storing.words
  /\ canMsgMap' = [canMsgMap EXCEPT ![storing.gauge][w] = storing.msg[w]]
  /\ storing' = IF storing.words = {w} THEN Idle ELSE [storing EXCEPT !.words = @ \ {w}]
  /\ growing' = FALSE /\ disturbed' = TRUE
  /\ UNCHANGED <<clock, present, grown, polling, object, fastAge, history>>

\* A message with an identifier that is not in the table yet, of any device.
Grow ==
  /\ MainIdle /\ grown < MaxGrow /\ grown' = grown + 1
  /\ growing' = TRUE /\ disturbed' = TRUE
  /\ UNCHANGED <<clock, canMsgMap, present, storing, polling, object, fastAge, history>>

Grown ==
  /\ growing /\ storing = Idle /\ growing' = FALSE
  /\ UNCHANGED <<clock, canMsgMap, present, storing, grown, polling, object, fastAge, history, disturbed>>

-----------------------------------------------------------------------------
(* The server's thread: ExecuteTask. *)

\* receiveMessage looks the entry up: a table that is being changed may hide it.
Find(g) ==
  /\ fastAge[g] >= 1 /\ polling = Idle
  /\ fastAge' = [fastAge EXCEPT ![g] = 0]
  /\ \E found \in BOOLEAN :
       /\ found => g \in present
       /\ ~found => g \notin present \/ growing
       /\ polling' = [gauge |-> g, found |-> found, msg |-> Zeroed,
                      words |-> IF found THEN Word ELSE {}]
  /\ disturbed' = ~MainIdle
  /\ UNCHANGED <<clock, table, object, history>>

\* One word of canMsg = canMsgMap[*id], which finds the entry too, or the behaviour ends.
Load(w) ==
  /\ polling # Idle /\ w \in polling.words
  /\ polling' = [polling EXCEPT !.msg[w] = canMsgMap[polling.gauge][w], !.words = @ \ {w}]
  /\ UNCHANGED <<clock, table, object, fastAge, history, disturbed>>

Show(g, d) == shown' = [shown EXCEPT ![g] = d]
Fresh(g, t) == lastTimestamp' = t /\ powerAge' = [powerAge EXCEPT ![g] = 0]
Stale == UNCHANGED <<lastTimestamp, powerAge>>

\* Mutant of RxFastMsgs: the stamp is kept in microseconds.
RxFastMicros(g, found, m) ==
  IF found /\ m.LEN = 8
  THEN Show(g, m.DATA) /\ IF m.millis # lastTimestamp THEN Fresh(g, m.millis * 1000) ELSE Stale
  ELSE UNCHANGED object

\* Mutant of RxFastMsgs: later stamps count, as if they never wrapped.
RxFastLater(g, found, m) ==
  IF found /\ m.LEN = 8
  THEN Show(g, m.DATA) /\ IF m.millis > lastTimestamp THEN Fresh(g, m.millis) ELSE Stale
  ELSE UNCHANGED object

\* Mutant of RxFastMsgs: the stamp is not remembered.
RxFastForgets(g, found, m) ==
  IF found /\ m.LEN = 8
  THEN /\ Show(g, m.DATA)
       /\ powerAge' = IF m.millis # lastTimestamp THEN [powerAge EXCEPT ![g] = 0] ELSE powerAge
       /\ UNCHANGED lastTimestamp
  ELSE UNCHANGED object

\* Mutant of RxFastMsgs: a message that is not new is not decoded either.
RxFastNewOnly(g, found, m) ==
  IF found /\ m.LEN = 8 /\ m.millis # lastTimestamp
  THEN Show(g, m.DATA) /\ Fresh(g, m.millis) ELSE UNCHANGED object

\* RxFastMsgs, of the copy m: it is decoded whenever one of length 8 was found,
\* and counts as new if its stamp is not the last one seen.
RxFastMsgs(g, found, m) ==
  IF found /\ m.LEN = 8
  THEN Show(g, m.DATA) /\ IF m.millis # lastTimestamp THEN Fresh(g, m.millis) ELSE Stale
  ELSE UNCHANGED object

Polled ==
  /\ polling # Idle /\ polling.words = {}
  /\ RxFastMsgs(polling.gauge, polling.found, polling.msg)
  /\ unread' = [unread EXCEPT ![polling.gauge] = @ /\ disturbed]
  /\ missed' = [missed EXCEPT ![polling.gauge] = IF disturbed /\ @ <= MaxGrow THEN @ + 1 ELSE @]
  /\ polling' = Idle
  /\ UNCHANGED <<clock, table, fastAge, said, heardAge, twin, disturbed>>

\* Time goes by, but every object is polled in time.
Tick ==
  /\ MainIdle /\ polling = Idle
  /\ \A g \in Gauge : fastAge[g] < PollEvery
  /\ clock' = (clock + 1) % StampMod
  /\ fastAge' = Older(fastAge) /\ powerAge' = Older(powerAge) /\ heardAge' = Older(heardAge)
  /\ UNCHANGED <<table, polling, lastTimestamp, shown, said, unread, twin, missed, disturbed>>

Next ==
  \/ \E g \in Gauge : (\E d \in Reading : Power(g, d)) \/ Find(g)
  \/ \E w \in Word : Store(w) \/ Load(w)
  \/ Grow \/ Grown \/ Polled \/ Tick

Spec == Init /\ [][Next]_vars

-----------------------------------------------------------------------------
IsConnected(g) == powerAge[g] < Window

TypeOK ==
  /\ clock \in Stamp /\ lastTimestamp \in Stamp
  /\ canMsgMap \in [Gauge -> Entry] /\ present \subseteq Gauge
  /\ storing \in Storing \cup {Idle} /\ polling \in Polling \cup {Idle}
  /\ shown \in [Gauge -> Reading \cup {0}] /\ said \in [Gauge -> Reading \cup {0}]
  /\ fastAge \in [Gauge -> 0 .. PollEvery]
  /\ powerAge \in [Gauge -> 0 .. Long] /\ heardAge \in [Gauge -> 0 .. Long]
  /\ unread \in [Gauge -> BOOLEAN] /\ twin \in [Gauge -> BOOLEAN]
  /\ growing \in BOOLEAN /\ disturbed \in BOOLEAN
  /\ grown \in 0 .. MaxGrow /\ missed \in [Gauge -> 0 .. MaxGrow + 1]

\* A connected gauge was heard in the last two seconds, give or take the time
\* between two polls, once more for each poll that met main in the table: it may
\* miss the message, and the next one finds it, late.  Of one object this is so;
\* of several it is not, for each makes the others' old messages look new
\* (BattFuelGaugeImpl.cpp:493, 516-520).
ConnectedWasHeard ==
  \A g \in Gauge : IsConnected(g) => heardAge[g] < Window + (1 + missed[g]) * PollEvery

\* A gauge that was heard, and polled undisturbed since, is connected for two
\* seconds, also when the stamps wrap, several messages share one, or a poll
\* before it saw half a message or none.  The exception is a message that, after
\* a silence, bears the very stamp last seen, or the zero lastTimestamp starts
\* with (BattFuelGaugeImpl.cpp:493, 516).
HeardIsConnected ==
  \A g \in Gauge :
    ~unread[g] /\ heardAge[g] < Window => IsConnected(g) \/ twin[g]

\* What an object shows is what its gauge said last, from the first poll on that
\* main did not disturb: a torn reading does not outlive it, and a message is
\* shown though its stamp be the last one seen (main.cpp:76, 184; BattFuelGaugeImpl.cpp:505-520).
ShownIsLast == \A g \in Gauge : ~unread[g] => shown[g] = said[g]
=============================================================================
