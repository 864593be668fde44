------------------------ MODULE GaugeConnectionProofs ------------------------
(***************************************************************************)
(* What a gauge object shows, for any number of objects and any readings,  *)
(* though it copies messages from a table that main is writing to.         *)
(***************************************************************************)
EXTENDS GaugeConnection, TLAPS

LEMMA Caps == Long \in Nat /\ PollEvery \in Nat /\ PollEvery <= Long
<1>1. (2 + MaxGrow) * PollEvery \in Nat
  BY ConnectionConstants
<1> QED
  BY <1>1, ConnectionConstants DEF Long

\* Each step of main keeps the types...
LEMMA MainTypes ==
  ASSUME TypeOK,
         \/ \E g \in Gauge : \E d \in Reading : Power(g, d)
         \/ \E w \in Word : Store(w)
         \/ Grow \/ Grown
  PROVE  TypeOK'
<1> USE DEF TypeOK, object, history
<1>1. CASE \E g \in Gauge : \E d \in Reading : Power(g, d)
  <2> PICK g \in Gauge, d \in Reading : Power(g, d)
    BY <1>1
  <2>1. storing' \in Storing
    <3>1. [LEN |-> 8, DATA |-> d, millis |-> clock] \in Entry
      BY DEF Entry
    <3> QED
      BY <3>1 DEF Power, Storing
  <2>2. said' \in [Gauge -> Reading \cup {0}] /\ heardAge' \in [Gauge -> 0 .. Long]
    BY Caps DEF Power
  <2>3. unread' \in [Gauge -> BOOLEAN] /\ twin' \in [Gauge -> BOOLEAN] /\ missed' \in [Gauge -> 0 .. MaxGrow + 1]
    BY ConnectionConstants DEF Power
  <2> QED
    BY <2>1, <2>2, <2>3 DEF Power
<1>2. CASE \E w \in Word : Store(w)
  <2> PICK w \in Word : Store(w)
    BY <1>2
  <2>1. storing \in Storing
    BY DEF Store, Idle
  <2>2. canMsgMap' \in [Gauge -> Entry]
    BY <2>1 DEF Store, Storing, Entry, Word
  <2>3. storing' \in Storing \cup {Idle}
    BY <2>1 DEF Store, Storing
  <2> QED
    BY <2>2, <2>3 DEF Store
<1>3. CASE Grow
  BY <1>3, ConnectionConstants DEF Grow
<1>4. CASE Grown
  BY <1>4 DEF Grown
<1> QED
  BY <1>1, <1>2, <1>3, <1>4

\* ... each step of the server's thread...
LEMMA PollTypes ==
  ASSUME TypeOK,
         \/ \E g \in Gauge : Find(g)
         \/ \E w \in Word : Load(w)
         \/ Polled
  PROVE  TypeOK'
<1> USE DEF TypeOK, object, history, table
<1>1. CASE \E g \in Gauge : Find(g)
  <2> PICK g \in Gauge : Find(g)
    BY <1>1
  <2>1. Zeroed \in Entry
    BY ConnectionConstants DEF Zeroed, Entry, Stamp
  <2>2. polling' \in Polling
    BY <2>1 DEF Find, Polling
  <2>3. fastAge' \in [Gauge -> 0 .. PollEvery] /\ disturbed' \in BOOLEAN
    BY Caps DEF Find, MainIdle
  <2> QED
    BY <2>2, <2>3 DEF Find
<1>2. CASE \E w \in Word : Load(w)
  <2> PICK w \in Word : Load(w)
    BY <1>2
  <2>1. polling \in Polling
    BY DEF Load
  <2>2. polling' \in Polling
    BY <2>1 DEF Load, Polling, Entry, Word
  <2> QED
    BY <2>2 DEF Load
<1>3. CASE Polled
  <2>1. polling \in Polling
    BY <1>3 DEF Polled
  <2>2. polling.gauge \in Gauge /\ polling.msg.DATA \in Reading \cup {0} /\ polling.msg.millis \in Stamp
    BY <2>1 DEF Polling, Entry
  <2>3. shown' \in [Gauge -> Reading \cup {0}]
    BY <1>3, <2>2 DEF Polled, RxFastMsgs, Show
  <2>4. lastTimestamp' \in Stamp /\ powerAge' \in [Gauge -> 0 .. Long]
    BY <1>3, <2>2, Caps DEF Polled, RxFastMsgs, Fresh, Stale
  <2>5. unread' \in [Gauge -> BOOLEAN]
    BY <1>3, <2>2 DEF Polled
  <2>6. missed' \in [Gauge -> 0 .. MaxGrow + 1]
    BY <1>3, <2>2, ConnectionConstants DEF Polled
  <2> QED
    BY <1>3, <2>3, <2>4, <2>5, <2>6 DEF Polled
<1> QED
  BY <1>1, <1>2, <1>3

\* ... the initial state has them...
LEMMA TypeInit == Init => TypeOK
<1> SUFFICES ASSUME Init PROVE TypeOK
  OBVIOUS
<1>1. Zeroed \in Entry /\ lastTimestamp \in Stamp
  BY ConnectionConstants DEF Init, Zeroed, Entry, Stamp
<1>2. fastAge \in [Gauge -> 0 .. PollEvery] /\ missed \in [Gauge -> 0 .. MaxGrow + 1] /\ grown \in 0 .. MaxGrow
  BY ConnectionConstants DEF Init
<1>3. powerAge \in [Gauge -> 0 .. Long] /\ heardAge \in [Gauge -> 0 .. Long]
  BY Caps DEF Init
<1> QED
  BY <1>1, <1>2, <1>3 DEF Init, TypeOK

\* ... and so does every step.
LEMMA TypeStep == TypeOK /\ [Next]_vars => TypeOK'
<1> SUFFICES ASSUME TypeOK, [Next]_vars PROVE TypeOK'
  OBVIOUS
<1>1. CASE Tick
  <2> USE DEF TypeOK
  <2>1. clock' \in Stamp
    BY <1>1, ConnectionConstants DEF Tick, Stamp
  <2>2. fastAge' \in [Gauge -> 0 .. PollEvery]
    BY <1>1, Caps DEF Tick, Older
  <2>3. powerAge' \in [Gauge -> 0 .. Long] /\ heardAge' \in [Gauge -> 0 .. Long]
    BY <1>1, Caps DEF Tick, Older
  <2> QED
    BY <1>1, <2>1, <2>2, <2>3 DEF Tick, table
<1>2. CASE UNCHANGED vars
  BY <1>2 DEF TypeOK, vars, table, object, history
<1> QED
  BY <1>1, <1>2, MainTypes, PollTypes DEF Next

\* Every value has its type, times their caps, and the stamp last seen is a stamp of
\* the adapter's clock, for any number of objects and any window
\* (BattFuelGaugeImpl.cpp:476-521).
THEOREM TypeCorrect == Spec => []TypeOK
BY TypeInit, TypeStep, PTL DEF Spec

-----------------------------------------------------------------------------
(* ShownIsLast. *)

\* A gauge without an entry has said nothing, and none is found.
Absent ==
  /\ \A g \in Gauge : g \notin present => said[g] = 0 /\ shown[g] = 0
  /\ polling # Idle => (polling.found => polling.gauge \in present)

\* A message half stored is one its object has yet to read; the words copied are
\* its own, and all other entries are what was said last.
Stored ==
  /\ storing # Idle =>
       /\ storing.msg.LEN = 8 /\ storing.msg.DATA = said[storing.gauge]
       /\ unread[storing.gauge] /\ storing.gauge \in present
       /\ \A w \in Word \ storing.words : canMsgMap[storing.gauge][w] = storing.msg[w]
  /\ \A g \in present : storing = Idle \/ storing.gauge # g =>
       canMsgMap[g].LEN = 8 /\ canMsgMap[g].DATA = said[g]

\* A poll that main does not disturb finds what is there, and what it has copied,
\* or copied of a gauge that has said nothing since, is what the entry holds.
Copied ==
  polling # Idle =>
    /\ ~MainIdle => disturbed
    /\ ~disturbed => (polling.gauge \in present => polling.found)
    /\ ~disturbed \/ ~unread[polling.gauge] =>
         (polling.found => \A w \in Word \ polling.words :
                             polling.msg[w] = canMsgMap[polling.gauge][w])

ShowInv == TypeOK /\ Absent /\ Stored /\ Copied /\ ShownIsLast

LEMMA PowerShow ==
  ASSUME ShowInv, TypeOK', NEW g \in Gauge, NEW d \in Reading, Power(g, d)
  PROVE  ShowInv'
<1> USE DEF ShowInv, TypeOK, object
<1>1. /\ storing = Idle /\ ~growing
      /\ storing' = [gauge |-> g, msg |-> [LEN |-> 8, DATA |-> d, millis |-> clock], words |-> Word]
      /\ storing' # Idle /\ disturbed'
      /\ UNCHANGED <<canMsgMap, polling, shown>>
      /\ present' = present \cup {g}
      /\ said' = [said EXCEPT ![g] = d] /\ unread' = [unread EXCEPT ![g] = TRUE]
  BY DEF Power, MainIdle, Idle
<1>2. Absent'
  BY <1>1 DEF Absent
<1>3. Stored'
  BY <1>1 DEF Stored
<1>4. Copied'
  <2>1. ASSUME polling # Idle PROVE polling.gauge \in Gauge
    BY <2>1 DEF Polling
  <2> QED
    BY <1>1, <2>1 DEF Copied
<1>5. ShownIsLast'
  BY <1>1 DEF ShownIsLast
<1> QED
  BY <1>2, <1>3, <1>4, <1>5

LEMMA StoreShow ==
  ASSUME ShowInv, TypeOK', NEW w \in Word, Store(w)
  PROVE  ShowInv'
<1> USE DEF ShowInv, TypeOK, object, history
<1>1. storing \in Storing /\ storing # Idle /\ storing.gauge \in Gauge
  BY DEF Store, Idle, Storing
<1>2. /\ canMsgMap' = [canMsgMap EXCEPT ![storing.gauge][w] = storing.msg[w]]
      /\ storing' = (IF storing.words = {w} THEN Idle ELSE [storing EXCEPT !.words = @ \ {w}])
      /\ growing' = FALSE /\ disturbed' = TRUE
      /\ UNCHANGED <<present, polling, shown, said, unread>>
  BY DEF Store
<1>3. Absent'
  BY <1>2 DEF Absent
<1>4. \A g \in Gauge : g # storing.gauge => canMsgMap'[g] = canMsgMap[g]
  BY <1>2
<1>5. \A v \in Word \ (storing.words \ {w}) : canMsgMap'[storing.gauge][v] = storing.msg[v]
  <2> SUFFICES ASSUME NEW v \in Word \ (storing.words \ {w})
               PROVE  canMsgMap'[storing.gauge][v] = storing.msg[v]
    OBVIOUS
  <2>1. DOMAIN canMsgMap[storing.gauge] = Word
    BY <1>1 DEF Entry, Word
  <2>2. CASE v = w
    BY <1>1, <1>2, <2>1, <2>2
  <2>3. CASE v # w
    BY <1>1, <1>2, <2>1, <2>3 DEF Stored
  <2> QED
    BY <2>2, <2>3
<1>6. Stored'
  <2>1. CASE storing.words = {w}
    <3>1. storing' = Idle
      BY <1>2, <2>1
    <3>2. canMsgMap'[storing.gauge].LEN = 8 /\ canMsgMap'[storing.gauge].DATA = said[storing.gauge]
      BY <1>1, <1>5, <2>1 DEF Stored, Word
    <3>3. ASSUME NEW g \in present PROVE canMsgMap'[g].LEN = 8 /\ canMsgMap'[g].DATA = said[g]
      BY <1>1, <1>4, <3>2 DEF Stored
    <3> QED
      BY <1>2, <3>1, <3>3 DEF Stored
  <2>2. CASE storing.words # {w}
    <3>1. /\ storing'.gauge = storing.gauge /\ storing'.msg = storing.msg
          /\ storing'.words = storing.words \ {w} /\ storing' # Idle
      BY <1>1, <1>2, <2>2 DEF Storing, Idle
    <3>2. /\ storing.msg.LEN = 8 /\ storing.msg.DATA = said[storing.gauge]
          /\ unread[storing.gauge] /\ storing.gauge \in present
      BY <1>1 DEF Stored
    <3>3. ASSUME NEW g \in present, storing.gauge # g
          PROVE  canMsgMap'[g].LEN = 8 /\ canMsgMap'[g].DATA = said[g]
      BY <1>1, <1>4, <3>3 DEF Stored
    <3> QED
      BY <1>2, <1>5, <3>1, <3>2, <3>3 DEF Stored
  <2> QED
    BY <2>1, <2>2
<1>7. Copied'
  <2> SUFFICES ASSUME polling # Idle PROVE Copied'
    BY <1>2 DEF Copied
  <2>1. polling.gauge \in Gauge
    BY DEF Polling
  <2>2. ~unread[polling.gauge] => polling.gauge # storing.gauge
    BY <1>1 DEF Stored
  <2> QED
    BY <1>2, <1>4, <2>1, <2>2 DEF Copied
<1>8. ShownIsLast'
  BY <1>2 DEF ShownIsLast
<1> QED
  BY <1>3, <1>6, <1>7, <1>8

\* Other identifiers disturb, and do nothing else.
LEMMA GrowShow ==
  ASSUME ShowInv, TypeOK', Grow \/ Grown
  PROVE  ShowInv'
<1> USE DEF ShowInv, object, history
<1>1. /\ UNCHANGED <<storing, canMsgMap, polling, present, shown, said, unread>>
      /\ disturbed' = TRUE \/ (disturbed' = disturbed /\ growing' = FALSE)
  BY DEF Grow, Grown
<1>2. Copied'
  BY <1>1 DEF Copied, MainIdle
<1>3. Absent' /\ ShownIsLast'
  BY <1>1 DEF Absent, ShownIsLast
<1>4. Stored'
  BY <1>1 DEF Stored
<1> QED
  BY <1>2, <1>3, <1>4

LEMMA FindShow ==
  ASSUME ShowInv, TypeOK', NEW g \in Gauge, Find(g)
  PROVE  ShowInv'
<1> USE DEF ShowInv, table, object, history
<1>1. PICK found \in BOOLEAN :
        /\ found => g \in present
        /\ ~found => g \notin present \/ growing
        /\ polling' = [gauge |-> g, found |-> found, msg |-> Zeroed,
                       words |-> IF found THEN Word ELSE {}]
  BY DEF Find
<1>2. disturbed' = ~MainIdle /\ UNCHANGED <<canMsgMap, present, storing, growing, shown, said, unread>>
  BY DEF Find
<1>3. Absent'
  BY <1>1, <1>2 DEF Absent
<1>4. Copied'
  BY <1>1, <1>2 DEF Copied, MainIdle
<1> QED
  BY <1>2, <1>3, <1>4 DEF Stored, ShownIsLast

LEMMA LoadShow ==
  ASSUME ShowInv, TypeOK', NEW w \in Word, Load(w)
  PROVE  ShowInv'
<1> USE DEF ShowInv, table, object, history
<1>1. polling \in Polling /\ polling # Idle
  BY DEF Load, TypeOK
<1>2. /\ polling'.gauge = polling.gauge /\ polling'.found = polling.found
      /\ polling'.words = polling.words \ {w}
      /\ polling'.msg = [polling.msg EXCEPT ![w] = canMsgMap[polling.gauge][w]]
  BY <1>1 DEF Load, Polling
<1>3. UNCHANGED <<canMsgMap, present, storing, growing, shown, said, unread, disturbed>>
  BY DEF Load
<1>4. Absent'
  BY <1>1, <1>2, <1>3 DEF Absent
<1>5. DOMAIN polling.msg = Word
  BY <1>1 DEF Polling, Entry, Word
<1>6. ASSUME NEW v \in Word \ polling'.words,
             v \notin polling.words => polling.msg[v] = canMsgMap[polling.gauge][v]
      PROVE  polling'.msg[v] = canMsgMap[polling.gauge][v]
  BY <1>2, <1>5, <1>6
<1>7. Copied'
  BY <1>1, <1>2, <1>3, <1>6 DEF Copied, MainIdle
<1> QED
  BY <1>3, <1>4, <1>7 DEF Stored, ShownIsLast

\* The end of a poll: if it was undisturbed, or the gauge has said nothing since it
\* was last read, the copy is whole, and says what the gauge said.
LEMMA PolledShow ==
  ASSUME ShowInv, TypeOK', Polled
  PROVE  ShowInv'
<1> USE DEF ShowInv, table, object, history
<1> DEFINE g == polling.gauge
           m == polling.msg
<1>1. polling \in Polling /\ polling # Idle /\ polling.words = {} /\ g \in Gauge
  BY DEF Polled, TypeOK, Polling
<1>2. /\ polling' = Idle /\ unread' = [unread EXCEPT ![g] = @ /\ disturbed]
      /\ UNCHANGED <<canMsgMap, present, storing, growing, said, disturbed>>
  BY DEF Polled
<1>3. shown' = IF polling.found /\ m.LEN = 8 THEN [shown EXCEPT ![g] = m.DATA] ELSE shown
  BY DEF Polled, RxFastMsgs, Show
<1>4. shown \in [Gauge -> Reading \cup {0}] /\ unread \in [Gauge -> BOOLEAN]
  BY DEF TypeOK
<1>5. \A h \in Gauge : h # g => shown'[h] = shown[h] /\ unread'[h] = unread[h]
  BY <1>2, <1>3, <1>4
<1>6. Absent'
  BY <1>1, <1>2, <1>3, <1>5 DEF Absent
<1>7. ASSUME ~disturbed \/ ~unread[g] PROVE shown'[g] = said[g]
  <2>1. storing = Idle \/ storing.gauge # g
    BY <1>1, <1>7 DEF Copied, Stored, MainIdle
  <2>2. CASE polling.found
    <3>1. g \in present /\ canMsgMap[g].LEN = 8 /\ canMsgMap[g].DATA = said[g]
      BY <1>1, <2>1, <2>2 DEF Absent, Stored
    <3>2. m["LEN"] = canMsgMap[g]["LEN"] /\ m["DATA"] = canMsgMap[g]["DATA"]
      BY <1>1, <1>7, <2>2 DEF Copied, Word
    <3>3. m.LEN = 8 /\ m.DATA = said[g]
      BY <3>1, <3>2
    <3> QED
      BY <1>1, <1>3, <1>4, <2>2, <3>3
  <2>3. CASE ~polling.found
    <3>1. shown' = shown
      BY <1>3, <2>3
    <3>2. CASE ~unread[g]
      BY <1>1, <3>1, <3>2 DEF ShownIsLast
    <3>3. CASE ~disturbed
      BY <1>1, <2>3, <3>1, <3>3 DEF Copied, Absent
    <3> QED
      BY <1>7, <3>2, <3>3
  <2> QED
    BY <2>2, <2>3
<1>8. ShownIsLast'
  <2> SUFFICES ASSUME NEW h \in Gauge, ~unread'[h] PROVE shown'[h] = said[h]
    BY <1>2 DEF ShownIsLast
  <2>1. CASE h = g
    <3>1. ~disturbed \/ ~unread[g]
      BY <1>1, <1>2, <1>4, <2>1
    <3> QED
      BY <1>7, <2>1, <3>1
  <2>2. CASE h # g
    BY <1>5, <2>2 DEF ShownIsLast
  <2> QED
    BY <2>1, <2>2
<1>9. Stored'
  <2>1. storing # Idle => unread'[storing.gauge]
    <3> SUFFICES ASSUME storing # Idle PROVE unread'[storing.gauge]
      OBVIOUS
    <3>1. disturbed /\ unread[storing.gauge] /\ storing.gauge \in Gauge
      BY <1>1 DEF Copied, Stored, MainIdle, TypeOK, Storing
    <3> QED
      BY <1>1, <1>2, <1>4, <3>1
  <2> QED
    BY <1>2, <2>1 DEF Stored
<1> QED
  BY <1>2, <1>6, <1>8, <1>9 DEF Copied

LEMMA ShowInit == Init => ShowInv
<1> SUFFICES ASSUME Init, TypeOK PROVE ShowInv
  BY TypeInit
<1>1. Absent /\ Stored /\ Copied /\ ShownIsLast
  BY DEF Init, Absent, Stored, Copied, ShownIsLast
<1> QED
  BY <1>1 DEF ShowInv

LEMMA ShowStep == ShowInv /\ [Next]_vars => ShowInv'
<1> SUFFICES ASSUME ShowInv, [Next]_vars PROVE ShowInv'
  OBVIOUS
<1>1. TypeOK'
  BY TypeStep DEF ShowInv
<1>2. CASE Tick \/ UNCHANGED vars
  <2>1. UNCHANGED <<canMsgMap, present, storing, growing, polling, shown, said, unread, disturbed>>
    BY <1>2 DEF Tick, vars, table, object, history
  <2> QED
    BY <1>1, <2>1 DEF ShowInv, Absent, Stored, Copied, MainIdle, ShownIsLast
<1>3. CASE \E g \in Gauge : (\E d \in Reading : Power(g, d)) \/ Find(g)
  BY <1>1, <1>3, PowerShow, FindShow
<1>4. CASE \E w \in Word : Store(w) \/ Load(w)
  BY <1>1, <1>4, StoreShow, LoadShow
<1>5. CASE Grow \/ Grown \/ Polled
  BY <1>1, <1>5, GrowShow, PolledShow
<1> QED
  BY <1>2, <1>3, <1>4, <1>5 DEF Next

\* What a gauge object shows is what its gauge said last, from the first poll on that
\* main did not disturb: for any number of objects, any readings, and however the
\* words of the entry are stored and loaded (main.cpp:76, 184; BattFuelGaugeImpl.cpp:492-521).
THEOREM Shows == Spec => []ShownIsLast
<1>1. ShowInv => ShownIsLast
  BY DEF ShowInv
<1> QED
  BY ShowInit, ShowStep, <1>1, PTL DEF Spec

-----------------------------------------------------------------------------
(* HeardIsConnected, of one object. *)

\* The stamp of the last message.
LastStamp(g) == IF storing = Idle THEN canMsgMap[g].millis ELSE storing.msg.millis

\* Unless the last message bore the stamp last seen, either it was taken for new,
\* or it can still be told from the one seen before it.
HeardInv ==
  \A g \in Gauge :
    /\ g \notin present => heardAge[g] = Long
    /\ \/ twin[g]
       \/ powerAge[g] <= heardAge[g]
       \/ unread[g] /\ lastTimestamp # LastStamp(g)

\* What a poll of the one object makes of it.
LEMMA PolledHeard ==
  ASSUME ShowInv, HeardInv, Polled, NEW a, Gauge = {a}
  PROVE  HeardInv'
<1> USE DEF table, object, history
<1> DEFINE m == polling.msg
<1>1. /\ polling \in Polling /\ polling # Idle /\ polling.words = {} /\ polling.gauge = a
      /\ powerAge \in [Gauge -> 0 .. Long] /\ heardAge \in [Gauge -> 0 .. Long]
      /\ unread \in [Gauge -> BOOLEAN]
  BY DEF Polled, ShowInv, TypeOK, Polling
<1>2. /\ unread' = [unread EXCEPT ![a] = @ /\ disturbed]
      /\ UNCHANGED <<canMsgMap, present, storing, heardAge, twin>>
  BY <1>1 DEF Polled
<1>3. LastStamp(a)' = LastStamp(a)
  BY <1>2 DEF LastStamp
<1>4. IF polling.found /\ m.LEN = 8 /\ m.millis # lastTimestamp
      THEN powerAge'[a] = 0
      ELSE UNCHANGED <<powerAge, lastTimestamp>>
  BY <1>1 DEF Polled, RxFastMsgs, Fresh, Stale
<1>5. CASE polling.found /\ m.LEN = 8 /\ m.millis # lastTimestamp
  <2>1. powerAge'[a] <= heardAge'[a]
    BY <1>1, <1>2, <1>4, <1>5
  <2> QED
    BY <1>2, <2>1 DEF HeardInv
<1>6. CASE ~(polling.found /\ m.LEN = 8 /\ m.millis # lastTimestamp)
  <2>1. UNCHANGED <<powerAge, lastTimestamp>>
    BY <1>4, <1>6
  <2>2. CASE disturbed
    <3>1. unread' = unread
      BY <1>1, <1>2, <2>2
    <3> QED
      BY <1>2, <1>3, <2>1, <3>1 DEF HeardInv
  <2>3. CASE ~disturbed
    <3>1. storing = Idle /\ (polling.found <=> a \in present)
      BY <1>1, <2>3 DEF ShowInv, Copied, Absent, MainIdle
    <3>2. CASE a \in present
      <4>1. m["LEN"] = canMsgMap[a]["LEN"] /\ m["millis"] = canMsgMap[a]["millis"]
        BY <1>1, <2>3, <3>1, <3>2 DEF ShowInv, Copied, Word
      <4>2. canMsgMap[a].LEN = 8
        BY <3>1, <3>2 DEF ShowInv, Stored
      <4>3. lastTimestamp = LastStamp(a)
        BY <1>6, <3>1, <3>2, <4>1, <4>2 DEF LastStamp
      <4> QED
        BY <1>2, <2>1, <4>3 DEF HeardInv
    <3>3. CASE a \notin present
      <4>1. heardAge[a] = Long /\ powerAge[a] <= heardAge[a]
        BY <1>1, <3>3, Caps DEF HeardInv
      <4> QED
        BY <1>2, <2>1, <4>1 DEF HeardInv
    <3> QED
      BY <3>2, <3>3
  <2> QED
    BY <2>2, <2>3
<1> QED
  BY <1>5, <1>6

LEMMA HeardStep ==
  ASSUME ShowInv, HeardInv, [Next]_vars, NEW a, Gauge = {a}
  PROVE  HeardInv'
<1> USE DEF table, object, history
<1>0. ASSUME UNCHANGED <<storing, canMsgMap, present, heardAge, powerAge, twin, unread, lastTimestamp>>
      PROVE  HeardInv'
  BY <1>0 DEF HeardInv, LastStamp
<1>1. ASSUME NEW d \in Reading, Power(a, d) PROVE HeardInv'
  <2>1. LastStamp(a)' = clock
    BY <1>1 DEF Power, LastStamp, Idle
  <2>2. unread'[a] /\ twin'[a] = (clock = lastTimestamp) /\ a \in present'
    BY <1>1 DEF Power, ShowInv, TypeOK
  <2>3. lastTimestamp' = lastTimestamp
    BY <1>1 DEF Power
  <2> QED
    BY <2>1, <2>2, <2>3 DEF HeardInv
<1>2. ASSUME NEW w \in Word, Store(w) PROVE HeardInv'
  <2>1. /\ storing \in Storing /\ storing # Idle /\ storing.gauge = a
        /\ canMsgMap \in [Gauge -> Entry]
    BY <1>2 DEF Store, Idle, Storing, ShowInv, TypeOK
  <2>2. /\ canMsgMap' = [canMsgMap EXCEPT ![a][w] = storing.msg[w]]
        /\ storing' = (IF storing.words = {w} THEN Idle ELSE [storing EXCEPT !.words = @ \ {w}])
        /\ UNCHANGED <<present, heardAge, powerAge, twin, unread, lastTimestamp>>
    BY <1>2, <2>1 DEF Store
  <2>3. LastStamp(a)' = LastStamp(a)
    <3>1. CASE storing.words = {w}
      <4>1. canMsgMap'[a]["millis"] = storing.msg["millis"]
        <5>1. "millis" \in Word /\ DOMAIN canMsgMap[a] = Word
          BY <2>1 DEF Entry, Word
        <5>2. CASE w = "millis"
          BY <2>1, <2>2, <5>1, <5>2
        <5>3. CASE w # "millis"
          <6>1. canMsgMap[a]["millis"] = storing.msg["millis"]
            BY <2>1, <3>1, <5>1, <5>3 DEF ShowInv, Stored
          <6> QED
            BY <2>1, <2>2, <5>1, <5>3, <6>1
        <5> QED
          BY <5>2, <5>3
      <4> QED
        BY <2>1, <2>2, <3>1, <4>1 DEF LastStamp
    <3>2. CASE storing.words # {w}
      <4>1. storing' # Idle /\ storing'.msg = storing.msg
        BY <2>1, <2>2, <3>2 DEF Storing, Idle
      <4> QED
        BY <2>1, <4>1 DEF LastStamp
    <3> QED
      BY <3>1, <3>2
  <2> QED
    BY <2>2, <2>3 DEF HeardInv
<1>3. CASE Grow \/ Grown
  BY <1>0, <1>3 DEF Grow, Grown
<1>4. CASE Find(a)
  BY <1>0, <1>4 DEF Find
<1>5. CASE \E w \in Word : Load(w)
  BY <1>0, <1>5 DEF Load
<1>6. CASE Polled
  BY <1>6, PolledHeard
<1>7. CASE Tick
  <2>1. powerAge[a] \in 0 .. Long /\ heardAge[a] \in 0 .. Long
    BY DEF ShowInv, TypeOK
  <2>2. /\ powerAge'[a] = (IF powerAge[a] < Long THEN powerAge[a] + 1 ELSE Long)
        /\ heardAge'[a] = (IF heardAge[a] < Long THEN heardAge[a] + 1 ELSE Long)
        /\ UNCHANGED <<storing, canMsgMap, present, twin, unread, lastTimestamp>>
    BY <1>7 DEF Tick, Older
  <2>3. LastStamp(a)' = LastStamp(a)
    BY <2>2 DEF LastStamp
  <2>4. powerAge[a] <= heardAge[a] => powerAge'[a] <= heardAge'[a]
    BY <2>1, <2>2, Caps
  <2>5. heardAge[a] = Long => heardAge'[a] = Long
    BY <2>2, Caps
  <2> QED
    BY <2>2, <2>3, <2>4, <2>5 DEF HeardInv
<1>8. CASE UNCHANGED vars
  BY <1>0, <1>8 DEF vars
<1> QED
  BY <1>1, <1>2, <1>3, <1>4, <1>5, <1>6, <1>7, <1>8 DEF Next

\* With one object, a gauge that was heard and polled undisturbed since is connected
\* for two seconds, whatever the stamps, their wrap, and the torn copies before that
\* poll: but for a message that bears the stamp last seen (BattFuelGaugeImpl.cpp:492-521).
THEOREM Heard == ASSUME NEW a, Gauge = {a} PROVE Spec => []HeardIsConnected
<1>1. Init => HeardInv
  <2> SUFFICES ASSUME Init PROVE HeardInv
    OBVIOUS
  <2>1. \A g \in Gauge : heardAge[g] = Long /\ powerAge[g] <= heardAge[g]
    BY Caps DEF Init
  <2> QED
    BY <2>1 DEF HeardInv
<1>2. ShowInv /\ HeardInv /\ [Next]_vars => HeardInv'
  BY HeardStep
<1>3. ShowInv /\ HeardInv => HeardIsConnected
  <2> SUFFICES ASSUME ShowInv, HeardInv, NEW g \in Gauge, ~unread[g], heardAge[g] < Window, ~twin[g]
               PROVE  powerAge[g] < Window
    BY DEF HeardIsConnected, IsConnected
  <2>1. powerAge[g] <= heardAge[g] /\ powerAge[g] \in Int /\ heardAge[g] \in Int /\ Window \in Int
    BY Caps, ConnectionConstants DEF HeardInv, ShowInv, TypeOK
  <2> QED
    BY <2>1
<1> QED
  BY ShowInit, ShowStep, <1>1, <1>2, <1>3, PTL DEF Spec

-----------------------------------------------------------------------------
(* ConnectedWasHeard, of one object. *)

\* The time by which the polls that main disturbed delay the reading of a message.
Delay(g) == missed[g] * PollEvery

\* A message that was read, or never came, has the stamp last seen.
Known(g) == ~unread[g] \/ g \notin present => canMsgMap[g].millis = lastTimestamp
\* What was taken for new had been heard no longer ago than it takes to be read.
InTime(g) == heardAge[g] <= powerAge[g] + PollEvery + Delay(g)
Late(g) == unread[g] => heardAge[g] <= Delay(g) + (IF polling = Idle THEN fastAge[g] ELSE PollEvery)
\* Main disturbs but one poll for each identifier it adds, and one for the message:
\* no time goes by while it does, and a poll is the only one of its tick.
Pending(g) == IF polling = Idle THEN ~MainIdle /\ fastAge[g] >= 1 ELSE disturbed
Budget(g) ==
  /\ missed[g] + (IF Pending(g) THEN 1 ELSE 0) <= grown + 1
  /\ polling # Idle => fastAge[g] = 0

LateInv == \A g \in Gauge : Known(g) /\ InTime(g) /\ Late(g) /\ Budget(g)

\* The types, as far as these bounds use them.
LEMMA TimeTypes ==
  ASSUME TypeOK, NEW a \in Gauge
  PROVE  /\ missed[a] \in Nat /\ Delay(a) \in Nat /\ PollEvery \in Nat
         /\ heardAge[a] \in 0 .. Long /\ powerAge[a] \in 0 .. Long
         /\ fastAge[a] \in 0 .. PollEvery /\ grown \in 0 .. MaxGrow /\ MaxGrow \in Nat
         /\ Long \in Nat
<1>1. missed[a] \in Nat /\ PollEvery \in Nat
  BY ConnectionConstants DEF TypeOK
<1>2. Delay(a) \in Nat
  BY <1>1 DEF Delay
<1> QED
  BY <1>1, <1>2, Caps, ConnectionConstants DEF TypeOK

\* A message arrives: it is to be read, and all is counted from here.
LEMMA PowerLate ==
  ASSUME ShowInv, LateInv, NEW a, Gauge = {a}, NEW d \in Reading, Power(a, d)
  PROVE  LateInv'
<1> USE DEF object
<1>1. /\ unread' = [unread EXCEPT ![a] = TRUE] /\ missed' = [missed EXCEPT ![a] = 0]
      /\ heardAge' = [heardAge EXCEPT ![a] = 0] /\ present' = present \cup {a}
      /\ UNCHANGED <<canMsgMap, grown, polling, lastTimestamp, powerAge, fastAge>>
  BY DEF Power
<1>2. unread'[a] /\ missed'[a] = 0 /\ heardAge'[a] = 0 /\ a \in present'
  BY <1>1 DEF ShowInv, TypeOK
<1>3. /\ powerAge[a] \in Nat /\ fastAge[a] \in Nat /\ grown \in Nat /\ PollEvery \in Nat
      /\ polling # Idle => fastAge[a] = 0
  BY TimeTypes DEF ShowInv, LateInv, Budget
<1>4. Delay(a)' = 0
  BY <1>2, <1>3 DEF Delay
<1>5. Known(a)' /\ InTime(a)' /\ Late(a)'
  BY <1>1, <1>2, <1>3, <1>4 DEF Known, InTime, Late
<1>6. Budget(a)'
  BY <1>1, <1>2, <1>3 DEF Budget
<1> QED
  BY <1>5, <1>6 DEF LateInv

\* The end of a poll.  If it takes a message for new, the gauge has not been read
\* since; if main did not disturb it, it has read what was said last.
LEMMA PolledLate ==
  ASSUME ShowInv, LateInv, NEW a, Gauge = {a}, Polled
  PROVE  LateInv'
<1> USE DEF table, object
<1> DEFINE m == polling.msg
           new == polling.found /\ m.LEN = 8 /\ m.millis # lastTimestamp
<1>1. /\ polling \in Polling /\ polling # Idle /\ polling.words = {} /\ polling.gauge = a
      /\ powerAge \in [Gauge -> 0 .. Long] /\ unread \in [Gauge -> BOOLEAN]
      /\ missed \in [Gauge -> 0 .. MaxGrow + 1]
  BY DEF Polled, ShowInv, TypeOK, Polling
<1>2. /\ unread' = [unread EXCEPT ![a] = @ /\ disturbed] /\ polling' = Idle
      /\ missed' = [missed EXCEPT ![a] = IF disturbed /\ @ <= MaxGrow THEN @ + 1 ELSE @]
      /\ UNCHANGED <<canMsgMap, present, storing, growing, grown, heardAge, fastAge>>
  BY <1>1 DEF Polled
<1>3. IF new THEN powerAge'[a] = 0 /\ lastTimestamp' = m.millis
             ELSE UNCHANGED <<powerAge, lastTimestamp>>
  BY <1>1 DEF Polled, RxFastMsgs, Fresh, Stale
<1>4. /\ missed[a] \in Nat /\ Delay(a) \in Nat /\ PollEvery \in Nat /\ grown \in 0 .. MaxGrow
      /\ heardAge[a] \in Nat /\ powerAge[a] \in Nat /\ MaxGrow \in Nat /\ fastAge[a] = 0
  BY <1>1, TimeTypes DEF ShowInv, LateInv, Budget
<1>5. missed'[a] = missed[a] + (IF disturbed THEN 1 ELSE 0) /\ missed'[a] <= grown + 1
  <2>1. missed[a] + (IF disturbed THEN 1 ELSE 0) <= grown + 1
    BY <1>1 DEF LateInv, Budget, Pending
  <2> QED
    BY <1>1, <1>2, <1>4, <2>1
<1>6. Delay(a)' = Delay(a) + (IF disturbed THEN PollEvery ELSE 0)
  <2>1. CASE disturbed
    BY <1>4, <1>5, <2>1 DEF Delay
  <2>2. CASE ~disturbed
    BY <1>4, <1>5, <2>2 DEF Delay
  <2> QED
    BY <2>1, <2>2
<1>7. polling.found => a \in present
  BY <1>1 DEF ShowInv, Absent
<1>8. ~disturbed \/ ~unread[a] =>
        (polling.found => m["LEN"] = canMsgMap[a]["LEN"] /\ m["millis"] = canMsgMap[a]["millis"])
  BY <1>1 DEF ShowInv, Copied, Word
<1>9. ~disturbed => storing = Idle /\ (a \in present => polling.found /\ canMsgMap[a].LEN = 8)
  BY <1>1 DEF ShowInv, Copied, Stored, MainIdle
<1>10. ~unread[a] \/ a \notin present => ~new
  BY <1>7, <1>8 DEF LateInv, Known
<1>11. Known(a)'
  <2>1. CASE ~unread[a] \/ a \notin present
    BY <1>2, <1>3, <1>10, <2>1 DEF LateInv, Known
  <2>2. CASE disturbed /\ unread[a] /\ a \in present
    BY <1>1, <1>2, <2>2 DEF Known
  <2>3. CASE ~disturbed /\ a \in present
    BY <1>2, <1>3, <1>8, <1>9, <2>3 DEF Known
  <2> QED
    BY <2>1, <2>2, <2>3
<1>12. unread[a] => heardAge[a] <= Delay(a) + PollEvery
  BY <1>1 DEF LateInv, Late
<1>13. InTime(a)'
  <2>1. CASE new
    BY <1>2, <1>3, <1>4, <1>6, <1>10, <1>12, <2>1 DEF InTime
  <2>2. CASE ~new
    <3>1. heardAge[a] <= powerAge[a] + PollEvery + Delay(a)
      BY DEF LateInv, InTime
    <3> QED
      BY <1>2, <1>3, <1>4, <1>6, <2>2, <3>1 DEF InTime
  <2> QED
    BY <2>1, <2>2
<1>14. Late(a)'
  <2>1. unread'[a] => unread[a] /\ disturbed
    BY <1>1, <1>2
  <2> QED
    BY <1>2, <1>4, <1>6, <1>12, <2>1 DEF Late
<1>15. Budget(a)'
  BY <1>2, <1>4, <1>5 DEF Budget, Pending
<1> QED
  BY <1>11, <1>13, <1>14, <1>15 DEF LateInv

LEMMA LateStep ==
  ASSUME ShowInv, LateInv, [Next]_vars, NEW a, Gauge = {a}
  PROVE  LateInv'
<1> USE DEF table, object, history
<1>0. /\ missed[a] \in Nat /\ Delay(a) \in Nat /\ PollEvery \in Nat /\ grown \in 0 .. MaxGrow
      /\ heardAge[a] \in 0 .. Long /\ powerAge[a] \in 0 .. Long /\ fastAge[a] \in 0 .. PollEvery
      /\ MaxGrow \in Nat /\ Long \in Nat
      /\ Known(a) /\ InTime(a) /\ Late(a) /\ Budget(a)
  BY TimeTypes DEF ShowInv, LateInv
<1>1. ASSUME NEW d \in Reading, Power(a, d) PROVE LateInv'
  BY <1>1, PowerLate
<1>2. ASSUME NEW w \in Word, Store(w) PROVE LateInv'
  <2>1. /\ storing \in Storing /\ storing # Idle /\ storing.gauge = a /\ ~MainIdle
        /\ unread[a] /\ a \in present
    BY <1>2 DEF Store, Idle, Storing, ShowInv, TypeOK, Stored, MainIdle
  <2>2. UNCHANGED <<present, polling, grown, unread, missed, heardAge, powerAge, fastAge>>
    BY <1>2 DEF Store
  <2>3. polling # Idle => disturbed
    BY <2>1 DEF ShowInv, Copied
  <2>4. Pending(a)' => Pending(a)
    BY <2>1, <2>2, <2>3 DEF Pending
  <2>5. Budget(a)'
    BY <1>0, <2>2, <2>4 DEF Budget
  <2> QED
    BY <1>0, <2>1, <2>2, <2>5 DEF LateInv, Known, InTime, Late, Delay
<1>3. CASE Grow
  <2>1. grown' = grown + 1 /\ UNCHANGED <<canMsgMap, present, polling, lastTimestamp, unread, missed, heardAge, powerAge, fastAge>>
    BY <1>3 DEF Grow
  <2>2. Budget(a)'
    BY <1>0, <2>1 DEF Budget
  <2> QED
    BY <1>0, <2>1, <2>2 DEF LateInv, Known, InTime, Late, Delay
<1>4. CASE Grown
  <2>1. UNCHANGED <<canMsgMap, present, polling, grown, lastTimestamp, unread, missed, heardAge, powerAge, fastAge, disturbed>>
    BY <1>4 DEF Grown
  <2>2. Pending(a)' => Pending(a)
    BY <1>4, <2>1 DEF Pending, Grown, MainIdle
  <2> QED
    BY <1>0, <2>1, <2>2 DEF LateInv, Known, InTime, Late, Delay, Budget
<1>5. CASE Find(a)
  <2>1. /\ polling = Idle /\ fastAge[a] >= 1 /\ fastAge' = [fastAge EXCEPT ![a] = 0]
        /\ disturbed' = ~MainIdle /\ polling' # Idle
        /\ UNCHANGED <<canMsgMap, present, grown, lastTimestamp, unread, missed, heardAge, powerAge>>
    BY <1>5 DEF Find, Idle
  <2>2. fastAge'[a] = 0
    BY <2>1 DEF ShowInv, TypeOK
  <2>3. Pending(a)' <=> Pending(a)
    BY <2>1 DEF Pending
  <2>4. Budget(a)'
    BY <1>0, <2>1, <2>2, <2>3 DEF Budget
  <2> QED
    BY <1>0, <2>1, <2>4 DEF LateInv, Known, InTime, Late, Delay
<1>6. ASSUME NEW w \in Word, Load(w) PROVE LateInv'
  <2>1. polling # Idle /\ polling \in Polling
    BY <1>6 DEF Load, ShowInv, TypeOK
  <2>2. /\ polling' # Idle
        /\ UNCHANGED <<canMsgMap, present, grown, lastTimestamp, unread, missed, heardAge, powerAge, fastAge, disturbed>>
    BY <1>6, <2>1 DEF Load, Polling, Idle
  <2> QED
    BY <1>0, <2>1, <2>2 DEF LateInv, Known, InTime, Late, Delay, Budget, Pending
<1>7. CASE Polled
  BY <1>7, PolledLate
<1>8. CASE Tick
  <2>1. /\ MainIdle' /\ polling = Idle /\ fastAge[a] < PollEvery
        /\ fastAge'[a] = (IF fastAge[a] < Long THEN fastAge[a] + 1 ELSE Long)
        /\ powerAge'[a] = (IF powerAge[a] < Long THEN powerAge[a] + 1 ELSE Long)
        /\ heardAge'[a] = (IF heardAge[a] < Long THEN heardAge[a] + 1 ELSE Long)
        /\ UNCHANGED <<canMsgMap, present, polling, grown, lastTimestamp, unread, missed>>
    BY <1>8 DEF Tick, Older, MainIdle
  <2>2. Delay(a)' = Delay(a) /\ Known(a)'
    BY <1>0, <2>1 DEF Delay, Known
  <2>3. InTime(a)'
    BY <1>0, <2>1, <2>2 DEF InTime
  <2>4. fastAge'[a] = fastAge[a] + 1
    BY <1>0, <2>1, Caps
  <2>5. Late(a)'
    BY <1>0, <2>1, <2>2, <2>4 DEF Late
  <2>6. Budget(a)'
    BY <1>0, <2>1 DEF Budget, Pending
  <2> QED
    BY <2>2, <2>3, <2>5, <2>6 DEF LateInv
<1>9. CASE UNCHANGED vars
  BY <1>9 DEF vars, LateInv, Known, InTime, Late, Delay, Budget, Pending, MainIdle
<1> QED
  BY <1>1, <1>2, <1>3, <1>4, <1>5, <1>6, <1>7, <1>8, <1>9 DEF Next

LEMMA LateInit == Init => LateInv
<1> SUFFICES ASSUME Init, NEW g \in Gauge PROVE Known(g) /\ InTime(g) /\ Late(g) /\ Budget(g)
  BY DEF LateInv
<1>1. /\ missed[g] = 0 /\ powerAge[g] = Long /\ heardAge[g] = Long /\ ~unread[g] /\ grown = 0
      /\ canMsgMap[g].millis = lastTimestamp /\ polling = Idle /\ MainIdle
  BY DEF Init, Zeroed, MainIdle
<1>2. Delay(g) \in Nat /\ Long \in Nat /\ PollEvery \in Nat
  BY TypeInit, TimeTypes
<1> QED
  BY <1>1, <1>2 DEF Known, InTime, Late, Budget, Pending

\* With one object, a gauge that is shown as connected was heard in the last two
\* seconds, give or take one period of polling, and one more for each poll that main
\* disturbed since: for any readings, stamps and periods, and however the words of
\* the entry are stored and loaded (BattFuelGaugeImpl.cpp:492-521).
THEOREM Connected == ASSUME NEW a, Gauge = {a} PROVE Spec => []ConnectedWasHeard
<1>1. ShowInv /\ LateInv /\ [Next]_vars => LateInv'
  BY LateStep
<1>2. ShowInv /\ LateInv => ConnectedWasHeard
  <2> SUFFICES ASSUME ShowInv, LateInv, NEW g \in Gauge, powerAge[g] < Window
               PROVE  heardAge[g] < Window + (1 + missed[g]) * PollEvery
    BY DEF ConnectedWasHeard, IsConnected
  <2>1. /\ missed[g] \in Nat /\ Delay(g) \in Nat /\ PollEvery \in Nat /\ Window \in Nat
        /\ heardAge[g] \in Nat /\ powerAge[g] \in Nat
    BY TimeTypes, ConnectionConstants DEF ShowInv
  <2>2. (1 + missed[g]) * PollEvery = PollEvery + Delay(g)
    BY <2>1 DEF Delay
  <2>3. heardAge[g] <= powerAge[g] + PollEvery + Delay(g)
    BY DEF LateInv, InTime
  <2> QED
    BY <2>1, <2>2, <2>3
<1> QED
  BY ShowInit, ShowStep, LateInit, <1>1, <1>2, PTL DEF Spec
=============================================================================
