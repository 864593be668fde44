------------------------- MODULE GaugeCommandsProofs -------------------------
(***************************************************************************)
(* Whatever the list shows, whatever batteries are changed and whatever    *)
(* frames are lost, no gauge takes a setting meant for another one.  And   *)
(* what was sent without a loss is in the gauge as it was asked for,       *)
(* however the settings that share its message follow each other.          *)
(***************************************************************************)
EXTENDS GaugeCommands, SequenceTheorems, TLAPS

-----------------------------------------------------------------------------
(* Only the gauge that was meant. *)

\* A frame that opens the gauge that is there, or what already has.
Opens(i) ==
  \/ i = 0 /\ unlocked
  \/ i \in DOMAIN bus /\ bus[i].id = "Reprog" /\ bus[i].serial = present

IsSeq(s) == \E S : s \in Seq(S)

\* Once the gauge is opened, or an opening frame is on its way, the object has found
\* this gauge and the list shows no other one, so all that follows is meant for it.
OpenInv ==
  \A i \in 0 .. Len(bus) : Opens(i) =>
    /\ m_serialNumber = present /\ listed \in {present, Nobody}
    /\ \A j \in DOMAIN bus : j > i => bus[j].meant = present

IInv == IsSeq(bus) /\ DOMAIN memory = Gauge /\ OpenInv

\* Two sequences, one behind the other.
LEMMA ConcatAt ==
  ASSUME NEW S, NEW s \in Seq(S), NEW t \in Seq(S)
  PROVE  /\ s \o t \in Seq(S)
         /\ Len(s) \in Nat /\ Len(t) \in Nat /\ Len(s \o t) = Len(s) + Len(t)
         /\ DOMAIN s = 1 .. Len(s) /\ DOMAIN t = 1 .. Len(t)
         /\ DOMAIN (s \o t) = 1 .. Len(s) + Len(t)
         /\ \A i \in 1 .. Len(s) : (s \o t)[i] = s[i]
         /\ \A i \in 1 .. Len(t) : (s \o t)[Len(s) + i] = t[i]
OBVIOUS

\* What follows the unlocking of a command: the frames of its setting, all for the
\* gauge that was looked up.
Follows(s, f) == f.meant = s /\ (f.id = "Reprog" => f.serial = s)

\* A command keeps the invariant.
LEMMA SendStep ==
  ASSUME IInv, NEW frames, IsSeq(frames), Send(frames),
         \A k \in DOMAIN frames : Follows(GetPWFControllerInfo, frames[k])
  PROVE  IInv'
<1> DEFINE s == GetPWFControllerInfo
           u == UnlockController(s)
           b == bus \o <<u>>
<1>0. m_serialNumber' = s /\ bus' = b \o frames /\ UNCHANGED <<present, unlocked, memory, listed>>
  BY DEF Send, battery
<1>1. PICK S : bus \in Seq(S) /\ frames \in Seq(S) /\ u \in S
  <2>1. PICK A : bus \in Seq(A)
    BY DEF IInv, IsSeq
  <2>2. PICK B : frames \in Seq(B)
    BY DEF IsSeq
  <2>3. bus \in Seq(A \cup B \cup {u}) /\ frames \in Seq(A \cup B \cup {u})
    BY <2>1, <2>2
  <2> QED
    BY <2>3
<1>2. /\ b \in Seq(S) /\ Len(b) = Len(bus) + 1 /\ Len(bus) \in Nat
      /\ DOMAIN bus = 1 .. Len(bus)
      /\ \A i \in 1 .. Len(bus) : b[i] = bus[i]
      /\ b[Len(bus) + 1] = u
  <2>1. b = Append(bus, u)
    BY <1>1
  <2> QED
    BY <1>1, <2>1, AppendProperties, LenProperties
<1>3. /\ bus' \in Seq(S) /\ Len(frames) \in Nat /\ DOMAIN frames = 1 .. Len(frames)
      /\ Len(bus') = Len(bus) + 1 + Len(frames) /\ DOMAIN bus' = 1 .. Len(bus')
      /\ \A i \in 1 .. Len(bus) : bus'[i] = bus[i]
      /\ bus'[Len(bus) + 1] = u
      /\ \A i \in 1 .. Len(frames) : bus'[Len(bus) + 1 + i] = frames[i]
  BY <1>0, <1>1, <1>2, ConcatAt
<1> HIDE DEF b
<1>4. Follows(s, u)
  BY DEF Follows, UnlockController, Reprog
<1>5. \A i \in DOMAIN bus' : i > Len(bus) => Follows(s, bus'[i])
  <2> SUFFICES ASSUME NEW i \in DOMAIN bus', i > Len(bus) PROVE Follows(s, bus'[i])
    OBVIOUS
  <2>1. CASE i = Len(bus) + 1
    BY <2>1, <1>3, <1>4
  <2>2. CASE i # Len(bus) + 1
    <3>1. i - Len(bus) - 1 \in 1 .. Len(frames) /\ i = Len(bus) + 1 + (i - Len(bus) - 1)
      BY <2>2, <1>2, <1>3
    <3> QED
      BY <3>1, <1>3
  <2> QED
    BY <2>1, <2>2
<1> HIDE DEF u
<1>6. OpenInv'
  <2> SUFFICES ASSUME NEW i \in 0 .. Len(bus'), Opens(i)'
               PROVE  /\ s = present /\ listed \in {present, Nobody}
                      /\ \A j \in DOMAIN bus' : j > i => bus'[j].meant = present
    BY <1>0 DEF OpenInv
  <2>1. CASE i <= Len(bus)
    <3>1. Opens(i) /\ i \in 0 .. Len(bus)
      BY <2>1, <1>0, <1>2, <1>3 DEF Opens
    <3>2. /\ m_serialNumber = present /\ listed \in {present, Nobody}
          /\ \A j \in DOMAIN bus : j > i => bus[j].meant = present
      BY <3>1 DEF IInv, OpenInv
    <3>3. s = present
      BY <3>2 DEF GetPWFControllerInfo
    <3>4. \A j \in DOMAIN bus' : j > i => bus'[j].meant = present
      BY <3>2, <3>3, <1>2, <1>3, <1>5 DEF Follows
    <3> QED
      BY <3>2, <3>3, <3>4
  <2>2. CASE i > Len(bus)
    <3>0. i \in DOMAIN bus' /\ bus'[i].id = "Reprog" /\ bus'[i].serial = present
      BY <2>2, <1>0, <1>2 DEF Opens
    <3>1. s = present
      BY <2>2, <3>0, <1>5 DEF Follows
    <3>2. listed \in {present, Nobody}
      BY <3>1 DEF GetPWFControllerInfo
    <3>3. \A j \in DOMAIN bus' : j > i => bus'[j].meant = present
      BY <2>2, <3>1, <1>2, <1>3, <1>5 DEF Follows
    <3> QED
      BY <3>1, <3>2, <3>3
  <2> QED
    BY <2>1, <2>2, <1>2, <1>3
<1> QED
  BY <1>0, <1>3, <1>6 DEF IInv, IsSeq

\* Every setter is such a command.
LEMMA SetterStep ==
  ASSUME IInv, Setter PROVE IInv' /\ UNCHANGED memory
<1>1. \A frames : Send(frames) => UNCHANGED memory
  BY DEF Send, battery
<1>2. \A d, id : id # "Reprog" => Follows(GetPWFControllerInfo, Frame(id, d))
  BY DEF Follows, Frame
<1>3. \A f : IsSeq(<<f>>) /\ (\A k \in DOMAIN <<f>> : <<f>>[k] = f)
  <2> SUFFICES ASSUME NEW f PROVE IsSeq(<<f>>) /\ (\A k \in DOMAIN <<f>> : <<f>>[k] = f)
    OBVIOUS
  <2>1. <<f>> \in Seq({f})
    OBVIOUS
  <2>2. \A k \in DOMAIN <<f>> : k = 1
    OBVIOUS
  <2>3. <<f>>[1] = f
    OBVIOUS
  <2> QED
    BY <2>1, <2>2, <2>3 DEF IsSeq
<1>4. \A f, g : IsSeq(<<f, g>>) /\ (\A k \in DOMAIN <<f, g>> : <<f, g>>[k] \in {f, g})
  <2> SUFFICES ASSUME NEW f, NEW g PROVE IsSeq(<<f, g>>) /\ (\A k \in DOMAIN <<f, g>> : <<f, g>>[k] \in {f, g})
    OBVIOUS
  <2>1. <<f, g>> \in Seq({f, g})
    OBVIOUS
  <2>2. \A k \in DOMAIN <<f, g>> : k \in {1, 2}
    OBVIOUS
  <2>3. <<f, g>>[1] = f /\ <<f, g>>[2] = g
    OBVIOUS
  <2> QED
    BY <2>1, <2>2, <2>3 DEF IsSeq
<1>5. ASSUME NEW f, Follows(GetPWFControllerInfo, f), Send(<<f>>) PROVE IInv'
  BY <1>3, <1>5, SendStep
<1>6. ASSUME NEW f, NEW g, Follows(GetPWFControllerInfo, f), Follows(GetPWFControllerInfo, g),
             Send(<<f, g>>)
      PROVE  IInv'
  BY <1>4, <1>6, SendStep
<1>7. CASE \E n \in Name : SetNickname(n)
  BY <1>1, <1>2, <1>6, <1>7 DEF SetNickname
<1>8. CASE \E m \in Mfg : SetManufacturer(m)
  BY <1>1, <1>2, <1>5, <1>8 DEF SetManufacturer
<1>9. CASE \E h \in Health : SetBatteryAge(h)
  BY <1>1, <1>2, <1>5, <1>9 DEF SetBatteryAge
<1>10. CASE \E c \in Cal : SetCalibrationVals(c)
  BY <1>1, <1>2, <1>5, <1>10 DEF SetCalibrationVals
<1>11. CASE \E i \in Inverted : SetDisplay(i)
  BY <1>1, <1>2, <1>5, <1>11 DEF SetDisplay
<1>12. CASE ResetAllBatteryStats
  BY <1>1, <1>2, <1>5, <1>12 DEF ResetAllBatteryStats
<1>13. CASE InitiateCurrentCalibration
  <2>1. Follows(GetPWFControllerInfo, Reprog("calibrate", GetPWFControllerInfo))
    BY DEF Follows, Reprog
  <2> QED
    BY <1>1, <1>5, <1>13, <2>1 DEF InitiateCurrentCalibration
<1> QED
  BY <1>7, <1>8, <1>9, <1>10, <1>11, <1>12, <1>13 DEF Setter

\* A frame that leaves the bus, delivered or lost, keeps it too, if the gauge is
\* opened by nothing but an opening frame.
LEMMA LeaveStep ==
  ASSUME IInv, bus # <<>>, bus' = Tail(bus), UNCHANGED <<m_serialNumber, listed, present>>,
         DOMAIN memory' = Gauge,
         unlocked' => unlocked \/ Opens(1)
  PROVE  IInv'
<1>1. PICK S : bus \in Seq(S)
  BY DEF IInv, IsSeq
<1>2. /\ Len(bus) \in Nat \ {0} /\ Len(bus') = Len(bus) - 1 /\ bus' \in Seq(S)
      /\ DOMAIN bus = 1 .. Len(bus) /\ DOMAIN bus' = 1 .. Len(bus) - 1
      /\ \A i \in 1 .. Len(bus) - 1 : bus'[i] = bus[i + 1]
  BY <1>1, HeadTailProperties, LenProperties, EmptySeq
<1>3. OpenInv'
  <2> SUFFICES ASSUME NEW i \in 0 .. Len(bus'), Opens(i)'
               PROVE  /\ m_serialNumber = present /\ listed \in {present, Nobody}
                      /\ \A j \in DOMAIN bus' : j > i => bus'[j].meant = present
    BY DEF OpenInv
  <2>1. PICK k \in {0, i + 1} : Opens(k) /\ k \in 0 .. Len(bus)
    BY <1>2 DEF Opens
  <2>2. /\ m_serialNumber = present /\ listed \in {present, Nobody}
        /\ \A j \in DOMAIN bus : j > k => bus[j].meant = present
    BY <2>1 DEF IInv, OpenInv
  <2>3. ASSUME NEW j \in DOMAIN bus', j > i PROVE bus'[j].meant = present
    <3>1. j + 1 \in DOMAIN bus /\ j + 1 > k /\ bus'[j] = bus[j + 1]
      BY <1>2, <2>1, <2>3
    <3> QED
      BY <2>2, <3>1
  <2> QED
    BY <2>2, <2>3
<1> QED
  BY <1>2, <1>3 DEF IInv, IsSeq

\* What a delivery makes of the gauge that is there.
LEMMA DeliverStep ==
  ASSUME IInv, Deliver
  PROVE  /\ IInv'
         /\ \A g \in Gauge : memory'[g] # memory[g] => Head(bus).meant = g
<1>1. PICK S : bus \in Seq(S)
  BY DEF IInv, IsSeq
<1>2. bus # <<>> /\ bus' = Tail(bus) /\ Head(bus) = bus[1] /\ 1 \in DOMAIN bus
  BY <1>1, HeadTailProperties, LenProperties, EmptySeq DEF Deliver
<1>3. UNCHANGED <<m_serialNumber, listed, present>>
  BY DEF Deliver, object
<1>4. DOMAIN memory' = Gauge /\ \A g \in Gauge : memory'[g] # memory[g] => unlocked /\ g = present
  BY DEF Deliver, IInv
<1>5. unlocked' => unlocked \/ Opens(1)
  BY <1>2 DEF Deliver, Opens
<1>6. unlocked => bus[1].meant = present
  <2>1. Len(bus) \in Nat
    BY <1>1, HeadTailProperties, LenProperties, EmptySeq, <1>2
  <2> QED
    BY <1>2, <2>1 DEF IInv, OpenInv, Opens
<1> QED
  BY <1>2, <1>3, <1>4, <1>5, <1>6, LeaveStep

\* What all steps keep, and what a step makes of the settings.
LEMMA Steps ==
  ASSUME IInv, [Next]_vars
  PROVE  /\ IInv'
         /\ \A g \in Gauge : memory'[g] # memory[g] => Head(bus).meant = g
<1>0. IInv /\ UNCHANGED <<m_serialNumber, bus, present, unlocked, memory>> /\ listed' \in {present, Nobody, listed}
      => IInv'
  BY DEF IInv, IsSeq, OpenInv, Opens
<1>1. CASE Setter
  BY <1>1, SetterStep
<1>2. CASE RxSlowMsgs
  BY <1>0, <1>2 DEF RxSlowMsgs, battery
<1>3. CASE Deliver
  BY <1>3, DeliverStep
<1>4. CASE Lose
  <2>1. UNCHANGED <<m_serialNumber, listed, present, unlocked, memory>> /\ bus # <<>> /\ bus' = Tail(bus)
    BY <1>4 DEF Lose, object, battery
  <2> QED
    BY <2>1, LeaveStep DEF IInv
<1>5. CASE Relock
  BY <1>5 DEF Relock, object, IInv, IsSeq, OpenInv, Opens
<1>6. CASE \E g \in Gauge : Swap(g)
  <2>1. bus' = <<>> /\ unlocked' = FALSE /\ memory' = memory
    BY <1>6 DEF Swap
  <2>2. <<>> \in Seq({})
    OBVIOUS
  <2> QED
    BY <2>1, <2>2 DEF IInv, IsSeq, OpenInv, Opens
<1>7. CASE \E g \in Gauge \cup {Nobody} : Identified(g)
  BY <1>0, <1>7 DEF Identified, object, battery
<1>8. CASE \E part \in Part : Broadcast(part)
  BY <1>0, <1>8 DEF Broadcast, object, battery
<1>9. CASE UNCHANGED vars
  BY <1>0, <1>9 DEF vars, object, battery
<1> QED
  BY <1>1, <1>2, <1>3, <1>4, <1>5, <1>6, <1>7, <1>8, <1>9 DEF Next

\* No gauge ever takes a setting meant for another one: the unlocking by serial
\* number sees to it, for any gauges, any settings and any bounds
\* (FusionFlashUtil.cpp:208-223, BattFuelGaugeImpl.cpp:46-59, 306-473).
THEOREM MeantOnly == Spec => OnlyTheOneMeant
<1>1. Init => IInv
  <2> SUFFICES ASSUME Init PROVE IInv
    OBVIOUS
  <2>1. bus = <<>> /\ unlocked = FALSE /\ DOMAIN memory = Gauge
    BY DEF Init
  <2>2. <<>> \in Seq({})
    OBVIOUS
  <2> QED
    BY <2>1, <2>2 DEF IInv, IsSeq, OpenInv, Opens
<1>2. IInv /\ [Next]_vars => IInv'
  BY Steps
<1>3. IInv /\ [Next]_vars => [\A g \in Gauge : memory'[g] # memory[g] => Head(bus).meant = g]_vars
  BY Steps
<1> QED
  BY <1>1, <1>2, <1>3, PTL DEF Spec, OnlyTheOneMeant

-----------------------------------------------------------------------------
(* Bytes. *)

\* A sequence of n values is a function on 1 .. n, and the other way round.
LEMMA AsFunction ==
  ASSUME NEW S, NEW n \in Nat
  PROVE  /\ \A s \in Seq(S) : Len(s) = n => s \in [1 .. n -> S]
         /\ \A s \in [1 .. n -> S] : s \in Seq(S) /\ Len(s) = n
OBVIOUS

\* A sequence of two.
LEMMA Pair ==
  ASSUME NEW S, NEW a \in S, NEW b \in S
  PROVE  <<a, b>> \in Seq(S) /\ Len(<<a, b>>) = 2 /\ <<a, b>>[1] = a /\ <<a, b>>[2] = b
OBVIOUS

\* Bytes put together.
LEMMA TwoAndTwo ==
  ASSUME NEW S, NEW s \in Seq(S), NEW t \in Seq(S), Len(s) = 2, Len(t) = 2
  PROVE  /\ s \o t \in Seq(S) /\ Len(s \o t) = 4
         /\ (s \o t)[1] = s[1] /\ (s \o t)[2] = s[2]
         /\ (s \o t)[3] = t[1] /\ (s \o t)[4] = t[2]
<1>0. Len(s) + Len(t) = 4
  OBVIOUS
<1>1. \A i \in 1 .. Len(s) + Len(t) : (s \o t)[i] = IF i <= Len(s) THEN s[i] ELSE t[i - Len(s)]
  BY ConcatProperties
<1>2. s \o t \in Seq(S) /\ Len(s \o t) = Len(s) + Len(t)
  BY ConcatProperties
<1>3. \A i \in 1 .. Len(s) : (s \o t)[i] = s[i]
  BY ConcatAt
<1>4. (s \o t)[1] = s[1] /\ (s \o t)[2] = s[2]
  <2>1. {1, 2} \subseteq 1 .. Len(s)
    OBVIOUS
  <2> QED
    BY <1>3, <2>1
<1>5. (s \o t)[3] = t[1]
  <2>1. 3 \in 1 .. Len(s) + Len(t) /\ ~(3 <= Len(s)) /\ 3 - Len(s) = 1
    OBVIOUS
  <2> QED
    BY <1>1, <2>1
<1>6. (s \o t)[4] = t[2]
  <2>1. 4 \in 1 .. Len(s) + Len(t) /\ ~(4 <= Len(s)) /\ 4 - Len(s) = 2
    OBVIOUS
  <2> QED
    BY <1>1, <2>1
<1> QED
  BY <1>0, <1>2, <1>4, <1>5, <1>6

\* Four bytes and two.
LEMMA FourAndTwo ==
  ASSUME NEW S, NEW s \in Seq(S), NEW t \in Seq(S), Len(s) = 4, Len(t) = 2
  PROVE  /\ s \o t \in Seq(S) /\ Len(s \o t) = 6
         /\ (s \o t)[1] = s[1] /\ (s \o t)[2] = s[2] /\ (s \o t)[3] = s[3] /\ (s \o t)[4] = s[4]
         /\ (s \o t)[5] = t[1] /\ (s \o t)[6] = t[2]
<1>0. Len(s) + Len(t) = 6
  OBVIOUS
<1>1. \A i \in 1 .. Len(s) + Len(t) : (s \o t)[i] = IF i <= Len(s) THEN s[i] ELSE t[i - Len(s)]
  BY ConcatProperties
<1>2. s \o t \in Seq(S) /\ Len(s \o t) = Len(s) + Len(t)
  BY ConcatProperties
<1>3. \A i \in 1 .. Len(s) : (s \o t)[i] = s[i]
  BY ConcatAt
<1>4. (s \o t)[1] = s[1] /\ (s \o t)[2] = s[2] /\ (s \o t)[3] = s[3] /\ (s \o t)[4] = s[4]
  <2>1. {1, 2, 3, 4} \subseteq 1 .. Len(s)
    OBVIOUS
  <2> QED
    BY <1>3, <2>1
<1>5. (s \o t)[5] = t[1]
  <2>1. 5 \in 1 .. Len(s) + Len(t) /\ ~(5 <= Len(s)) /\ 5 - Len(s) = 1
    OBVIOUS
  <2> QED
    BY <1>1, <2>1
<1>6. (s \o t)[6] = t[2]
  <2>1. 6 \in 1 .. Len(s) + Len(t) /\ ~(6 <= Len(s)) /\ 6 - Len(s) = 2
    OBVIOUS
  <2> QED
    BY <1>1, <2>1
<1> QED
  BY <1>0, <1>2, <1>4, <1>5, <1>6

\* Six bytes and two.
LEMMA SixAndTwo ==
  ASSUME NEW S, NEW s \in Seq(S), NEW t \in Seq(S), Len(s) = 6, Len(t) = 2
  PROVE  /\ s \o t \in Seq(S) /\ Len(s \o t) = 8
         /\ (s \o t)[1] = s[1] /\ (s \o t)[2] = s[2] /\ (s \o t)[3] = s[3] /\ (s \o t)[4] = s[4] /\ (s \o t)[5] = s[5] /\ (s \o t)[6] = s[6]
         /\ (s \o t)[7] = t[1] /\ (s \o t)[8] = t[2]
<1>0. Len(s) + Len(t) = 8
  OBVIOUS
<1>1. \A i \in 1 .. Len(s) + Len(t) : (s \o t)[i] = IF i <= Len(s) THEN s[i] ELSE t[i - Len(s)]
  BY ConcatProperties
<1>2. s \o t \in Seq(S) /\ Len(s \o t) = Len(s) + Len(t)
  BY ConcatProperties
<1>3. \A i \in 1 .. Len(s) : (s \o t)[i] = s[i]
  BY ConcatAt
<1>4. (s \o t)[1] = s[1] /\ (s \o t)[2] = s[2] /\ (s \o t)[3] = s[3] /\ (s \o t)[4] = s[4] /\ (s \o t)[5] = s[5] /\ (s \o t)[6] = s[6]
  <2>1. {1, 2, 3, 4, 5, 6} \subseteq 1 .. Len(s)
    OBVIOUS
  <2> QED
    BY <1>3, <2>1
<1>5. (s \o t)[7] = t[1]
  <2>1. 7 \in 1 .. Len(s) + Len(t) /\ ~(7 <= Len(s)) /\ 7 - Len(s) = 1
    OBVIOUS
  <2> QED
    BY <1>1, <2>1
<1>6. (s \o t)[8] = t[2]
  <2>1. 8 \in 1 .. Len(s) + Len(t) /\ ~(8 <= Len(s)) /\ 8 - Len(s) = 2
    OBVIOUS
  <2> QED
    BY <1>1, <2>1
<1> QED
  BY <1>0, <1>2, <1>4, <1>5, <1>6

\* Four bytes and four.
LEMMA FourAndFour ==
  ASSUME NEW S, NEW s \in Seq(S), NEW t \in Seq(S), Len(s) = 4, Len(t) = 4
  PROVE  /\ s \o t \in Seq(S) /\ Len(s \o t) = 8
         /\ (s \o t)[1] = s[1] /\ (s \o t)[2] = s[2] /\ (s \o t)[3] = s[3] /\ (s \o t)[4] = s[4]
         /\ (s \o t)[5] = t[1] /\ (s \o t)[6] = t[2] /\ (s \o t)[7] = t[3] /\ (s \o t)[8] = t[4]
<1>0. Len(s) + Len(t) = 8
  OBVIOUS
<1>1. \A i \in 1 .. Len(s) + Len(t) : (s \o t)[i] = IF i <= Len(s) THEN s[i] ELSE t[i - Len(s)]
  BY ConcatProperties
<1>2. s \o t \in Seq(S) /\ Len(s \o t) = Len(s) + Len(t)
  BY ConcatProperties
<1>3. \A i \in 1 .. Len(s) : (s \o t)[i] = s[i]
  BY ConcatAt
<1>4. (s \o t)[1] = s[1] /\ (s \o t)[2] = s[2] /\ (s \o t)[3] = s[3] /\ (s \o t)[4] = s[4]
  <2>1. {1, 2, 3, 4} \subseteq 1 .. Len(s)
    OBVIOUS
  <2> QED
    BY <1>3, <2>1
<1>5. (s \o t)[5] = t[1]
  <2>1. 5 \in 1 .. Len(s) + Len(t) /\ ~(5 <= Len(s)) /\ 5 - Len(s) = 1
    OBVIOUS
  <2> QED
    BY <1>1, <2>1
<1>6. (s \o t)[6] = t[2]
  <2>1. 6 \in 1 .. Len(s) + Len(t) /\ ~(6 <= Len(s)) /\ 6 - Len(s) = 2
    OBVIOUS
  <2> QED
    BY <1>1, <2>1
<1>7. (s \o t)[7] = t[3]
  <2>1. 7 \in 1 .. Len(s) + Len(t) /\ ~(7 <= Len(s)) /\ 7 - Len(s) = 3
    OBVIOUS
  <2> QED
    BY <1>1, <2>1
<1>8. (s \o t)[8] = t[4]
  <2>1. 8 \in 1 .. Len(s) + Len(t) /\ ~(8 <= Len(s)) /\ 8 - Len(s) = 4
    OBVIOUS
  <2> QED
    BY <1>1, <2>1
<1> QED
  BY <1>0, <1>2, <1>4, <1>5, <1>6, <1>7, <1>8

\* Quotient and remainder.
LEMMA Division ==
  ASSUME NEW v \in Nat, NEW n \in Nat \ {0}
  PROVE  /\ v = n * (v \div n) + (v % n) /\ v % n \in 0 .. n - 1 /\ v \div n \in Nat
OBVIOUS

\* Products grow with their factors.
LEMMA Monotone ==
  ASSUME NEW n \in Nat, NEW q \in Nat, NEW m \in Nat, q >= m
  PROVE  n * q >= n * m
OBVIOUS

\* The remainder is what is left of a multiple,
LEMMA Remainder ==
  ASSUME NEW n \in Nat \ {0}, NEW q \in Nat, NEW r \in 0 .. n - 1
  PROVE  (n * q + r) % n = r
OBVIOUS

\* a smaller number is its own,
LEMMA SmallRemainder ==
  ASSUME NEW n \in Nat \ {0}, NEW r \in 0 .. n - 1
  PROVE  r % n = r
OBVIOUS

\* and of a product the quotient is below the other factor.
LEMMA SmallQuotient ==
  ASSUME NEW v \in Nat, NEW n \in Nat \ {0}, NEW m \in Nat, v < n * m
  PROVE  v \div n < m
<1>1. v \div n >= m => n * (v \div n) >= n * m
  BY Division, Monotone
<1>2. v >= n * (v \div n)
  BY Division
<1>3. v \div n \in Nat /\ n * (v \div n) \in Nat /\ n * m \in Nat
  BY Division
<1> QED
  BY ONLY <1>1, <1>2, <1>3, v < n * m, v \in Nat, m \in Nat

\* A byte and another one.
LEMMA TwoBytes ==
  ASSUME NEW a \in Byte, NEW b \in Byte
  PROVE  a + Radix * b \in 0 .. Radix * Radix - 1
<1>1. Radix * b \in Nat /\ Radix * b <= Radix * (Radix - 1) /\ Radix * (Radix - 1) = Radix * Radix - Radix
  BY GaugeCommandsConstants DEF Byte
<1> QED
  BY <1>1, GaugeCommandsConstants DEF Byte

\* The lowest two bytes of a number, and the 16 bits they hold.
LEMMA LowWordIs ==
  ASSUME NEW v \in Nat
  PROVE  /\ LowWord(v) \in Seq(Byte) /\ Len(LowWord(v)) = 2
         /\ LowWord(v)[1] + Radix * LowWord(v)[2] = v % (Radix * Radix)
<1> DEFINE a == v % Radix
           q == v \div Radix
           b == q % Radix
           p == q \div Radix
<1>1. a \in Byte /\ q \in Nat /\ v = Radix * q + a
  BY Division, GaugeCommandsConstants DEF Byte
<1>2. b \in Byte /\ p \in Nat /\ q = Radix * p + b
  BY <1>1, Division, GaugeCommandsConstants DEF Byte
<1>3. LowWord(v) = <<a, b>>
  BY DEF LowWord
<1> HIDE DEF a, b, p, q
<1>4. LowWord(v) \in Seq(Byte) /\ Len(LowWord(v)) = 2 /\ LowWord(v)[1] = a /\ LowWord(v)[2] = b
  <2>1. a \in Byte /\ b \in Byte
    BY <1>1, <1>2
  <2> QED
    BY ONLY <1>3, <2>1, Pair
<1>5. v = (Radix * Radix) * p + (a + Radix * b)
  <2>1. Radix * (Radix * p + b) = (Radix * Radix) * p + Radix * b
    BY <1>2, GaugeCommandsConstants DEF Byte
  <2> QED
    BY <1>1, <1>2, <2>1, GaugeCommandsConstants DEF Byte
<1>6. Radix * Radix \in Nat \ {0}
  BY GaugeCommandsConstants
<1>7. v % (Radix * Radix) = a + Radix * b
  <2>1. a + Radix * b \in 0 .. (Radix * Radix) - 1
    BY <1>1, <1>2, TwoBytes
  <2> QED
    BY <1>2, <1>5, <1>6, <2>1, Remainder
<1> QED
  BY <1>4, <1>7

\* The four bytes of a 32-bit number hold all of it.
LEMMA LowDWordIs ==
  ASSUME NEW v \in DWords
  PROVE  /\ LowDWord(v) \in Seq(Byte) /\ Len(LowDWord(v)) = 4
         /\ LowDWord(v)[1] + Radix * LowDWord(v)[2]
            + Radix * Radix * (LowDWord(v)[3] + Radix * LowDWord(v)[4]) = v
<1> DEFINE w == Radix * Radix
           q == v \div w
           a == LowWord(v)
           b == LowWord(q)
<1>1. w \in Nat \ {0} /\ v \in Nat /\ v < w * w
  <2>1. Radix * Radix * Radix * Radix = w * w /\ w \in Nat \ {0}
    BY GaugeCommandsConstants
  <2> QED
    BY <2>1 DEF DWords
<1>2. q \in Nat /\ v = w * q + (v % w) /\ q < w
  BY <1>1, Division, SmallQuotient
<1>3. LowDWord(v) = a \o b
  BY DEF LowDWord
<1>4. a \in Seq(Byte) /\ Len(a) = 2 /\ a[1] + Radix * a[2] = v % w
  BY <1>1, LowWordIs
<1>5. b \in Seq(Byte) /\ Len(b) = 2 /\ b[1] + Radix * b[2] = q % w
  BY <1>2, LowWordIs
<1>6. q % w = q
  BY <1>1, <1>2, SmallRemainder
<1> HIDE DEF a, b, q, w
<1>7. LowDWord(v) \in Seq(Byte) /\ Len(LowDWord(v)) = 4
      /\ LowDWord(v)[1] = a[1] /\ LowDWord(v)[2] = a[2] /\ LowDWord(v)[3] = b[1] /\ LowDWord(v)[4] = b[2]
  <2>1. a \in Seq(Byte) /\ Len(a) = 2 /\ b \in Seq(Byte) /\ Len(b) = 2
    BY <1>4, <1>5
  <2> QED
    BY ONLY <1>3, <2>1, TwoAndTwo
<1>8. LowDWord(v)[1] + Radix * LowDWord(v)[2] = v % w /\ LowDWord(v)[3] + Radix * LowDWord(v)[4] = q
  BY <1>4, <1>5, <1>6, <1>7
<1> QED
  BY <1>1, <1>2, <1>7, <1>8 DEF w

\* What a setter puts into the bytes, and what is read from them.
LEMMA HealthBytes ==
  ASSUME NEW h \in Health
  PROVE  LET b == LowDWord(h.age) \o LowWord(h.cap) \o LowWord(h.cycles) IN
         /\ b \in [1 .. 8 -> Byte]
         /\ Health_(b) = [age |-> h.age, cap |-> h.cap % (Radix * Radix), cycles |-> h.cycles % (Radix * Radix)]
<1> DEFINE x == LowDWord(h.age)
           y == LowWord(h.cap)
           z == LowWord(h.cycles)
           b == x \o y \o z
<1>1. h \in [age : DWords, cap : Nat, cycles : Nat]
  BY GaugeCommandsConstants
<1>2. /\ x \in Seq(Byte) /\ Len(x) = 4
      /\ x[1] + Radix * x[2] + Radix * Radix * (x[3] + Radix * x[4]) = h.age
  BY <1>1, LowDWordIs
<1>3. y \in Seq(Byte) /\ Len(y) = 2 /\ y[1] + Radix * y[2] = h.cap % (Radix * Radix)
  BY <1>1, LowWordIs
<1>4. z \in Seq(Byte) /\ Len(z) = 2 /\ z[1] + Radix * z[2] = h.cycles % (Radix * Radix)
  BY <1>1, LowWordIs
<1> HIDE DEF x, y, z
<1>5. /\ b \in Seq(Byte) /\ Len(b) = 8
      /\ b[1] = x[1] /\ b[2] = x[2] /\ b[3] = x[3] /\ b[4] = x[4]
      /\ b[5] = y[1] /\ b[6] = y[2] /\ b[7] = z[1] /\ b[8] = z[2]
  <2> DEFINE u == x \o y
  <2>1. u \in Seq(Byte) /\ Len(u) = 6 /\ u[1] = x[1] /\ u[2] = x[2] /\ u[3] = x[3] /\ u[4] = x[4]
        /\ u[5] = y[1] /\ u[6] = y[2]
    <3>1. x \in Seq(Byte) /\ Len(x) = 4 /\ y \in Seq(Byte) /\ Len(y) = 2
      BY <1>2, <1>3
    <3> QED
      BY ONLY <3>1, FourAndTwo
  <2> HIDE DEF u
  <2>2. /\ u \o z \in Seq(Byte) /\ Len(u \o z) = 8
        /\ (u \o z)[1] = u[1] /\ (u \o z)[2] = u[2] /\ (u \o z)[3] = u[3] /\ (u \o z)[4] = u[4]
        /\ (u \o z)[5] = u[5] /\ (u \o z)[6] = u[6] /\ (u \o z)[7] = z[1] /\ (u \o z)[8] = z[2]
    <3>1. u \in Seq(Byte) /\ Len(u) = 6 /\ z \in Seq(Byte) /\ Len(z) = 2
      BY <1>4, <2>1
    <3> QED
      BY ONLY <3>1, SixAndTwo
  <2> QED
    BY <2>1, <2>2 DEF u
<1> HIDE DEF b
<1>6. b \in [1 .. 8 -> Byte]
  BY <1>5, AsFunction
<1>7. Health_(b) = [age |-> h.age, cap |-> h.cap % (Radix * Radix), cycles |-> h.cycles % (Radix * Radix)]
  <2>1. DWord(b, 1) = h.age
    BY <1>2, <1>5 DEF Word, DWord
  <2>2. Word(b, 5) = h.cap % (Radix * Radix) /\ Word(b, 7) = h.cycles % (Radix * Radix)
    BY <1>3, <1>4, <1>5 DEF Word
  <2> QED
    BY <2>1, <2>2 DEF Health_
<1> QED
  BY <1>6, <1>7 DEF b, x, y, z

\* The calibration values come back as they were put in.
LEMMA CalBytes ==
  ASSUME NEW c \in Cal
  PROVE  LET b == LowDWord(c.offset) \o LowDWord(c.gain) IN
         b \in [1 .. 8 -> Byte] /\ Cal_(b) = c
<1> DEFINE x == LowDWord(c.offset)
           y == LowDWord(c.gain)
           b == x \o y
<1>1. c \in [offset : DWords, gain : DWords]
  BY GaugeCommandsConstants
<1>2. /\ x \in Seq(Byte) /\ Len(x) = 4
      /\ x[1] + Radix * x[2] + Radix * Radix * (x[3] + Radix * x[4]) = c.offset
  BY <1>1, LowDWordIs
<1>3. /\ y \in Seq(Byte) /\ Len(y) = 4
      /\ y[1] + Radix * y[2] + Radix * Radix * (y[3] + Radix * y[4]) = c.gain
  BY <1>1, LowDWordIs
<1> HIDE DEF x, y
<1>4. /\ b \in Seq(Byte) /\ Len(b) = 8
      /\ b[1] = x[1] /\ b[2] = x[2] /\ b[3] = x[3] /\ b[4] = x[4]
      /\ b[5] = y[1] /\ b[6] = y[2] /\ b[7] = y[3] /\ b[8] = y[4]
  <2>1. x \in Seq(Byte) /\ Len(x) = 4 /\ y \in Seq(Byte) /\ Len(y) = 4
    BY <1>2, <1>3
  <2> QED
    BY ONLY <2>1, FourAndFour
<1> HIDE DEF b
<1>5. b \in [1 .. 8 -> Byte]
  BY <1>4, AsFunction
<1>6. Cal_(b) = c
  <2>1. DWord(b, 1) = c.offset
    BY <1>2, <1>4 DEF Word, DWord
  <2>2. DWord(b, 5) = c.gain
    BY <1>3, <1>4 DEF Word, DWord
  <2> QED
    BY <1>1, <2>1, <2>2 DEF Cal_
<1> QED
  BY <1>5, <1>6 DEF b, x, y

\* The two parts of a name, taken apart and put together.
LEMMA Parts ==
  ASSUME NEW S, NEW n \in [1 .. NameLen -> S]
  PROVE  NameFront(n) \in [1 .. FrontLen -> S] /\ NameBack(n) \in [1 .. BackLen -> S]
<1>1. FrontLen \in Nat /\ BackLen \in Nat /\ NameLen = FrontLen + BackLen /\ NameLen \in Nat
  BY GaugeCommandsConstants DEF NameLen
<1>2. n \in Seq(S) /\ Len(n) = NameLen
  BY <1>1
<1>3. NameFront(n) \in Seq(S) /\ Len(NameFront(n)) = FrontLen
  BY <1>1, <1>2, SubSeqProperties DEF NameFront
<1>4. NameBack(n) \in Seq(S) /\ Len(NameBack(n)) = BackLen
  <2>1. \A i \in FrontLen + 1 .. NameLen : n[i] \in S
    BY <1>1
  <2> QED
    BY <1>1, <2>1, SubSeqProperties DEF NameBack
<1> QED
  BY <1>1, <1>3, <1>4, AsFunction

\* Two halves put together are the halves of the whole.
LEMMA Joined ==
  ASSUME NEW S, NEW a \in [1 .. FrontLen -> S], NEW b \in [1 .. BackLen -> S]
  PROVE  a \o b \in [1 .. NameLen -> S] /\ NameFront(a \o b) = a /\ NameBack(a \o b) = b
<1>1. FrontLen \in Nat /\ BackLen \in Nat /\ NameLen = FrontLen + BackLen /\ NameLen \in Nat
  BY GaugeCommandsConstants DEF NameLen
<1>2. a \in Seq(S) /\ Len(a) = FrontLen /\ b \in Seq(S) /\ Len(b) = BackLen
  BY <1>1
<1>3. /\ a \o b \in Seq(S) /\ Len(a \o b) = NameLen
      /\ \A i \in 1 .. FrontLen : (a \o b)[i] = a[i]
      /\ \A i \in 1 .. BackLen : (a \o b)[FrontLen + i] = b[i]
  <2>1. PICK x \in Seq(S), y \in Seq(S) : x = a /\ y = b
    BY <1>2
  <2>2. /\ x \o y \in Seq(S) /\ Len(x \o y) = Len(x) + Len(y)
        /\ \A i \in 1 .. Len(x) : (x \o y)[i] = x[i]
        /\ \A i \in 1 .. Len(y) : (x \o y)[Len(x) + i] = y[i]
    BY ONLY x \in Seq(S), y \in Seq(S), ConcatAt
  <2> QED
    BY <1>1, <1>2, <2>1, <2>2
<1> DEFINE s == a \o b
<1> HIDE DEF s
<1>4. s \in Seq(S) /\ Len(s) = NameLen /\ (\A i \in 1 .. FrontLen : s[i] = a[i]) /\ (\A i \in 1 .. BackLen : s[FrontLen + i] = b[i])
  BY <1>3 DEF s
<1>5. NameFront(s) = a
  <2>1. NameFront(s) \in Seq(S) /\ Len(NameFront(s)) = FrontLen /\ \A i \in 1 .. FrontLen : NameFront(s)[i] = s[i]
    BY <1>1, <1>4, SubSeqProperties DEF NameFront
  <2> QED
    BY <1>1, <1>2, <1>4, <2>1, SeqEqual
<1>6. NameBack(s) = b
  <2>1. NameBack(s) \in Seq(S) /\ Len(NameBack(s)) = BackLen /\ \A i \in 1 .. BackLen : NameBack(s)[i] = s[FrontLen + i]
    <3>1. \A i \in FrontLen + 1 .. NameLen : s[i] \in S
      BY <1>1, <1>4, AsFunction
    <3>2. NameBack(s) \in Seq(S) /\ Len(NameBack(s)) = BackLen
          /\ \A i \in 1 .. NameLen - (FrontLen + 1) + 1 : NameBack(s)[i] = s[FrontLen + 1 + i - 1]
      <4>1. FrontLen + 1 \in Int /\ NameLen \in Int
        BY <1>1
      <4> QED
        BY <1>1, <3>1, <4>1, SubSeqProperties DEF NameBack
    <3> QED
      BY <1>1, <3>2
  <2> QED
    BY <1>1, <1>2, <1>4, <2>1, SeqEqual
<1>7. s \in [1 .. NameLen -> S]
  BY <1>1, <1>4, AsFunction
<1> QED
  BY <1>5, <1>6, <1>7 DEF s

-----------------------------------------------------------------------------
(* What all values are. *)

\* The bytes of a name never say: keep.
Char == 0 .. Radix - 2
Serials == Gauge \cup {Nobody}

\* The second nickname message: it has the end of the name, or keeps it.
SmallData ==
  {d \in Seq(Byte) :
    /\ Len(d) >= BackLen
    /\ (Len(d) = BackLen /\ \A i \in 1 .. BackLen : d[i] # Keep) \/ \A i \in 1 .. BackLen : d[i] = Keep
    /\ Len(d) >= BackLen + 3 => d[BackLen + 3] \in {0, 1}}

Frames ==
  [id : {"SetNickname1"}, data : [1 .. FrontLen -> Char], meant : Serials]
  \cup [id : {"SetNickname2"}, data : SmallData, meant : Serials]
  \cup [id : {"SetHealth", "SetCalibration"}, data : [1 .. 8 -> Byte], meant : Serials]
  \cup [id : {"Reprog"}, command : {"unlock", "calibrate"}, serial : Serials, meant : Serials]

Memories == [name : [1 .. NameLen -> Char], mfg : Byte, health : [1 .. 8 -> Byte],
             cal : [1 .. 8 -> Byte], inverted : {0, 1}]
Firsts == [health : [1 .. 8 -> Byte], cal : [1 .. 8 -> Byte], mfg : Byte, front : [1 .. FrontLen -> Char]]

\* The calibration values of a new object are any numbers.
ShownInv ==
  \E n \in [1 .. NameLen + 1 -> Char], m \in Byte : \E h, c :
    shown = [name |-> n, mfg |-> m, health |-> h, cal |-> c]

TypeInv ==
  /\ m_serialNumber \in Serials /\ listed \in Serials /\ reading \in BOOLEAN
  /\ ShownInv
  /\ bus \in Seq(Frames) /\ Len(bus) <= MaxFrames
  /\ canMsgMap["first"] \in {Nothing} \cup Firsts
  /\ canMsgMap["second"] \in {Nothing} \cup [1 .. BackLen -> Char]
  /\ DOMAIN canMsgMap = Part
  /\ present \in Gauge /\ unlocked \in BOOLEAN /\ memory \in [Gauge -> Memories]
  /\ intact \in [Kind -> BOOLEAN] /\ DOMAIN asked = Kind

-----------------------------------------------------------------------------
(* SettingsTaken. *)

Field == {"front", "back", "mfg", "health", "cal", "inverted"}
FieldOf(mem, q) ==
  CASE q = "front" -> NameFront(mem.name) [] q = "back" -> NameBack(mem.name)
    [] q = "mfg" -> mem.mfg [] q = "health" -> mem.health
    [] q = "cal" -> mem.cal [] q = "inverted" -> mem.inverted

\* The small settings behind the name, and what a frame has of them.
Has(f, n) == f.id = "SetNickname2" /\ BackLen + n \in DOMAIN f.data /\ f.data[BackLen + n] # Keep

\* May a frame change a field?
Writes(f, q) ==
  \/ q = "front" /\ f.id = "SetNickname1"
  \/ q = "back" /\ f.id = "SetNickname2" /\ f.data[1] # Keep
  \/ q = "mfg" /\ Has(f, 1)
  \/ q = "health" /\ (f.id = "SetHealth" \/ Has(f, 2))
  \/ q = "cal" /\ (f.id = "SetCalibration" \/ (f.id = "Reprog" /\ f.command # "unlock"))
  \/ q = "inverted" /\ Has(f, 3)

\* Does it set the field to a value?
Sets(f, q, v) ==
  \/ q = "front" /\ f.id = "SetNickname1" /\ f.data = v
  \/ q = "back" /\ f.id = "SetNickname2" /\ f.data[1] # Keep /\ f.data = v
  \/ q = "mfg" /\ Has(f, 1) /\ f.data[BackLen + 1] = v
  \/ q = "health" /\ f.id = "SetHealth" /\ f.data = v
  \/ q = "cal" /\ f.id = "SetCalibration" /\ f.data = v
  \/ q = "inverted" /\ Has(f, 3) /\ f.data[BackLen + 3] = v

\* The gauge takes what is behind the i-th frame.
Unlocks(i) ==
  \/ i = 0 /\ unlocked
  \/ i \in DOMAIN bus /\ bus[i].id = "Reprog" /\ bus[i].command = "unlock" /\ bus[i].serial = present

\* No frame under way changes the field, which has the value; or the last one that
\* does sets it, and comes behind one that unlocks the gauge.
Arrives(q, v) ==
  \/ FieldOf(memory[present], q) = v /\ \A j \in DOMAIN bus : ~Writes(bus[j], q)
  \/ \E i \in DOMAIN bus :
       /\ Sets(bus[i], q, v) /\ \A j \in DOMAIN bus : j > i => ~Writes(bus[j], q)
       /\ \E o \in 0 .. i - 1 : Unlocks(o)

\* What was asked for of a kind arrives in its fields.
TakenAs(k, x) ==
  \/ k = "name" /\ \E n \in [1 .. NameLen -> Char] :
       Text(n) = x /\ Arrives("front", NameFront(n)) /\ Arrives("back", NameBack(n))
  \/ k = "mfg" /\ Arrives("mfg", x)
  \/ k = "health" /\ \E b \in [1 .. 8 -> Byte] : Health_(b) = x /\ Arrives("health", b)
  \/ k = "cal" /\ \E b \in [1 .. 8 -> Byte] : Cal_(b) = x /\ Arrives("cal", b)
  \/ k = "display" /\ Arrives("inverted", x)
Fields(k) ==
  CASE k = "name" -> {"front", "back"} [] k = "mfg" -> {"mfg"} [] k = "health" -> {"health"}
    [] k = "cal" -> {"cal"} [] k = "display" -> {"inverted"}

TakenInv == \A k \in Kind : intact[k] => TakenAs(k, asked[k])

-----------------------------------------------------------------------------
(* Names and frames. *)

\* Where a string ends.
LEMMA NoEnd ==
  ASSUME NEW S, NEW b \in Seq(S), \A i \in 1 .. Len(b) : b[i] # 0
  PROVE  Text(b) = b
<1>1. EndOf(b) = 0
  BY DEF EndOf, SelectInSeq
<1> QED
  BY <1>1 DEF Text

\* A string ends at its first zero.
LEMMA EndAt ==
  ASSUME NEW S, NEW b \in Seq(S), NEW n \in Nat, n < Len(b), b[n + 1] = 0, \A i \in 1 .. n : b[i] # 0
  PROVE  Text(b) = SubSeq(b, 1, n)
<1>1. EndOf(b) = n + 1
  BY DEF EndOf, SelectInSeq, Min
<1>2. EndOf(b) - 1 = n /\ EndOf(b) # 0
  BY <1>1
<1> QED
  BY <1>2 DEF Text

\* What is sent of a name is what was asked for, up to the end of the string.
LEMMA NameSent ==
  ASSUME ShownInv, NEW name \in Name
  PROVE  LET sz == CopyName(name)
             n == SubSeq(sz, 1, NameLen) IN
         /\ sz \in [1 .. NameLen + 1 -> Char] /\ n \in [1 .. NameLen -> Char]
         /\ NameFront(n) = NameFront(sz) /\ NameBack(n) = NameBack(sz)
         /\ Text(n) = IF Len(name) > NameLen THEN SubSeq(name, 1, NameLen) ELSE name
<1> DEFINE sz == CopyName(name)
           n == SubSeq(sz, 1, NameLen)
           len == IF Len(name) < NameLen THEN Len(name) ELSE NameLen
<1>1. FrontLen \in Nat \ {0} /\ BackLen \in Nat \ {0} /\ NameLen = FrontLen + BackLen /\ NameLen \in Nat
  BY GaugeCommandsConstants DEF NameLen
<1>2. name \in Seq(1 .. Radix - 2) /\ Len(name) \in Nat /\ len \in 0 .. NameLen /\ len <= Len(name)
  BY <1>1, GaugeCommandsConstants
<1>3. shown.name \in [1 .. NameLen + 1 -> Char] /\ 0 \in Char /\ 1 .. Radix - 2 \subseteq Char
  BY GaugeCommandsConstants DEF ShownInv, Char
<1>4. sz = [i \in 1 .. NameLen + 1 |-> IF i <= len THEN name[i] ELSE IF i = len + 1 THEN 0 ELSE shown.name[i]]
  BY DEF CopyName
<1> HIDE DEF len, sz
<1>5. sz \in [1 .. NameLen + 1 -> Char]
  <2>1. \A i \in 1 .. NameLen + 1 : i <= len => i \in 1 .. Len(name)
    BY <1>1, <1>2
  <2>2. \A i \in 1 .. NameLen + 1 : i <= len => name[i] \in Char
    BY <1>2, <1>3, <2>1, ElementOfSeq
  <2>3. \A i \in 1 .. NameLen + 1 : shown.name[i] \in Char
    BY <1>3
  <2> QED
    BY <1>3, <1>4, <2>2, <2>3
<1>6. sz \in Seq(Char) /\ Len(sz) = NameLen + 1
  BY <1>1, <1>5, AsFunction
<1>7. n \in Seq(Char) /\ Len(n) = NameLen /\ \A i \in 1 .. NameLen : n[i] = sz[i]
  <2>1. \A i \in 1 .. NameLen : sz[i] \in Char
    BY <1>1, <1>5
  <2> QED
    BY <1>1, <2>1, SubSeqProperties
<1>8. n \in [1 .. NameLen -> Char]
  BY <1>1, <1>7, AsFunction
<1> HIDE DEF n
<1>9. NameFront(n) = NameFront(sz)
  <2>1. (\A i \in 1 .. FrontLen : n[i] \in Char) /\ (\A i \in 1 .. FrontLen : sz[i] \in Char)
    BY <1>1, <1>5, <1>8
  <2>2. /\ NameFront(n) \in Seq(Char) /\ Len(NameFront(n)) = FrontLen
        /\ \A i \in 1 .. FrontLen : NameFront(n)[i] = n[i]
    BY <1>1, <2>1, SubSeqProperties DEF NameFront
  <2>3. /\ NameFront(sz) \in Seq(Char) /\ Len(NameFront(sz)) = FrontLen
        /\ \A i \in 1 .. FrontLen : NameFront(sz)[i] = sz[i]
    BY <1>1, <2>1, SubSeqProperties DEF NameFront
  <2>4. \A i \in 1 .. FrontLen : n[i] = sz[i]
    BY <1>1, <1>7
  <2> QED
    BY <2>2, <2>3, <2>4, SeqEqual
<1>10. NameBack(n) = NameBack(sz)
  <2>1. (\A i \in FrontLen + 1 .. NameLen : n[i] \in Char) /\ (\A i \in FrontLen + 1 .. NameLen : sz[i] \in Char)
    BY <1>1, <1>5, <1>8
  <2>2. /\ NameBack(n) \in Seq(Char) /\ Len(NameBack(n)) = BackLen
        /\ \A i \in 1 .. NameLen - (FrontLen + 1) + 1 : NameBack(n)[i] = n[FrontLen + 1 + i - 1]
    BY <1>1, <2>1, SubSeqProperties DEF NameBack
  <2>3. /\ NameBack(sz) \in Seq(Char) /\ Len(NameBack(sz)) = BackLen
        /\ \A i \in 1 .. NameLen - (FrontLen + 1) + 1 : NameBack(sz)[i] = sz[FrontLen + 1 + i - 1]
    BY <1>1, <2>1, SubSeqProperties DEF NameBack
  <2>4. \A i \in 1 .. BackLen :
          /\ i \in 1 .. NameLen - (FrontLen + 1) + 1 /\ FrontLen + 1 + i - 1 \in 1 .. NameLen
    BY <1>1
  <2>5. \A i \in 1 .. BackLen : NameBack(n)[i] = NameBack(sz)[i]
    BY <1>7, <2>2, <2>3, <2>4
  <2> QED
    BY <2>2, <2>3, <2>5, SeqEqual
<1>11. Text(n) = IF Len(name) > NameLen THEN SubSeq(name, 1, NameLen) ELSE name
  <2>1. \A i \in 1 .. len : n[i] = name[i] /\ n[i] # 0 /\ n[i] \in 1 .. Radix - 2
    <3>1. \A i \in 1 .. len : i \in 1 .. NameLen /\ i \in 1 .. NameLen + 1 /\ i \in 1 .. Len(name)
      BY <1>1, <1>2
    <3>2. \A i \in 1 .. len : n[i] = sz[i]
      BY <1>7, <3>1
    <3>3. \A i \in 1 .. len : i <= len
      BY <1>2
    <3>4. \A i \in 1 .. len : sz[i] = name[i]
      BY <1>4, <3>1, <3>3
    <3>5. \A i \in 1 .. len : name[i] \in 1 .. Radix - 2
      BY <1>2, <3>1, ElementOfSeq
    <3>6. \A c \in 1 .. Radix - 2 : c # 0
      BY GaugeCommandsConstants
    <3> QED
      BY <3>2, <3>4, <3>5, <3>6
  <2>2. CASE Len(name) < NameLen
    <3>1. len = Len(name) /\ len + 1 \in 1 .. NameLen /\ len + 1 \in 1 .. NameLen + 1
      BY <1>1, <1>2, <2>2 DEF len
    <3>2. n[len + 1] = 0
      <4>1. n[len + 1] = sz[len + 1] /\ ~(len + 1 <= len)
        BY <1>2, <1>7, <3>1
      <4>2. sz[len + 1] = IF len + 1 <= len THEN name[len + 1] ELSE IF len + 1 = len + 1 THEN 0 ELSE shown.name[len + 1]
        BY <1>4, <3>1
      <4> QED
        BY <4>1, <4>2
    <3>3. Text(n) = SubSeq(n, 1, len)
      <4>1. len \in Nat /\ len < Len(n)
        BY <1>2, <1>7, <3>1
      <4> QED
        BY <1>7, <2>1, <3>2, <4>1, EndAt
    <3>4. /\ SubSeq(n, 1, len) \in Seq(1 .. Radix - 2) /\ Len(SubSeq(n, 1, len)) = len
          /\ \A i \in 1 .. len : SubSeq(n, 1, len)[i] = n[i]
      BY <1>2, <2>1, SubSeqProperties
    <3>5. SubSeq(n, 1, len) = name
      BY <1>2, <2>1, <3>1, <3>4, SeqEqual
    <3> QED
      BY <1>1, <1>2, <2>2, <3>3, <3>5
  <2>3. CASE ~(Len(name) < NameLen)
    <3>1. len = NameLen
      BY <2>3 DEF len
    <3>2. Text(n) = n
      BY <1>7, <2>1, <3>1, NoEnd
    <3>3. /\ SubSeq(name, 1, NameLen) \in Seq(1 .. Radix - 2) /\ Len(SubSeq(name, 1, NameLen)) = NameLen
          /\ \A i \in 1 .. NameLen : SubSeq(name, 1, NameLen)[i] = name[i]
      <4>1. \A i \in 1 .. NameLen : name[i] \in 1 .. Radix - 2
        <5>1. \A i \in 1 .. NameLen : i \in 1 .. Len(name)
          BY <1>1, <1>2, <3>1
        <5> QED
          BY <1>2, <5>1, ElementOfSeq
      <4> QED
        BY <1>1, <4>1, SubSeqProperties
    <3>4. n \in Seq(1 .. Radix - 2)
      <4>1. n \in [1 .. NameLen -> 1 .. Radix - 2]
        BY <1>8, <2>1, <3>1
      <4> QED
        BY <1>1, <4>1, AsFunction
    <3>5. n = SubSeq(name, 1, NameLen)
      BY <1>7, <2>1, <3>1, <3>3, <3>4, SeqEqual
    <3>6. Len(name) = NameLen => n = name
      BY <1>2, <1>7, <2>1, <3>1, <3>4, SeqEqual
    <3> QED
      BY <1>1, <1>2, <2>3, <3>2, <3>5, <3>6
  <2> QED
    BY <2>2, <2>3
<1> QED
  BY <1>5, <1>8, <1>9, <1>10, <1>11 DEF n, sz

\* A message with one small setting behind bytes that say: keep.
LEMMA SmallFrame ==
  ASSUME NEW n \in 0 .. 2, NEW x \in 0 .. Radix - 2, n = 2 => x \in {0, 1}
  PROVE  LET d == Kept(BackLen + n) \o <<x>> IN
         /\ d \in SmallData /\ d[1] = Keep
         /\ \A m \in 1 .. 3 : BackLen + m \in DOMAIN d /\ d[BackLen + m] # Keep <=> m = n + 1
         /\ d[BackLen + n + 1] = x
<1> DEFINE k == Kept(BackLen + n)
           d == k \o <<x>>
           l == BackLen + n
<1>1. l \in Nat \ {0} /\ Keep \in Byte /\ x \in Byte /\ x # Keep /\ BackLen \in Nat \ {0}
  BY GaugeCommandsConstants DEF Keep, Byte
<1>2. k \in [1 .. l -> Byte] /\ \A i \in 1 .. l : k[i] = Keep
  BY <1>1 DEF Kept
<1>3. k \in Seq(Byte) /\ Len(k) = l
  BY <1>1, <1>2, AsFunction
<1>4. <<x>> \in Seq(Byte) /\ Len(<<x>>) = 1 /\ <<x>>[1] = x
  BY <1>1
<1> HIDE DEF k
<1>5. /\ d \in Seq(Byte) /\ Len(d) = l + 1 /\ DOMAIN d = 1 .. l + 1
      /\ \A i \in 1 .. l : d[i] = k[i]
      /\ \A i \in 1 .. 1 : d[l + i] = <<x>>[i]
  BY <1>3, <1>4, ConcatAt
<1>6. (\A i \in 1 .. l : d[i] = Keep) /\ d[l + 1] = x
  <2>1. 1 \in 1 .. 1
    OBVIOUS
  <2>2. d[l + 1] = <<x>>[1]
    BY <1>5, <2>1
  <2> QED
    BY <1>2, <1>4, <1>5, <2>2
<1> HIDE DEF d
<1>7. d \in SmallData
  <2>1. Len(d) >= BackLen /\ \A i \in 1 .. BackLen : d[i] = Keep
    BY <1>1, <1>5, <1>6
  <2>2. Len(d) >= BackLen + 3 => d[BackLen + 3] \in {0, 1}
    BY <1>1, <1>5, <1>6
  <2> QED
    BY <1>5, <2>1, <2>2 DEF SmallData
<1>8. \A m \in 1 .. 3 : BackLen + m \in DOMAIN d /\ d[BackLen + m] # Keep <=> m = n + 1
  BY <1>1, <1>5, <1>6
<1> QED
  BY <1>1, <1>6, <1>7, <1>8 DEF d, k

\* A field of a gauge after a frame: the one it was, or the one that was set.
LEMMA Effects ==
  ASSUME NEW mem \in Memories, NEW f \in Frames, f.id = "Reprog" => f.command # "unlock",
         NEW new \in Taken(mem, f)
  PROVE  /\ new \in Memories
         /\ \A q \in Field :
              /\ ~Writes(f, q) => FieldOf(new, q) = FieldOf(mem, q)
              /\ \A v : Sets(f, q, v) => FieldOf(new, q) = v
<1>0. /\ BackLen \in Nat \ {0} /\ FrontLen \in Nat \ {0}
      /\ NameFront(mem.name) \in [1 .. FrontLen -> Char] /\ NameBack(mem.name) \in [1 .. BackLen -> Char]
  BY Parts, GaugeCommandsConstants DEF Memories
<1>1. CASE f.id = "SetNickname1"
  <2>1. f.data \in [1 .. FrontLen -> Char] /\ new = [mem EXCEPT !.name = f.data \o NameBack(@)]
    BY <1>1 DEF Frames, Taken
  <2>2. DEFINE s == f.data \o NameBack(mem.name)
  <2>3. s \in [1 .. NameLen -> Char] /\ NameFront(s) = f.data /\ NameBack(s) = NameBack(mem.name)
    BY <1>0, <2>1, Joined
  <2> HIDE DEF s
  <2>4. new \in Memories /\ new.name = s /\ new.mfg = mem.mfg /\ new.health = mem.health
        /\ new.cal = mem.cal /\ new.inverted = mem.inverted
    BY <2>1, <2>3 DEF Memories, s
  <2> QED
    BY <1>1, <2>3, <2>4 DEF Field, FieldOf, Writes, Sets, Has
<1>2. CASE f.id = "SetNickname2"
  <2> DEFINE b == Over(NameBack(mem.name), f.data)
             s == NameFront(mem.name) \o b
             m == At(f.data, BackLen + 1, mem.mfg)
             i == At(f.data, BackLen + 3, mem.inverted)
  <2>1. f.data \in SmallData
    BY <1>2 DEF Frames
  <2>2. f.data \in Seq(Byte) /\ DOMAIN f.data = 1 .. Len(f.data) /\ Len(f.data) \in Nat /\ Len(f.data) >= BackLen
    BY <2>1 DEF SmallData
  <2>3. f.data[1] # Keep => b = f.data
    <3>1. f.data[1] # Keep => Len(f.data) = BackLen /\ \A j \in 1 .. BackLen : f.data[j] # Keep
      <4>1. \/ Len(f.data) = BackLen /\ \A j \in 1 .. BackLen : f.data[j] # Keep
            \/ \A j \in 1 .. BackLen : f.data[j] = Keep
        BY <2>1 DEF SmallData
      <4>2. 1 \in 1 .. BackLen
        BY <1>0
      <4> QED
        BY <4>1, <4>2
    <3>2. DOMAIN NameBack(mem.name) = 1 .. BackLen
      BY <1>0
    <3>3. f.data[1] # Keep => b = [j \in 1 .. BackLen |-> f.data[j]]
      BY <2>2, <3>1, <3>2 DEF Over
    <3>4. f.data[1] # Keep => f.data \in [1 .. BackLen -> Byte]
      BY <1>0, <2>2, <3>1, AsFunction
    <3> QED
      BY <3>3, <3>4
  <2>4. f.data[1] = Keep => b = NameBack(mem.name)
    <3>1. f.data[1] = Keep => \A j \in 1 .. BackLen : f.data[j] = Keep
      BY <1>0, <2>1 DEF SmallData
    <3> QED
      BY <1>0, <3>1 DEF Over
  <2>5. b \in [1 .. BackLen -> Char]
    <3>1. \A j \in 1 .. BackLen : j \in DOMAIN f.data /\ f.data[j] # Keep => f.data[j] \in Char
      <4>1. \A c \in Byte : c # Keep => c \in Char
        BY GaugeCommandsConstants DEF Byte, Char, Keep
      <4>2. \A j \in DOMAIN f.data : f.data[j] \in Byte
        BY <2>2, ElementOfSeq
      <4> QED
        BY <4>1, <4>2
    <3> QED
      BY <1>0, <3>1 DEF Over
  <2>6. s \in [1 .. NameLen -> Char] /\ NameFront(s) = NameFront(mem.name) /\ NameBack(s) = b
    BY <1>0, <2>5, Joined
  <2>7. m \in Byte /\ (~Has(f, 1) => m = mem.mfg) /\ (Has(f, 1) => m = f.data[BackLen + 1])
    BY <1>2, <2>2 DEF At, Has, Memories
  <2>8. i \in {0, 1} /\ (~Has(f, 3) => i = mem.inverted) /\ (Has(f, 3) => i = f.data[BackLen + 3])
    BY <1>0, <1>2, <2>1, <2>2 DEF At, Has, Memories, SmallData
  <2> HIDE DEF b, s, m, i
  <2> DEFINE set == [mem EXCEPT !.name = s, !.mfg = m, !.inverted = i]
  <2>9. new = set \/ (Has(f, 2) /\ new = [set EXCEPT !.health = Zeros(8)])
    BY <1>2, GaugeCommandsConstants DEF Taken, Has, At, Keep, b, s, m, i
  <2>10. /\ set \in Memories /\ set.name = s /\ set.mfg = m /\ set.health = mem.health
         /\ set.cal = mem.cal /\ set.inverted = i
    BY <2>6, <2>7, <2>8 DEF Memories
  <2> HIDE DEF set
  <2>11. Zeros(8) \in [1 .. 8 -> Byte]
    BY GaugeCommandsConstants DEF Zeros, Byte
  <2>12. /\ new \in Memories /\ new.name = s /\ new.mfg = m /\ (Has(f, 2) \/ new.health = mem.health)
         /\ new.cal = mem.cal /\ new.inverted = i
    BY <2>9, <2>10, <2>11 DEF Memories
  <2> QED
    BY <1>2, <2>3, <2>4, <2>6, <2>7, <2>8, <2>12 DEF Field, FieldOf, Writes, Sets
<1>3. CASE f.id = "SetHealth"
  <2>1. f.data \in [1 .. 8 -> Byte] /\ new = [mem EXCEPT !.health = f.data]
    BY <1>3 DEF Frames, Taken
  <2>2. new \in Memories /\ new.name = mem.name /\ new.mfg = mem.mfg /\ new.health = f.data
        /\ new.cal = mem.cal /\ new.inverted = mem.inverted
    BY <2>1 DEF Memories
  <2> QED
    BY <1>3, <2>2 DEF Field, FieldOf, Writes, Sets, Has
<1>4. CASE f.id = "SetCalibration"
  <2>1. f.data \in [1 .. 8 -> Byte] /\ new = [mem EXCEPT !.cal = f.data]
    BY <1>4 DEF Frames, Taken
  <2>2. new \in Memories /\ new.name = mem.name /\ new.mfg = mem.mfg /\ new.health = mem.health
        /\ new.cal = f.data /\ new.inverted = mem.inverted
    BY <2>1 DEF Memories
  <2> QED
    BY <1>4, <2>2 DEF Field, FieldOf, Writes, Sets, Has
<1>5. CASE f.id = "Reprog"
  <2>1. PICK c \in Cal : new = [mem EXCEPT !.cal = LowDWord(c.offset) \o LowDWord(c.gain)]
    BY <1>5 DEF Taken
  <2> DEFINE x == LowDWord(c.offset) \o LowDWord(c.gain)
  <2>2. x \in [1 .. 8 -> Byte]
    BY CalBytes
  <2> HIDE DEF x
  <2>3. new \in Memories /\ new.name = mem.name /\ new.mfg = mem.mfg /\ new.health = mem.health
        /\ new.inverted = mem.inverted
    BY <2>1, <2>2 DEF Memories, x
  <2> QED
    BY <1>5, <2>3 DEF Field, FieldOf, Writes, Sets, Has
<1> QED
  BY <1>1, <1>2, <1>3, <1>4, <1>5 DEF Frames

-----------------------------------------------------------------------------
(* What is on its way stays on its way. *)

\* Frames behind it that leave the field alone.
LEMMA ArrivesStill ==
  ASSUME bus \in Seq(Frames), NEW s \in Seq(Frames), bus' = bus \o s,
         UNCHANGED <<present, unlocked, memory>>,
         NEW q, NEW v, Arrives(q, v), \A j \in DOMAIN s : ~Writes(s[j], q)
  PROVE  Arrives(q, v)'
<1>1. /\ Len(bus) \in Nat /\ Len(s) \in Nat /\ DOMAIN bus = 1 .. Len(bus) /\ DOMAIN s = 1 .. Len(s)
      /\ DOMAIN bus' = 1 .. Len(bus) + Len(s)
      /\ \A i \in 1 .. Len(bus) : bus'[i] = bus[i]
      /\ \A i \in 1 .. Len(s) : bus'[Len(bus) + i] = s[i]
  BY ConcatAt
<1>2. \A j \in DOMAIN bus' : j > Len(bus) => ~Writes(bus'[j], q)
  <2> SUFFICES ASSUME NEW j \in DOMAIN bus', j > Len(bus) PROVE ~Writes(bus'[j], q)
    OBVIOUS
  <2>1. j - Len(bus) \in 1 .. Len(s) /\ Len(bus) + (j - Len(bus)) = j
    BY <1>1
  <2>2. bus'[j] = s[j - Len(bus)]
    BY <1>1, <2>1
  <2> QED
    BY <1>1, <2>1, <2>2
<1>3. \A o \in 0 .. Len(bus) : Unlocks(o) => Unlocks(o)'
  BY <1>1 DEF Unlocks
<1>4. CASE FieldOf(memory[present], q) = v /\ \A j \in DOMAIN bus : ~Writes(bus[j], q)
  <2>1. \A j \in DOMAIN bus' : ~Writes(bus'[j], q)
    BY <1>1, <1>2, <1>4
  <2> QED
    BY <1>4, <2>1 DEF Arrives
<1>5. CASE \E i \in DOMAIN bus :
             /\ Sets(bus[i], q, v) /\ \A j \in DOMAIN bus : j > i => ~Writes(bus[j], q)
             /\ \E o \in 0 .. i - 1 : Unlocks(o)
  <2>1. PICK i \in DOMAIN bus :
          /\ Sets(bus[i], q, v) /\ \A j \in DOMAIN bus : j > i => ~Writes(bus[j], q)
          /\ \E o \in 0 .. i - 1 : Unlocks(o)
    BY <1>5
  <2>2. i \in DOMAIN bus' /\ Sets(bus'[i], q, v)
    BY <1>1, <2>1
  <2>3. \A j \in DOMAIN bus' : j > i => ~Writes(bus'[j], q)
    BY <1>1, <1>2, <2>1
  <2>4. \E o \in 0 .. i - 1 : Unlocks(o)'
    <3>1. \A o \in 0 .. i - 1 : o \in 0 .. Len(bus)
      BY <1>1, <2>1
    <3> QED
      BY <1>3, <2>1, <3>1
  <2> QED
    BY <2>2, <2>3, <2>4 DEF Arrives
<1> QED
  BY <1>4, <1>5 DEF Arrives

\* A frame that sets the field, behind one that unlocks the gauge.
LEMMA ArrivesNew ==
  ASSUME bus \in Seq(Frames), NEW s \in Seq(Frames), bus' = bus \o s,
         NEW q, NEW v, NEW i \in DOMAIN s, 1 \in DOMAIN s, 1 < i,
         s[1] = UnlockController(present), present' = present,
         Sets(s[i], q, v), \A j \in DOMAIN s : j > i => ~Writes(s[j], q)
  PROVE  Arrives(q, v)'
<1>1. /\ Len(bus) \in Nat /\ Len(s) \in Nat /\ DOMAIN bus = 1 .. Len(bus) /\ DOMAIN s = 1 .. Len(s)
      /\ DOMAIN bus' = 1 .. Len(bus) + Len(s)
      /\ \A k \in 1 .. Len(s) : bus'[Len(bus) + k] = s[k]
  BY ConcatAt
<1>2. PICK n \in Nat, o \in Nat : n = Len(bus) + i /\ o = Len(bus) + 1
  BY <1>1
<1>3. n \in DOMAIN bus' /\ o \in DOMAIN bus' /\ o \in 0 .. n - 1 /\ o # 0
  BY <1>1, <1>2
<1>4. bus'[n] = s[i] /\ bus'[o] = s[1]
  BY <1>1, <1>2
<1>5. Unlocks(o)'
  <2>1. bus'[o].id = "Reprog" /\ bus'[o].command = "unlock" /\ bus'[o].serial = present
    BY <1>4 DEF UnlockController, Reprog
  <2> QED
    BY <1>3, <2>1 DEF Unlocks
<1>6. \A j \in DOMAIN bus' : j > n => ~Writes(bus'[j], q)
  <2> SUFFICES ASSUME NEW j \in DOMAIN bus', j > n PROVE ~Writes(bus'[j], q)
    OBVIOUS
  <2>1. j - Len(bus) \in 1 .. Len(s) /\ Len(bus) + (j - Len(bus)) = j /\ j - Len(bus) > i
    BY <1>1, <1>2
  <2>2. bus'[j] = s[j - Len(bus)]
    BY <1>1, <2>1
  <2> QED
    BY <1>1, <2>1, <2>2
<1>7. Sets(bus'[n], q, v)
  BY <1>4
<1> QED
  BY <1>3, <1>5, <1>6, <1>7 DEF Arrives

\* The first frame on the bus, and those behind it.
LEMMA FirstFrame ==
  ASSUME bus \in Seq(Frames), bus # <<>>, bus' = Tail(bus)
  PROVE  /\ Len(bus) \in Nat \ {0} /\ Head(bus) = bus[1] /\ bus[1] \in Frames /\ 1 \in DOMAIN bus
         /\ DOMAIN bus = 1 .. Len(bus) /\ DOMAIN bus' = 1 .. Len(bus) - 1
         /\ bus' \in Seq(Frames) /\ Len(bus') = Len(bus) - 1
         /\ \A i \in 1 .. Len(bus) - 1 : bus'[i] = bus[i + 1]
<1>1. /\ Len(bus) \in Nat \ {0} /\ Len(bus') = Len(bus) - 1 /\ bus' \in Seq(Frames)
      /\ DOMAIN bus = 1 .. Len(bus) /\ DOMAIN bus' = 1 .. Len(bus) - 1
      /\ \A i \in 1 .. Len(bus) - 1 : bus'[i] = bus[i + 1]
  BY HeadTailProperties, LenProperties, EmptySeq
<1>2. 1 \in DOMAIN bus /\ Head(bus) = bus[1]
  BY <1>1
<1> QED
  BY <1>1, <1>2, ElementOfSeq

\* What a delivery does to the memory of the gauge.
LEMMA Delivered ==
  ASSUME TypeInv, Deliver
  PROVE  /\ memory' \in [Gauge -> Memories] /\ unlocked' \in BOOLEAN
         /\ unlocked \/ Unlocks(1) => unlocked'
         /\ \A q \in Field :
              /\ ~Writes(bus[1], q) => FieldOf(memory'[present], q) = FieldOf(memory[present], q)
              /\ \A v : unlocked /\ Sets(bus[1], q, v) => FieldOf(memory'[present], q) = v
<1>0. /\ bus \in Seq(Frames) /\ present \in Gauge /\ unlocked \in BOOLEAN /\ memory \in [Gauge -> Memories]
      /\ bus # <<>> /\ bus' = Tail(bus)
  BY DEF TypeInv, Deliver
<1> DEFINE f == bus[1]
<1>1. f \in Frames /\ Head(bus) = f /\ 1 \in DOMAIN bus
  BY <1>0, FirstFrame
<1> HIDE DEF f
<1>2. CASE f.id = "Reprog" /\ f.serial # present /\ UNCHANGED <<unlocked, memory>>
  <2>1. ~Unlocks(1) /\ \A q, v : ~Sets(f, q, v)
    BY <1>2 DEF Unlocks, Sets, Has, f
  <2> QED
    BY <1>0, <1>2, <2>1 DEF f
<1>3. CASE f.id = "Reprog" /\ f.serial = present /\ f.command = "unlock" /\ unlocked' = TRUE /\ UNCHANGED memory
  <2>1. \A q, v : ~Sets(f, q, v)
    BY <1>3 DEF Sets, Has
  <2> QED
    BY <1>0, <1>3, <2>1 DEF f
<1>4. CASE /\ f.id = "Reprog" => f.serial = present /\ f.command # "unlock"
           /\ UNCHANGED unlocked
           /\ IF unlocked THEN \E mem \in Taken(memory[present], f) : memory' = [memory EXCEPT ![present] = mem]
                          ELSE UNCHANGED memory
  <2>1. ~Unlocks(1)
    BY <1>4 DEF Unlocks, f
  <2>2. CASE unlocked
    <3>1. PICK mem \in Taken(memory[present], f) : memory' = [memory EXCEPT ![present] = mem]
      BY <1>4, <2>2
    <3>2. /\ mem \in Memories
          /\ \A q \in Field :
               /\ ~Writes(f, q) => FieldOf(mem, q) = FieldOf(memory[present], q)
               /\ \A v : Sets(f, q, v) => FieldOf(mem, q) = v
      <4>1. memory[present] \in Memories
        BY <1>0
      <4> QED
        BY <1>1, <1>4, <4>1, Effects
    <3>3. memory' \in [Gauge -> Memories] /\ memory'[present] = mem
      BY <1>0, <3>1, <3>2
    <3> QED
      BY <1>0, <1>4, <2>1, <3>2, <3>3 DEF f
  <2>3. CASE ~unlocked
    BY <1>0, <1>4, <2>1, <2>3
  <2> QED
    BY <2>2, <2>3
<1> QED
  BY <1>1, <1>2, <1>3, <1>4 DEF Deliver

\* A delivery brings a setting nearer, and loses none.
LEMMA ArrivesDelivered ==
  ASSUME TypeInv, Deliver, NEW q \in Field, NEW v, Arrives(q, v)
  PROVE  Arrives(q, v)'
<1>1. /\ Len(bus) \in Nat \ {0} /\ bus[1] \in Frames /\ 1 \in DOMAIN bus
      /\ DOMAIN bus = 1 .. Len(bus) /\ DOMAIN bus' = 1 .. Len(bus) - 1
      /\ \A i \in 1 .. Len(bus) - 1 : bus'[i] = bus[i + 1]
  BY FirstFrame DEF TypeInv, Deliver
<1>2. /\ unlocked \/ Unlocks(1) => unlocked'
      /\ ~Writes(bus[1], q) => FieldOf(memory'[present], q) = FieldOf(memory[present], q)
      /\ unlocked /\ Sets(bus[1], q, v) => FieldOf(memory'[present], q) = v
  BY Delivered
<1>3. present' = present
  BY DEF Deliver
<1>4. CASE FieldOf(memory[present], q) = v /\ \A j \in DOMAIN bus : ~Writes(bus[j], q)
  <2>1. \A j \in DOMAIN bus' : j + 1 \in DOMAIN bus /\ bus'[j] = bus[j + 1]
    BY <1>1
  <2>2. \A j \in DOMAIN bus' : ~Writes(bus'[j], q)
    BY <1>4, <2>1
  <2> QED
    BY <1>1, <1>2, <1>3, <1>4, <2>2 DEF Arrives
<1>5. ASSUME NEW i \in DOMAIN bus,
             Sets(bus[i], q, v), \A j \in DOMAIN bus : j > i => ~Writes(bus[j], q),
             NEW o \in 0 .. i - 1, Unlocks(o)
      PROVE  Arrives(q, v)'
  <2>1. \A j \in DOMAIN bus' : j + 1 \in DOMAIN bus /\ bus'[j] = bus[j + 1]
    BY <1>1
  <2>2. CASE i = 1
    <3>1. unlocked
      <4>1. o = 0 /\ o \notin DOMAIN bus
        BY <1>1, <2>2
      <4> QED
        BY <1>5, <4>1 DEF Unlocks
    <3>2. \A j \in DOMAIN bus' : j + 1 > i
      BY <1>1, <2>2
    <3>3. \A j \in DOMAIN bus' : ~Writes(bus'[j], q)
      BY <1>5, <2>1, <3>2
    <3> QED
      BY <1>2, <1>3, <1>5, <2>2, <3>1, <3>3 DEF Arrives
  <2>3. CASE i # 1
    <3> DEFINE n == i - 1
               p == IF o <= 1 THEN 0 ELSE o - 1
    <3>1. n \in DOMAIN bus' /\ n + 1 = i /\ p \in 0 .. n - 1
      BY <1>1, <2>3
    <3>2. Sets(bus'[n], q, v)
      BY <1>5, <2>1, <3>1
    <3>3. \A j \in DOMAIN bus' : j > n => ~Writes(bus'[j], q)
      <4>1. \A j \in DOMAIN bus' : j > n => j + 1 > i
        BY <1>1
      <4> QED
        BY <1>5, <2>1, <4>1
    <3>4. Unlocks(p)'
      <4>1. CASE o <= 1
        <5>1. o = 0 \/ o = 1
          BY <4>1
        <5>2. unlocked'
          <6>1. CASE o = 0
            <7>1. o \notin DOMAIN bus
              BY <1>1, <6>1
            <7> QED
              BY <1>2, <1>5, <6>1, <7>1 DEF Unlocks
          <6>2. CASE o = 1
            <7>1. Unlocks(1)
              BY <1>5, <6>2
            <7> QED
              BY <1>2, <7>1
          <6> QED
            BY <5>1, <6>1, <6>2
        <5> QED
          BY <4>1, <5>2 DEF Unlocks
      <4>2. CASE ~(o <= 1)
        <5>1. p = o - 1 /\ p \in DOMAIN bus' /\ p + 1 = o /\ o # 0
          BY <1>1, <3>1, <4>2
        <5>2. bus'[p] = bus[o]
          BY <2>1, <5>1
        <5> HIDE DEF p
        <5> QED
          BY <1>3, <1>5, <5>1, <5>2 DEF Unlocks
      <4> QED
        BY <4>1, <4>2
    <3> HIDE DEF n, p
    <3> QED
      BY <3>1, <3>2, <3>3, <3>4 DEF Arrives
  <2> QED
    BY <2>2, <2>3
<1> QED
  BY <1>4, <1>5 DEF Arrives

\* Nothing it depends on changes.
LEMMA ArrivesSame ==
  ASSUME UNCHANGED <<bus, present, memory>>, unlocked' = unlocked \/ bus = <<>>
  PROVE  \A q, v : Arrives(q, v) => Arrives(q, v)'
<1>1. CASE unlocked' = unlocked
  BY <1>1 DEF Arrives, Unlocks
<1>2. CASE bus = <<>>
  BY <1>2 DEF Arrives
<1> QED
  BY <1>1, <1>2

-----------------------------------------------------------------------------
(* Setters. *)

\* What a command sends, and what it leaves alone.
LEMMA Sent ==
  ASSUME TypeInv, NEW s \in Seq(Frames), NEW frames, Send(frames), Len(s) = 1 + Len(frames),
         bus' = bus \o s, 1 \in DOMAIN s, s[1] = UnlockController(m_serialNumber')
  PROVE  /\ m_serialNumber' \in Serials /\ bus' \in Seq(Frames) /\ Len(bus') <= MaxFrames
         /\ UNCHANGED <<reading, canMsgMap, listed, present, unlocked, memory>>
         /\ \A q \in Field : \A v :
              (\A j \in DOMAIN s : ~Writes(s[j], q)) /\ Arrives(q, v) => Arrives(q, v)'
         /\ \A q \in Field : \A v : \A i \in DOMAIN s :
              /\ listed = present /\ 1 < i /\ Sets(s[i], q, v)
              /\ \A j \in DOMAIN s : j > i => ~Writes(s[j], q)
              => Arrives(q, v)'
<1>1. /\ m_serialNumber' = GetPWFControllerInfo /\ Len(bus) + 1 + Len(frames) <= MaxFrames
      /\ UNCHANGED <<reading, canMsgMap, listed, present, unlocked, memory>>
  BY DEF Send, battery
<1>2. bus \in Seq(Frames) /\ Len(bus) \in Nat /\ Len(s) \in Nat
  BY DEF TypeInv
<1>3. m_serialNumber' \in Serials
  BY <1>1 DEF TypeInv, GetPWFControllerInfo, Serials
<1>4. bus' \in Seq(Frames) /\ Len(bus') = Len(bus) + Len(s)
  BY <1>2, ConcatAt
<1>5. Len(bus') <= MaxFrames
  BY <1>1, <1>2, <1>4
<1>6. \A q \in Field : \A v :
        (\A j \in DOMAIN s : ~Writes(s[j], q)) /\ Arrives(q, v) => Arrives(q, v)'
  BY <1>1, <1>2, ArrivesStill
<1>7. ASSUME NEW q \in Field, NEW v, NEW i \in DOMAIN s, listed = present, 1 < i, Sets(s[i], q, v),
             \A j \in DOMAIN s : j > i => ~Writes(s[j], q)
      PROVE  Arrives(q, v)'
  <2>1. s[1] = UnlockController(present)
    <3>1. present # Nobody
      BY GaugeCommandsConstants DEF TypeInv
    <3> QED
      BY <1>1, <1>7, <3>1 DEF GetPWFControllerInfo
  <2> QED
    BY <1>1, <1>2, <1>7, <2>1, ArrivesNew
<1> QED
  BY <1>1, <1>3, <1>4, <1>5, <1>6, <1>7

\* The frame that unlocks the gauge, and those behind it.
LEMMA OneMore ==
  ASSUME NEW S, NEW a \in S, NEW t \in Seq(S)
  PROVE  /\ <<a>> \in Seq(S) /\ <<a>> \o t \in Seq(S) /\ Len(t) \in Nat /\ Len(<<a>> \o t) = 1 + Len(t)
         /\ DOMAIN (<<a>> \o t) = 1 .. 1 + Len(t)
         /\ (<<a>> \o t)[1] = a /\ \A i \in 1 .. Len(t) : (<<a>> \o t)[i + 1] = t[i]
<1>1. <<a>> \in Seq(S) /\ Len(<<a>>) = 1 /\ <<a>>[1] = a /\ Len(t) \in Nat
  OBVIOUS
<1>2. /\ <<a>> \o t \in Seq(S) /\ Len(<<a>> \o t) = Len(<<a>>) + Len(t)
      /\ \A i \in 1 .. Len(<<a>>) : (<<a>> \o t)[i] = <<a>>[i]
      /\ \A i \in 1 .. Len(t) : (<<a>> \o t)[Len(<<a>>) + i] = t[i]
  BY <1>1, ConcatAt
<1>3. 1 \in 1 .. Len(<<a>>) /\ \A i \in 1 .. Len(t) : Len(<<a>>) + i = i + 1
  BY <1>1
<1> DEFINE s == <<a>> \o t
<1> HIDE DEF s
<1>4. s \in Seq(S) /\ Len(s) = 1 + Len(t)
  BY <1>1, <1>2 DEF s
<1>5. DOMAIN s = 1 .. 1 + Len(t)
  BY <1>4, LenProperties
<1>6. s[1] = a /\ \A i \in 1 .. Len(t) : s[i + 1] = t[i]
  BY <1>1, <1>2, <1>3 DEF s
<1> QED
  BY <1>1, <1>4, <1>5, <1>6 DEF s

\* The commands of one frame.
LEMMA SentOne ==
  ASSUME TypeInv, NEW f \in Frames, Send(<<f>>)
  PROVE  /\ m_serialNumber' \in Serials /\ bus' \in Seq(Frames) /\ Len(bus') <= MaxFrames
         /\ UNCHANGED <<reading, canMsgMap, listed, present, unlocked, memory>>
         /\ \A q \in Field : \A v : ~Writes(f, q) /\ Arrives(q, v) => Arrives(q, v)'
         /\ \A q \in Field : \A v : listed = present /\ Sets(f, q, v) => Arrives(q, v)'
<1> DEFINE u == UnlockController(m_serialNumber')
           s == <<u>> \o <<f>>
<1>1. u \in Frames /\ \A q : ~Writes(u, q)
  <2>1. m_serialNumber' \in Serials
    BY DEF Send, TypeInv, GetPWFControllerInfo, Serials
  <2> QED
    BY <2>1 DEF UnlockController, Reprog, Frames, Writes, Has
<1>2. bus \in Seq(Frames) /\ bus' = bus \o <<u>> \o <<f>>
  BY DEF Send, TypeInv
<1> HIDE DEF u
<1>3. s \in Seq(Frames) /\ Len(s) = 2 /\ s[1] = u /\ s[2] = f /\ DOMAIN s = 1 .. 2
  <2>1. <<f>> \in Seq(Frames) /\ Len(<<f>>) = 1 /\ <<f>>[1] = f
    OBVIOUS
  <2>2. /\ s \in Seq(Frames) /\ Len(s) = 1 + Len(<<f>>) /\ s[1] = u /\ DOMAIN s = 1 .. 1 + Len(<<f>>)
        /\ \A i \in 1 .. Len(<<f>>) : s[i + 1] = <<f>>[i]
    BY <1>1, <2>1, OneMore
  <2>3. 1 \in 1 .. Len(<<f>>) /\ 1 + 1 = 2 /\ 1 + Len(<<f>>) = 2
    BY <2>1
  <2> HIDE DEF s
  <2> QED
    BY <2>1, <2>2, <2>3
<1>4. bus' = bus \o s
  <2>1. <<u>> \in Seq(Frames) /\ <<f>> \in Seq(Frames)
    BY <1>1
  <2> QED
    BY <1>2, <2>1, ConcatAssociative
<1>5. Len(s) = 1 + Len(<<f>>)
  BY <1>3
<1> HIDE DEF s
<1>6. /\ m_serialNumber' \in Serials /\ bus' \in Seq(Frames) /\ Len(bus') <= MaxFrames
      /\ UNCHANGED <<reading, canMsgMap, listed, present, unlocked, memory>>
      /\ \A q \in Field : \A v :
           (\A j \in DOMAIN s : ~Writes(s[j], q)) /\ Arrives(q, v) => Arrives(q, v)'
      /\ \A q \in Field : \A v : \A i \in DOMAIN s :
           /\ listed = present /\ 1 < i /\ Sets(s[i], q, v)
           /\ \A j \in DOMAIN s : j > i => ~Writes(s[j], q)
           => Arrives(q, v)'
  <2>1. /\ s \in Seq(Frames) /\ Len(s) = 1 + Len(<<f>>) /\ bus' = bus \o s
        /\ 1 \in DOMAIN s /\ s[1] = UnlockController(m_serialNumber')
    BY <1>3, <1>4, <1>5 DEF u
  <2> QED
    BY <2>1, Sent
<1>7. \A q \in Field : \A v : ~Writes(f, q) /\ Arrives(q, v) => Arrives(q, v)'
  <2>1. \A j \in DOMAIN s : j = 1 \/ j = 2
    BY <1>3
  <2> QED
    BY <1>1, <1>3, <1>6, <2>1
<1>8. \A q \in Field : \A v : listed = present /\ Sets(f, q, v) => Arrives(q, v)'
  <2>0. PICK i \in DOMAIN s : i = 2
    BY <1>3
  <2>1. 1 < i /\ \A j \in DOMAIN s : ~(j > i)
    BY <1>3, <2>0
  <2> SUFFICES ASSUME NEW q \in Field, NEW v, listed = present, Sets(f, q, v) PROVE Arrives(q, v)'
    OBVIOUS
  <2>2. Sets(s[i], q, v) /\ \A j \in DOMAIN s : j > i => ~Writes(s[j], q)
    BY <1>3, <2>0, <2>1
  <2> QED
    BY <1>6, <2>1, <2>2
<1> QED
  BY <1>6, <1>7, <1>8

\* The command of two.
LEMMA SentTwo ==
  ASSUME TypeInv, NEW f \in Frames, NEW g \in Frames, Send(<<f, g>>)
  PROVE  /\ m_serialNumber' \in Serials /\ bus' \in Seq(Frames) /\ Len(bus') <= MaxFrames
         /\ UNCHANGED <<reading, canMsgMap, listed, present, unlocked, memory>>
         /\ \A q \in Field : \A v : ~Writes(f, q) /\ ~Writes(g, q) /\ Arrives(q, v) => Arrives(q, v)'
         /\ \A q \in Field : \A v : listed = present /\ Sets(f, q, v) /\ ~Writes(g, q) => Arrives(q, v)'
         /\ \A q \in Field : \A v : listed = present /\ Sets(g, q, v) => Arrives(q, v)'
<1> DEFINE u == UnlockController(m_serialNumber')
           s == <<u>> \o <<f, g>>
<1>1. u \in Frames /\ \A q : ~Writes(u, q)
  <2>1. m_serialNumber' \in Serials
    BY DEF Send, TypeInv, GetPWFControllerInfo, Serials
  <2> QED
    BY <2>1 DEF UnlockController, Reprog, Frames, Writes, Has
<1>2. bus \in Seq(Frames) /\ bus' = bus \o <<u>> \o <<f, g>>
  BY DEF Send, TypeInv
<1> HIDE DEF u
<1>3. s \in Seq(Frames) /\ Len(s) = 3 /\ s[1] = u /\ s[2] = f /\ s[3] = g /\ DOMAIN s = 1 .. 3
  <2>1. <<f, g>> \in Seq(Frames) /\ Len(<<f, g>>) = 2 /\ <<f, g>>[1] = f /\ <<f, g>>[2] = g
    BY Pair
  <2>2. /\ s \in Seq(Frames) /\ Len(s) = 1 + Len(<<f, g>>) /\ s[1] = u /\ DOMAIN s = 1 .. 1 + Len(<<f, g>>)
        /\ \A i \in 1 .. Len(<<f, g>>) : s[i + 1] = <<f, g>>[i]
    BY <1>1, <2>1, OneMore
  <2>3. /\ 1 \in 1 .. Len(<<f, g>>) /\ 2 \in 1 .. Len(<<f, g>>)
        /\ 1 + 1 = 2 /\ 2 + 1 = 3 /\ 1 + Len(<<f, g>>) = 3
    BY <2>1
  <2> HIDE DEF s
  <2> QED
    BY <2>1, <2>2, <2>3
<1>4. bus' = bus \o s
  <2>1. <<u>> \in Seq(Frames) /\ <<f, g>> \in Seq(Frames)
    BY <1>1
  <2> QED
    BY <1>2, <2>1, ConcatAssociative
<1>5. Len(s) = 1 + Len(<<f, g>>)
  BY <1>3
<1> HIDE DEF s
<1>6. /\ m_serialNumber' \in Serials /\ bus' \in Seq(Frames) /\ Len(bus') <= MaxFrames
      /\ UNCHANGED <<reading, canMsgMap, listed, present, unlocked, memory>>
      /\ \A q \in Field : \A v :
           (\A j \in DOMAIN s : ~Writes(s[j], q)) /\ Arrives(q, v) => Arrives(q, v)'
      /\ \A q \in Field : \A v : \A i \in DOMAIN s :
           /\ listed = present /\ 1 < i /\ Sets(s[i], q, v)
           /\ \A j \in DOMAIN s : j > i => ~Writes(s[j], q)
           => Arrives(q, v)'
  <2>1. /\ s \in Seq(Frames) /\ Len(s) = 1 + Len(<<f, g>>) /\ bus' = bus \o s
        /\ 1 \in DOMAIN s /\ s[1] = UnlockController(m_serialNumber')
    BY <1>3, <1>4, <1>5 DEF u
  <2> QED
    BY <2>1, Sent
<1>7. \A q \in Field : \A v : ~Writes(f, q) /\ ~Writes(g, q) /\ Arrives(q, v) => Arrives(q, v)'
  <2>1. \A j \in DOMAIN s : j = 1 \/ j = 2 \/ j = 3
    BY <1>3
  <2> QED
    BY <1>1, <1>3, <1>6, <2>1
<1>8. \A q \in Field : \A v : listed = present /\ Sets(f, q, v) /\ ~Writes(g, q) => Arrives(q, v)'
  <2>0. PICK i \in DOMAIN s : i = 2
    BY <1>3
  <2>1. 1 < i /\ \A j \in DOMAIN s : j > i => j = 3
    BY <1>3, <2>0
  <2> SUFFICES ASSUME NEW q \in Field, NEW v, listed = present, Sets(f, q, v), ~Writes(g, q)
               PROVE  Arrives(q, v)'
    OBVIOUS
  <2>2. Sets(s[i], q, v) /\ \A j \in DOMAIN s : j > i => ~Writes(s[j], q)
    BY <1>3, <2>0, <2>1
  <2> QED
    BY <1>6, <2>1, <2>2
<1>9. \A q \in Field : \A v : listed = present /\ Sets(g, q, v) => Arrives(q, v)'
  <2>0. PICK i \in DOMAIN s : i = 3
    BY <1>3
  <2>1. 1 < i /\ \A j \in DOMAIN s : ~(j > i)
    BY <1>3, <2>0
  <2> SUFFICES ASSUME NEW q \in Field, NEW v, listed = present, Sets(g, q, v) PROVE Arrives(q, v)'
    OBVIOUS
  <2>2. Sets(s[i], q, v) /\ \A j \in DOMAIN s : j > i => ~Writes(s[j], q)
    BY <1>3, <2>0, <2>1
  <2> QED
    BY <1>6, <2>1, <2>2
<1> QED
  BY <1>6, <1>7, <1>8, <1>9

\* A setting stays one that arrives, if its fields do.
LEMMA TakenStill ==
  ASSUME NEW k \in Kind, NEW x, TakenAs(k, x),
         \A q \in Fields(k) : \A v : Arrives(q, v) => Arrives(q, v)'
  PROVE  TakenAs(k, x)'
<1>1. CASE k = "name"
  <2>1. PICK n \in [1 .. NameLen -> Char] :
          Text(n) = x /\ Arrives("front", NameFront(n)) /\ Arrives("back", NameBack(n))
    BY <1>1 DEF TakenAs
  <2>2. Arrives("front", NameFront(n))' /\ Arrives("back", NameBack(n))'
    BY <1>1, <2>1 DEF Fields
  <2> QED
    BY <1>1, <2>1, <2>2 DEF TakenAs
<1>2. CASE k = "health"
  <2>1. PICK b \in [1 .. 8 -> Byte] : Health_(b) = x /\ Arrives("health", b)
    BY <1>2 DEF TakenAs
  <2>2. Arrives("health", b)'
    BY <1>2, <2>1 DEF Fields
  <2> QED
    BY <1>2, <2>1, <2>2 DEF TakenAs
<1>3. CASE k = "cal"
  <2>1. PICK b \in [1 .. 8 -> Byte] : Cal_(b) = x /\ Arrives("cal", b)
    BY <1>3 DEF TakenAs
  <2>2. Arrives("cal", b)'
    BY <1>3, <2>1 DEF Fields
  <2> QED
    BY <1>3, <2>1, <2>2 DEF TakenAs
<1>4. CASE k = "mfg"
  <2>1. Arrives("mfg", x)
    BY <1>4 DEF TakenAs
  <2>2. Arrives("mfg", x)'
    BY <1>4, <2>1 DEF Fields
  <2> QED
    BY <1>4, <2>2 DEF TakenAs
<1>5. CASE k = "display"
  <2>1. Arrives("inverted", x)
    BY <1>5 DEF TakenAs
  <2>2. Arrives("inverted", x)'
    BY <1>5, <2>1 DEF Fields
  <2> QED
    BY <1>5, <2>2 DEF TakenAs
<1> QED
  BY <1>1, <1>2, <1>3, <1>4, <1>5 DEF Kind

\* A kind whose setting is not asked for again.
LEMMA AllStill ==
  ASSUME TakenInv, NEW k \in Kind, intact[k], asked'[k] = asked[k],
         \A q \in Fields(k) : \A v : Arrives(q, v) => Arrives(q, v)'
  PROVE  TakenAs(k, asked[k])'
<1>1. PICK x : x = asked[k]
  OBVIOUS
<1>2. TakenAs(k, x)
  BY <1>1 DEF TakenInv
<1>3. TakenAs(k, x)'
  BY <1>2, TakenStill
<1>4. asked'[k] = x
  BY <1>1
<1> QED
  BY <1>3, <1>4 DEF TakenAs

\* A setter: the new setting arrives, if it is sent to the gauge that is there, and
\* the others as before.
LEMMA SetterTakes ==
  ASSUME TypeInv, TakenInv, NEW k \in Kind, NEW x, Ask(k, x),
         \A l \in Kind \ {k} : \A q \in Fields(l) : \A v : Arrives(q, v) => Arrives(q, v)',
         listed = present => TakenAs(k, x)'
  PROVE  TakenInv' /\ intact' \in [Kind -> BOOLEAN] /\ DOMAIN asked' = Kind
<1>1. /\ asked' = [asked EXCEPT ![k] = x] /\ intact' = [intact EXCEPT ![k] = (listed = present)]
      /\ intact \in [Kind -> BOOLEAN] /\ DOMAIN asked = Kind
  BY DEF Ask, TypeInv
<1>2. /\ \A l \in Kind \ {k} : asked'[l] = asked[l] /\ intact'[l] = intact[l]
      /\ asked'[k] = x /\ intact'[k] = (listed = present)
      /\ intact' \in [Kind -> BOOLEAN] /\ DOMAIN asked' = Kind
  BY <1>1
<1>3. ASSUME NEW l \in Kind, intact'[l] PROVE TakenAs(l, asked[l])'
  <2>1. CASE l = k
    BY <1>2, <1>3, <2>1 DEF TakenAs
  <2>2. CASE l # k
    BY <1>2, <1>3, <2>2, AllStill
  <2> QED
    BY <2>1, <2>2
<1> QED
  BY <1>2, <1>3 DEF TakenInv

\* A command after which the gauge decides itself what it has of a kind.
LEMMA LeavesToGauge ==
  ASSUME TypeInv, TakenInv, NEW k \in Kind, intact' = [intact EXCEPT ![k] = FALSE], asked' = asked,
         \A l \in Kind \ {k} : \A q \in Fields(l) : \A v : Arrives(q, v) => Arrives(q, v)'
  PROVE  TakenInv' /\ intact' \in [Kind -> BOOLEAN] /\ DOMAIN asked' = Kind
<1>1. intact \in [Kind -> BOOLEAN] /\ DOMAIN asked = Kind
  BY DEF TypeInv
<1>2. (\A l \in Kind \ {k} : intact'[l] = intact[l]) /\ ~intact'[k] /\ intact' \in [Kind -> BOOLEAN]
  BY <1>1
<1>3. ASSUME NEW l \in Kind, intact'[l] PROVE TakenAs(l, asked[l])'
  <2>1. l # k /\ intact[l]
    BY <1>2, <1>3
  <2> QED
    BY <2>1, AllStill
<1> QED
  BY <1>1, <1>2, <1>3 DEF TakenInv

\* The frames of the setters.
LEMMA FrameOf ==
  ASSUME TypeInv, NEW d
  PROVE  /\ \A id : Frame(id, d).id = id /\ Frame(id, d).data = d
         /\ d \in [1 .. FrontLen -> Char] => Frame("SetNickname1", d) \in Frames
         /\ d \in SmallData => Frame("SetNickname2", d) \in Frames
         /\ d \in [1 .. 8 -> Byte] => Frame("SetHealth", d) \in Frames /\ Frame("SetCalibration", d) \in Frames
<1>1. GetPWFControllerInfo \in Serials
  BY DEF TypeInv, GetPWFControllerInfo, Serials
<1> QED
  BY <1>1 DEF Frame, Frames

\* The fields of different kinds are different ones.
LEMMA OwnFields ==
  \A k \in Kind, l \in Kind : k # l => \A q \in Fields(l) : q \in Field /\ q \notin Fields(k)
BY DEF Kind, Fields, Field

\* One frame that writes no field but those of its kind.
LEMMA OneTakes ==
  ASSUME TypeInv, TakenInv, NEW k \in Kind, NEW f \in Frames, Send(<<f>>), UNCHANGED shown,
         \A q \in Field : Writes(f, q) => q \in Fields(k),
         \/ intact' = [intact EXCEPT ![k] = FALSE] /\ asked' = asked
         \/ \E x : Ask(k, x) /\ (listed = present => TakenAs(k, x)')
  PROVE  TypeInv' /\ TakenInv'
<1>1. /\ m_serialNumber' \in Serials /\ bus' \in Seq(Frames) /\ Len(bus') <= MaxFrames
      /\ UNCHANGED <<reading, canMsgMap, listed, present, unlocked, memory>>
      /\ \A q \in Field : \A v : ~Writes(f, q) /\ Arrives(q, v) => Arrives(q, v)'
  BY SentOne
<1>2. \A l \in Kind \ {k} : \A q \in Fields(l) : \A v : Arrives(q, v) => Arrives(q, v)'
  BY <1>1, OwnFields
<1>3. TakenInv' /\ intact' \in [Kind -> BOOLEAN] /\ DOMAIN asked' = Kind
  BY <1>2, SetterTakes, LeavesToGauge
<1> QED
  BY <1>1, <1>3 DEF TypeInv, ShownInv

\* A frame with one small setting writes that one, and takes nothing else along.
LEMMA SmallSetting ==
  ASSUME TypeInv, NEW n \in 0 .. 2, NEW x \in 0 .. Radix - 2, n = 2 => x \in {0, 1}
  PROVE  LET f == Frame("SetNickname2", Kept(BackLen + n) \o <<x>>) IN
         /\ f \in Frames
         /\ \A q \in Field : Writes(f, q) =>
              (n = 0 /\ q = "mfg") \/ (n = 1 /\ q = "health") \/ (n = 2 /\ q = "inverted")
         /\ n = 0 => Sets(f, "mfg", x)
         /\ n = 2 => Sets(f, "inverted", x)
<1> DEFINE d == Kept(BackLen + n) \o <<x>>
           f == Frame("SetNickname2", d)
<1>1. /\ d \in SmallData /\ d[1] = Keep
      /\ \A m \in 1 .. 3 : BackLen + m \in DOMAIN d /\ d[BackLen + m] # Keep <=> m = n + 1
      /\ d[BackLen + n + 1] = x
  BY SmallFrame
<1> HIDE DEF d
<1>2. f \in Frames /\ f.id = "SetNickname2" /\ f.data = d
  BY <1>1, FrameOf
<1> HIDE DEF f
<1>3. \A m \in 1 .. 3 : Has(f, m) <=> m = n + 1
  BY <1>1, <1>2 DEF Has
<1>4. (Has(f, 1) <=> n = 0) /\ (Has(f, 2) <=> n = 1) /\ (Has(f, 3) <=> n = 2)
  <2>1. 1 \in 1 .. 3 /\ 2 \in 1 .. 3 /\ 3 \in 1 .. 3
    OBVIOUS
  <2>2. (1 = n + 1 <=> n = 0) /\ (2 = n + 1 <=> n = 1) /\ (3 = n + 1 <=> n = 2)
    OBVIOUS
  <2> QED
    BY ONLY <1>3, <2>1, <2>2
<1>5. \A q \in Field : Writes(f, q) =>
        (n = 0 /\ q = "mfg") \/ (n = 1 /\ q = "health") \/ (n = 2 /\ q = "inverted")
  BY <1>1, <1>2, <1>4 DEF Writes, Field
<1>6. n = 0 => Sets(f, "mfg", x)
  <2>1. n = 0 => BackLen + n + 1 = BackLen + 1
    BY GaugeCommandsConstants
  <2> QED
    BY <1>1, <1>2, <1>4, <2>1 DEF Sets
<1>7. n = 2 => Sets(f, "inverted", x)
  <2>1. n = 2 => BackLen + n + 1 = BackLen + 3
    BY GaugeCommandsConstants
  <2> QED
    BY <1>1, <1>2, <1>4, <2>1 DEF Sets
<1> QED
  BY <1>2, <1>5, <1>6, <1>7 DEF f, d

\* The manufacturer,
LEMMA ManufacturerTakes ==
  ASSUME TypeInv, TakenInv, NEW m \in Mfg, SetManufacturer(m)
  PROVE  TypeInv' /\ TakenInv'
<1> DEFINE f == Frame("SetNickname2", Kept(BackLen) \o <<m>>)
<1>1. Send(<<f>>) /\ UNCHANGED shown /\ Ask("mfg", m)
  BY DEF SetManufacturer
<1>2. f \in Frames /\ (\A q \in Field : Writes(f, q) => q = "mfg") /\ Sets(f, "mfg", m)
  <2>1. PICK n \in 0 .. 2 : n = 0
    OBVIOUS
  <2>2. m \in 0 .. Radix - 2 /\ n # 2 /\ n # 1 /\ BackLen + n = BackLen
    BY <2>1, GaugeCommandsConstants
  <2> QED
    BY <2>1, <2>2, SmallSetting
<1> HIDE DEF f
<1>3. listed = present => TakenAs("mfg", m)'
  <2>1. listed = present => Arrives("mfg", m)'
    BY <1>1, <1>2, SentOne DEF Field
  <2> QED
    BY <2>1 DEF TakenAs
<1>4. "mfg" \in Kind /\ Fields("mfg") = {"mfg"}
  BY DEF Kind, Fields
<1> QED
  BY <1>1, <1>2, <1>3, <1>4, OneTakes

\* the display,
LEMMA DisplayTakes ==
  ASSUME TypeInv, TakenInv, NEW i \in Inverted, SetDisplay(i)
  PROVE  TypeInv' /\ TakenInv'
<1> DEFINE x == IF i # 0 THEN 1 ELSE 0
           f == Frame("SetNickname2", Kept(BackLen + 2) \o <<x>>)
<1>1. Send(<<f>>) /\ UNCHANGED shown /\ Ask("display", x)
  BY DEF SetDisplay
<1>2. x \in 0 .. Radix - 2 /\ x \in {0, 1}
  BY GaugeCommandsConstants
<1> HIDE DEF x
<1>3. f \in Frames /\ (\A q \in Field : Writes(f, q) => q = "inverted") /\ Sets(f, "inverted", x)
  <2>1. PICK n \in 0 .. 2 : n = 2
    OBVIOUS
  <2>2. n # 0 /\ n # 1 /\ BackLen + n = BackLen + 2
    BY <2>1
  <2> QED
    BY <1>2, <2>1, <2>2, SmallSetting
<1> HIDE DEF f
<1>4. listed = present => TakenAs("display", x)'
  <2>1. listed = present => Arrives("inverted", x)'
    BY <1>1, <1>3, SentOne DEF Field
  <2> QED
    BY <2>1 DEF TakenAs
<1>5. "display" \in Kind /\ Fields("display") = {"inverted"}
  BY DEF Kind, Fields
<1> QED
  BY <1>1, <1>3, <1>4, <1>5, OneTakes

\* the reset, which leaves the health to the gauge,
LEMMA ResetTakes ==
  ASSUME TypeInv, TakenInv, ResetAllBatteryStats
  PROVE  TypeInv' /\ TakenInv'
<1> DEFINE f == Frame("SetNickname2", Kept(BackLen + 1) \o <<Magic>>)
<1>1. Send(<<f>>) /\ UNCHANGED shown /\ intact' = [intact EXCEPT !["health"] = FALSE] /\ asked' = asked
  BY DEF ResetAllBatteryStats
<1>2. f \in Frames /\ \A q \in Field : Writes(f, q) => q = "health"
  <2>1. PICK n \in 0 .. 2 : n = 1
    OBVIOUS
  <2>2. Magic \in 0 .. Radix - 2 /\ n # 0 /\ n # 2 /\ BackLen + n = BackLen + 1
    BY <2>1, GaugeCommandsConstants
  <2> QED
    BY <2>1, <2>2, SmallSetting
<1> HIDE DEF f
<1>3. "health" \in Kind /\ Fields("health") = {"health"}
  BY DEF Kind, Fields
<1> QED
  BY <1>1, <1>2, <1>3, OneTakes

\* the calibration, which leaves it the values,
LEMMA CalibrationTakes ==
  ASSUME TypeInv, TakenInv, InitiateCurrentCalibration
  PROVE  TypeInv' /\ TakenInv'
<1> DEFINE f == Reprog("calibrate", GetPWFControllerInfo)
<1>1. Send(<<f>>) /\ UNCHANGED shown /\ intact' = [intact EXCEPT !["cal"] = FALSE] /\ asked' = asked
  BY DEF InitiateCurrentCalibration
<1>2. f \in Frames /\ \A q \in Field : Writes(f, q) => q = "cal"
  <2>1. GetPWFControllerInfo \in Serials
    BY DEF TypeInv, GetPWFControllerInfo, Serials
  <2> QED
    BY <2>1 DEF Reprog, Frames, Writes, Has
<1> HIDE DEF f
<1>3. "cal" \in Kind /\ Fields("cal") = {"cal"}
  BY DEF Kind, Fields
<1> QED
  BY <1>1, <1>2, <1>3, OneTakes

\* age, capacity and cycles,
LEMMA AgeTakes ==
  ASSUME TypeInv, TakenInv, NEW h \in Health, SetBatteryAge(h)
  PROVE  TypeInv' /\ TakenInv'
<1> DEFINE b == LowDWord(h.age) \o LowWord(h.cap) \o LowWord(h.cycles)
           x == [age |-> h.age, cap |-> h.cap % (Radix * Radix), cycles |-> h.cycles % (Radix * Radix)]
           f == Frame("SetHealth", b)
<1>1. Send(<<f>>) /\ UNCHANGED shown /\ Ask("health", x)
  BY DEF SetBatteryAge
<1>2. b \in [1 .. 8 -> Byte] /\ Health_(b) = x
  BY HealthBytes
<1> HIDE DEF b, x
<1>3. f \in Frames /\ f.id = "SetHealth" /\ f.data = b
  BY <1>2, FrameOf
<1> HIDE DEF f
<1>4. (\A q \in Field : Writes(f, q) => q = "health") /\ Sets(f, "health", b)
  BY <1>3 DEF Writes, Sets, Has
<1>5. listed = present => TakenAs("health", x)'
  <2>1. listed = present => Arrives("health", b)'
    BY <1>1, <1>3, <1>4, SentOne DEF Field
  <2> QED
    BY <1>2, <2>1 DEF TakenAs
<1>6. "health" \in Kind /\ Fields("health") = {"health"}
  BY DEF Kind, Fields
<1> QED
  BY <1>1, <1>3, <1>4, <1>5, <1>6, OneTakes

\* and the calibration values.
LEMMA ValuesTake ==
  ASSUME TypeInv, TakenInv, NEW c \in Cal, SetCalibrationVals(c)
  PROVE  TypeInv' /\ TakenInv'
<1> DEFINE b == LowDWord(c.offset) \o LowDWord(c.gain)
           f == Frame("SetCalibration", b)
<1>1. Send(<<f>>) /\ UNCHANGED shown /\ Ask("cal", c)
  BY DEF SetCalibrationVals
<1>2. b \in [1 .. 8 -> Byte] /\ Cal_(b) = c
  BY CalBytes
<1> HIDE DEF b
<1>3. f \in Frames /\ f.id = "SetCalibration" /\ f.data = b
  BY <1>2, FrameOf
<1> HIDE DEF f
<1>4. (\A q \in Field : Writes(f, q) => q = "cal") /\ Sets(f, "cal", b)
  BY <1>3 DEF Writes, Sets, Has
<1>5. listed = present => TakenAs("cal", c)'
  <2>1. listed = present => Arrives("cal", b)'
    BY <1>1, <1>3, <1>4, SentOne DEF Field
  <2> QED
    BY <1>2, <2>1 DEF TakenAs
<1>6. "cal" \in Kind /\ Fields("cal") = {"cal"}
  BY DEF Kind, Fields
<1> QED
  BY <1>1, <1>3, <1>4, <1>5, <1>6, OneTakes

\* The name: its front and its back are sent in frames of their own.
LEMMA NicknameTakes ==
  ASSUME TypeInv, TakenInv, NEW name \in Name, SetNickname(name)
  PROVE  TypeInv' /\ TakenInv'
<1> DEFINE sz == CopyName(name)
           f == Frame("SetNickname1", NameFront(sz))
           g == Frame("SetNickname2", NameBack(sz))
           x == IF Len(name) > NameLen THEN SubSeq(name, 1, NameLen) ELSE name
<1>1. Send(<<f, g>>) /\ shown' = [shown EXCEPT !.name = sz] /\ Ask("name", x)
  BY DEF SetNickname
<1>2. /\ sz \in [1 .. NameLen + 1 -> Char]
      /\ SubSeq(sz, 1, NameLen) \in [1 .. NameLen -> Char]
      /\ NameFront(SubSeq(sz, 1, NameLen)) = NameFront(sz)
      /\ NameBack(SubSeq(sz, 1, NameLen)) = NameBack(sz)
      /\ Text(SubSeq(sz, 1, NameLen)) = x
  BY NameSent DEF TypeInv
<1> HIDE DEF sz, x
<1>3. PICK n \in [1 .. NameLen -> Char] :
        NameFront(n) = NameFront(sz) /\ NameBack(n) = NameBack(sz) /\ Text(n) = x
  BY <1>2
<1>4. NameFront(n) \in [1 .. FrontLen -> Char] /\ NameBack(n) \in [1 .. BackLen -> Char]
  BY Parts
<1>5. NameBack(n) \in SmallData /\ NameBack(n)[1] # Keep
  <2>1. BackLen \in Nat \ {0} /\ 1 \in 1 .. BackLen /\ Char \subseteq Byte /\ \A c \in Char : c # Keep
    BY GaugeCommandsConstants DEF Char, Byte, Keep
  <2>2. NameBack(n) \in Seq(Char) /\ Len(NameBack(n)) = BackLen
    BY <1>4, <2>1, AsFunction
  <2>3. NameBack(n) \in Seq(Byte)
    BY <2>1, <2>2
  <2>4. \A i \in 1 .. BackLen : NameBack(n)[i] # Keep
    BY <1>4, <2>1
  <2> HIDE DEF Char
  <2>5. BackLen >= BackLen /\ ~(BackLen >= BackLen + 3)
    BY <2>1
  <2> QED
    BY <2>1, <2>2, <2>3, <2>4, <2>5 DEF SmallData
<1>6. f \in Frames /\ f.id = "SetNickname1" /\ f.data = NameFront(n)
  BY <1>3, <1>4, FrameOf
<1>7. g \in Frames /\ g.id = "SetNickname2" /\ g.data = NameBack(n)
  BY <1>3, <1>5, FrameOf
<1> HIDE DEF f, g
<1>8. /\ \A q \in Field : Writes(f, q) => q = "front"
      /\ \A q \in Field : Writes(g, q) => q = "back"
      /\ Sets(f, "front", NameFront(n)) /\ Sets(g, "back", NameBack(n))
  <2>1. DOMAIN g.data = 1 .. BackLen /\ BackLen \in Nat
    BY <1>4, <1>7, GaugeCommandsConstants
  <2>2. BackLen + 1 \notin DOMAIN g.data /\ BackLen + 2 \notin DOMAIN g.data /\ BackLen + 3 \notin DOMAIN g.data
    BY <2>1
  <2> QED
    BY <1>5, <1>6, <1>7, <2>2 DEF Writes, Sets, Has
<1>9. /\ m_serialNumber' \in Serials /\ bus' \in Seq(Frames) /\ Len(bus') <= MaxFrames
      /\ UNCHANGED <<reading, canMsgMap, listed, present, unlocked, memory>>
      /\ \A q \in Field : \A v : ~Writes(f, q) /\ ~Writes(g, q) /\ Arrives(q, v) => Arrives(q, v)'
      /\ \A q \in Field : \A v : listed = present /\ Sets(f, q, v) /\ ~Writes(g, q) => Arrives(q, v)'
      /\ \A q \in Field : \A v : listed = present /\ Sets(g, q, v) => Arrives(q, v)'
  BY <1>1, <1>6, <1>7, SentTwo
<1>10. listed = present => TakenAs("name", x)'
  <2>1. "front" \in Field /\ "back" \in Field /\ ~Writes(g, "front")
    BY <1>8 DEF Field
  <2>2. listed = present => Arrives("front", NameFront(n))' /\ Arrives("back", NameBack(n))'
    BY <1>8, <1>9, <2>1
  <2> QED
    BY <1>3, <2>2 DEF TakenAs
<1>11. "name" \in Kind /\ Fields("name") = {"front", "back"}
  BY DEF Kind, Fields
<1>12. \A l \in Kind \ {"name"} : \A q \in Fields(l) : \A v : Arrives(q, v) => Arrives(q, v)'
  BY <1>8, <1>9, <1>11, OwnFields
<1>13. TakenInv' /\ intact' \in [Kind -> BOOLEAN] /\ DOMAIN asked' = Kind
  BY <1>1, <1>10, <1>11, <1>12, SetterTakes
<1>14. ShownInv'
  <2>0. PICK o \in [1 .. NameLen + 1 -> Char], m \in Byte :
          \E h, c : shown = [name |-> o, mfg |-> m, health |-> h, cal |-> c]
    BY DEF TypeInv, ShownInv
  <2>1. PICK h, c : shown = [name |-> o, mfg |-> m, health |-> h, cal |-> c]
    BY <2>0
  <2>2. shown' = [name |-> sz, mfg |-> m, health |-> h, cal |-> c]
    BY <1>1, <2>1
  <2> QED
    BY <1>2, <2>2 DEF ShownInv
<1> QED
  BY <1>9, <1>13, <1>14 DEF TypeInv

-----------------------------------------------------------------------------
(* The other steps. *)

\* Every setter is one of these.
LEMMA SetterKeeps ==
  ASSUME TypeInv, TakenInv, Setter
  PROVE  TypeInv' /\ TakenInv'
BY NicknameTakes, ManufacturerTakes, AgeTakes, ValuesTake, DisplayTakes, ResetTakes, CalibrationTakes DEF Setter

\* What is shown of the name: one half as it was, the other as it came.
LEMMA ReadKeeps ==
  ASSUME TypeInv, RxSlowMsgs
  PROVE  ShownInv'
<1>1. FrontLen \in Nat \ {0} /\ BackLen \in Nat \ {0} /\ NameLen = FrontLen + BackLen /\ NameLen \in Nat /\ 0 \in Char
  BY GaugeCommandsConstants DEF NameLen, Char
<1>2. PICK n \in [1 .. NameLen + 1 -> Char], m \in Byte :
        \E h, c : shown = [name |-> n, mfg |-> m, health |-> h, cal |-> c]
  BY DEF TypeInv, ShownInv
<1>3. PICK h, c : shown = [name |-> n, mfg |-> m, health |-> h, cal |-> c]
  BY <1>2
<1>4. shown.name = n /\ n \in Seq(Char) /\ Len(n) = NameLen + 1
  <2>1. NameLen + 1 \in Nat
    BY <1>1
  <2> QED
    BY <1>3, <2>1, AsFunction
<1>5. CASE shown' = shown
  BY <1>5 DEF TypeInv, ShownInv
<1>6. CASE canMsgMap["second"] # Nothing /\ shown' = ReadNickname2(canMsgMap["second"])
  <2>1. PICK b \in [1 .. BackLen -> Char] : b = canMsgMap["second"]
    BY <1>6 DEF TypeInv
  <2>2. NameFront(n) \in Seq(Char) /\ Len(NameFront(n)) = FrontLen
    <3>1. \A i \in 1 .. FrontLen : n[i] \in Char
      BY <1>1
    <3> QED
      BY <1>1, <3>1, SubSeqProperties DEF NameFront
  <2>3. b \in Seq(Char) /\ Len(b) = BackLen /\ <<0>> \in Seq(Char) /\ Len(<<0>>) = 1
    BY <1>1, AsFunction
  <2> DEFINE x == NameFront(n) \o b \o <<0>>
  <2>4. x \in Seq(Char) /\ Len(x) = NameLen + 1
    <3>1. NameFront(n) \o b \in Seq(Char) /\ Len(NameFront(n) \o b) = NameLen
      BY <1>1, <2>2, <2>3, ConcatAt
    <3> QED
      BY <2>3, <3>1, ConcatAt
  <2>5. x \in [1 .. NameLen + 1 -> Char]
    <3>1. NameLen + 1 \in Nat
      BY <1>1
    <3> QED
      BY <2>4, <3>1, AsFunction
  <2>6. shown' = [name |-> x, mfg |-> m, health |-> h, cal |-> c]
    BY <1>3, <1>6, <2>1 DEF ReadNickname2
  <2> HIDE DEF x
  <2> QED
    BY <2>5, <2>6 DEF ShownInv
<1>7. CASE canMsgMap["first"] # Nothing /\ shown' = ReadSlow(canMsgMap["first"])
  <2>1. PICK f \in Firsts : f = canMsgMap["first"]
    BY <1>7 DEF TypeInv
  <2>2. f.front \in [1 .. FrontLen -> Char] /\ f.mfg \in Byte
    BY DEF Firsts
  <2>3. f.front \in Seq(Char) /\ Len(f.front) = FrontLen
    BY <1>1, <2>2, AsFunction
  <2> DEFINE t == SubSeq(n, FrontLen + 1, NameLen + 1)
             x == f.front \o t
  <2>4. t \in Seq(Char) /\ Len(t) = BackLen + 1
    <3>1. \A i \in FrontLen + 1 .. NameLen + 1 : n[i] \in Char
      BY <1>1
    <3> QED
      BY <1>1, <3>1, SubSeqProperties
  <2> HIDE DEF t
  <2>5. x \in Seq(Char) /\ Len(x) = NameLen + 1
    <3>1. Len(f.front) + Len(t) = NameLen + 1
      BY <1>1, <2>3, <2>4
    <3> QED
      BY <2>3, <2>4, <3>1, ConcatAt
  <2>6. x \in [1 .. NameLen + 1 -> Char]
    <3>1. NameLen + 1 \in Nat
      BY <1>1
    <3> QED
      BY <2>5, <3>1, AsFunction
  <2>7. shown' = [name |-> x, mfg |-> f.mfg, health |-> Health_(f.health), cal |-> Cal_(f.cal)]
    BY <1>4, <1>7, <2>1 DEF ReadSlow, t
  <2> HIDE DEF x
  <2> QED
    BY <2>2, <2>6, <2>7 DEF ShownInv
<1>8. \/ shown' = shown
      \/ canMsgMap["second"] # Nothing /\ shown' = ReadNickname2(canMsgMap["second"])
      \/ canMsgMap["first"] # Nothing /\ shown' = ReadSlow(canMsgMap["first"])
  BY DEF RxSlowMsgs
<1> QED
  BY <1>5, <1>6, <1>7, <1>8

\* Nothing under way, and nothing changed in the gauge: what arrived stays.
LEMMA SameTaken ==
  ASSUME TypeInv, TakenInv, UNCHANGED <<bus, present, memory, asked, intact>>,
         unlocked' = unlocked \/ bus = <<>>
  PROVE  TakenInv'
<1>1. \A k \in Kind : \A q \in Fields(k) : \A v : Arrives(q, v) => Arrives(q, v)'
  BY ArrivesSame
<1>2. ASSUME NEW k \in Kind, intact'[k] PROVE TakenAs(k, asked[k])'
  BY <1>1, <1>2, AllStill
<1> QED
  BY <1>2 DEF TakenInv

\* A delivery.
LEMMA DeliverKeeps ==
  ASSUME TypeInv, TakenInv, Deliver
  PROVE  TypeInv' /\ TakenInv'
<1>1. UNCHANGED <<m_serialNumber, shown, reading, canMsgMap, present, listed, asked, intact>>
  BY DEF Deliver, object, history
<1>2. memory' \in [Gauge -> Memories] /\ unlocked' \in BOOLEAN
  BY Delivered
<1>3. bus' \in Seq(Frames) /\ Len(bus') <= MaxFrames
  <2>1. bus \in Seq(Frames) /\ Len(bus) <= MaxFrames /\ bus # <<>> /\ bus' = Tail(bus)
    BY DEF TypeInv, Deliver
  <2>2. bus' \in Seq(Frames) /\ Len(bus) \in Nat \ {0} /\ Len(bus') = Len(bus) - 1
    BY <2>1, FirstFrame
  <2>3. Len(bus') <= MaxFrames
    BY <2>1, <2>2, GaugeCommandsConstants
  <2> QED
    BY <2>2, <2>3
<1>4. \A k \in Kind : \A q \in Fields(k) : \A v : Arrives(q, v) => Arrives(q, v)'
  <2>1. \A k \in Kind : Fields(k) \subseteq Field
    BY DEF Kind, Fields, Field
  <2> QED
    BY <2>1, ArrivesDelivered
<1>5. ASSUME NEW k \in Kind, intact'[k] PROVE TakenAs(k, asked[k])'
  BY <1>1, <1>4, <1>5, AllStill
<1> QED
  BY <1>1, <1>2, <1>3, <1>5 DEF TypeInv, ShownInv, TakenInv

\* A broadcast carries what the gauge has.
LEMMA BroadcastKeeps ==
  ASSUME TypeInv, TakenInv, NEW part \in Part, Broadcast(part)
  PROVE  TypeInv' /\ TakenInv'
<1>1. UNCHANGED <<m_serialNumber, shown, reading, bus, present, unlocked, memory, listed, asked, intact>>
  BY DEF Broadcast, object, battery, history
<1>2. PICK mem \in Memories : mem = memory[present]
  BY DEF TypeInv
<1>3. NameFront(mem.name) \in [1 .. FrontLen -> Char] /\ NameBack(mem.name) \in [1 .. BackLen -> Char]
  BY Parts DEF Memories
<1>4. Content("first", mem) \in Firsts /\ Content("second", mem) \in [1 .. BackLen -> Char]
  BY <1>3 DEF Content, Firsts, Memories
<1>5. /\ DOMAIN canMsgMap' = Part
      /\ canMsgMap'["first"] \in {Nothing} \cup Firsts
      /\ canMsgMap'["second"] \in {Nothing} \cup [1 .. BackLen -> Char]
  <2>1. canMsgMap' = [canMsgMap EXCEPT ![part] = Content(part, mem)]
    BY <1>2 DEF Broadcast
  <2> QED
    BY <1>4, <2>1 DEF TypeInv, Part
<1> QED
  BY <1>1, <1>5, SameTaken DEF TypeInv, ShownInv

\* At the start nothing has been asked for that is still intact.
LEMMA InitHolds ==
  ASSUME Init
  PROVE  TypeInv /\ TakenInv
<1>1. FrontLen \in Nat /\ BackLen \in Nat /\ NameLen \in Nat /\ 0 \in Char /\ 0 \in Byte /\ Mfg \subseteq Byte
  BY GaugeCommandsConstants DEF NameLen, Char, Byte
<1>2. ShownInv
  <2>1. PICK c \in Cal, m \in Mfg :
          shown = [name |-> Zeros(NameLen + 1), mfg |-> m, health |-> Health_(Zeros(8)), cal |-> c]
    BY DEF Init
  <2>2. Zeros(NameLen + 1) \in [1 .. NameLen + 1 -> Char]
    BY <1>1 DEF Zeros
  <2> QED
    BY <1>1, <2>1, <2>2 DEF ShownInv
<1>3. NewMemory \in Memories
  BY <1>1 DEF NewMemory, Memories, Zeros
<1>4. bus = <<>> /\ bus \in Seq(Frames) /\ Len(bus) <= MaxFrames
  <2>1. 0 <= MaxFrames
    BY GaugeCommandsConstants
  <2> QED
    BY <2>1 DEF Init
<1>5. present \in Gauge
  BY GaugeCommandsConstants DEF Init
<1>6. /\ canMsgMap["first"] = Nothing /\ canMsgMap["second"] = Nothing /\ DOMAIN canMsgMap = Part
      /\ m_serialNumber \in Serials /\ listed \in Serials /\ reading \in BOOLEAN
      /\ unlocked \in BOOLEAN /\ memory \in [Gauge -> Memories]
      /\ intact = [k \in Kind |-> FALSE] /\ DOMAIN asked = Kind
  BY <1>3 DEF Init, Part, Serials
<1> QED
  BY <1>2, <1>4, <1>5, <1>6 DEF TypeInv, TakenInv

\* Every step keeps the invariant.
LEMMA AllSteps ==
  ASSUME TypeInv, TakenInv, [Next]_vars
  PROVE  TypeInv' /\ TakenInv'
<1>1. CASE Setter
  BY <1>1, SetterKeeps
<1>2. CASE RxSlowMsgs
  <2>1. /\ UNCHANGED <<m_serialNumber, bus, canMsgMap, present, unlocked, memory, listed, asked, intact>>
        /\ reading' \in BOOLEAN
    BY <1>2 DEF RxSlowMsgs, battery, history
  <2> QED
    BY <1>2, <2>1, ReadKeeps, SameTaken DEF TypeInv
<1>3. CASE Deliver
  BY <1>3, DeliverKeeps
<1>4. ASSUME bus' \in Seq(Frames), Len(bus') <= MaxFrames, present' \in Gauge, unlocked' \in BOOLEAN,
             UNCHANGED <<m_serialNumber, shown, reading, canMsgMap, memory, listed, asked>>,
             intact' = [k \in Kind |-> FALSE]
      PROVE  TypeInv' /\ TakenInv'
  BY <1>4 DEF TypeInv, ShownInv, TakenInv
<1>5. CASE Lose
  <2>1. bus \in Seq(Frames) /\ bus # <<>> /\ bus' = Tail(bus) /\ Len(bus) <= MaxFrames
    BY <1>5 DEF Lose, TypeInv
  <2>2. bus' \in Seq(Frames) /\ Len(bus) \in Nat \ {0} /\ Len(bus') = Len(bus) - 1
    BY <2>1, FirstFrame
  <2>3. Len(bus') <= MaxFrames
    BY <2>1, <2>2, GaugeCommandsConstants
  <2> QED
    BY <1>4, <1>5, <2>2, <2>3 DEF Lose, TypeInv, object, battery
<1>6. CASE Relock
  <2>1. UNCHANGED <<m_serialNumber, shown, reading, bus, canMsgMap, present, memory, listed, asked, intact>>
        /\ unlocked' \in BOOLEAN /\ bus = <<>>
    BY <1>6 DEF Relock, object, history
  <2> QED
    BY <2>1, SameTaken DEF TypeInv, ShownInv
<1>7. CASE \E g \in Gauge : Swap(g)
  <2>1. <<>> \in Seq(Frames) /\ Len(<<>>) <= MaxFrames
    BY GaugeCommandsConstants
  <2> QED
    BY <1>4, <1>7, <2>1 DEF Swap, object
<1>8. CASE \E g \in Gauge \cup {Nobody} : Identified(g)
  <2>1. /\ UNCHANGED <<m_serialNumber, shown, reading, bus, canMsgMap, present, unlocked, memory, asked, intact>>
        /\ listed' \in Serials
    BY <1>8 DEF Identified, object, battery, history, Serials
  <2> QED
    BY <2>1, SameTaken DEF TypeInv, ShownInv
<1>9. CASE \E part \in Part : Broadcast(part)
  BY <1>9, BroadcastKeeps
<1>10. CASE UNCHANGED vars
  <2>1. UNCHANGED <<m_serialNumber, shown, reading, bus, canMsgMap, present, unlocked, memory, listed, asked, intact>>
    BY <1>10 DEF vars, object, battery, history
  <2> QED
    BY <2>1, SameTaken DEF TypeInv, ShownInv
<1> QED
  BY <1>1, <1>2, <1>3, <1>5, <1>6, <1>7, <1>8, <1>9, <1>10 DEF Next

\* A name is its two halves.
LEMMA Apart ==
  ASSUME NEW S, NEW n \in [1 .. NameLen -> S]
  PROVE  n = NameFront(n) \o NameBack(n)
<1>1. FrontLen \in Nat /\ BackLen \in Nat /\ NameLen = FrontLen + BackLen /\ NameLen \in Nat
  BY GaugeCommandsConstants DEF NameLen
<1>2. n \in Seq(S) /\ Len(n) = NameLen
  BY <1>1
<1> DEFINE a == NameFront(n)
           b == NameBack(n)
<1>3. a \in Seq(S) /\ Len(a) = FrontLen /\ \A i \in 1 .. FrontLen : a[i] = n[i]
  <2>1. \A i \in 1 .. FrontLen : n[i] \in S
    BY <1>1
  <2> QED
    BY <1>1, <2>1, SubSeqProperties DEF NameFront
<1>4. b \in Seq(S) /\ Len(b) = BackLen /\ \A i \in 1 .. BackLen : b[i] = n[FrontLen + i]
  <2>1. \A i \in FrontLen + 1 .. NameLen : n[i] \in S
    BY <1>1
  <2>2. /\ b \in Seq(S) /\ Len(b) = BackLen
        /\ \A i \in 1 .. NameLen - (FrontLen + 1) + 1 : b[i] = n[FrontLen + 1 + i - 1]
    BY <1>1, <2>1, SubSeqProperties DEF NameBack
  <2> HIDE DEF b
  <2> QED
    BY <1>1, <2>2
<1> HIDE DEF a, b
<1>5. /\ a \o b \in Seq(S) /\ Len(a \o b) = NameLen
      /\ \A i \in 1 .. Len(a) + Len(b) : (a \o b)[i] = IF i <= Len(a) THEN a[i] ELSE b[i - Len(a)]
  BY <1>1, <1>3, <1>4, ConcatProperties
<1>6. \A i \in 1 .. NameLen : (a \o b)[i] = n[i]
  <2> SUFFICES ASSUME NEW i \in 1 .. NameLen PROVE (a \o b)[i] = n[i]
    OBVIOUS
  <2>1. (a \o b)[i] = IF i <= FrontLen THEN a[i] ELSE b[i - FrontLen]
    BY <1>1, <1>3, <1>4, <1>5
  <2>2. CASE i <= FrontLen
    BY <1>1, <1>3, <2>1, <2>2
  <2>3. CASE ~(i <= FrontLen)
    <3>1. i - FrontLen \in 1 .. BackLen /\ FrontLen + (i - FrontLen) = i
      BY <1>1, <2>3
    <3> QED
      BY <1>4, <2>1, <2>3, <3>1
  <2> QED
    BY <2>2, <2>3
<1> QED
  BY <1>2, <1>5, <1>6, SeqEqual DEF a, b

\* When nothing is under way any more, what arrives has arrived.
LEMMA Arrived ==
  ASSUME TypeInv, TakenInv
  PROVE  SettingsTaken
<1> SUFFICES ASSUME bus = <<>>, NEW k \in Kind, intact[k]
             PROVE  Held(memory[present], k) = asked[k]
  BY DEF SettingsTaken
<1>1. TakenAs(k, asked[k])
  BY DEF TakenInv
<1>2. PICK mem \in Memories : mem = memory[present]
  BY DEF TypeInv
<1>3. \A q, v : Arrives(q, v) => FieldOf(mem, q) = v
  <2>1. DOMAIN bus = {}
    OBVIOUS
  <2> QED
    BY <1>2, <2>1 DEF Arrives
<1>4. PICK x : x = asked[k]
  OBVIOUS
<1>5. CASE k = "name"
  <2>1. PICK n \in [1 .. NameLen -> Char] :
          Text(n) = x /\ Arrives("front", NameFront(n)) /\ Arrives("back", NameBack(n))
    BY <1>1, <1>4, <1>5 DEF TakenAs
  <2>2. NameFront(mem.name) = NameFront(n) /\ NameBack(mem.name) = NameBack(n)
    BY <1>3, <2>1 DEF FieldOf
  <2>3. mem.name = n
    <3>1. mem.name \in [1 .. NameLen -> Char]
      BY DEF Memories
    <3>2. mem.name = NameFront(mem.name) \o NameBack(mem.name) /\ n = NameFront(n) \o NameBack(n)
      BY <2>1, <3>1, Apart
    <3> QED
      BY <2>2, <3>2
  <2> QED
    BY <1>2, <1>4, <1>5, <2>1, <2>3 DEF Held
<1>6. CASE k = "mfg"
  BY <1>1, <1>2, <1>3, <1>6 DEF TakenAs, FieldOf, Held
<1>7. CASE k = "health"
  <2>1. PICK b \in [1 .. 8 -> Byte] : Health_(b) = x /\ Arrives("health", b)
    BY <1>1, <1>4, <1>7 DEF TakenAs
  <2>2. mem.health = b
    BY <1>3, <2>1 DEF FieldOf
  <2> QED
    BY <1>2, <1>4, <1>7, <2>1, <2>2 DEF Held
<1>8. CASE k = "cal"
  <2>1. PICK b \in [1 .. 8 -> Byte] : Cal_(b) = x /\ Arrives("cal", b)
    BY <1>1, <1>4, <1>8 DEF TakenAs
  <2>2. mem.cal = b
    BY <1>3, <2>1 DEF FieldOf
  <2> QED
    BY <1>2, <1>4, <1>8, <2>1, <2>2 DEF Held
<1>9. CASE k = "display"
  BY <1>1, <1>2, <1>3, <1>9 DEF TakenAs, FieldOf, Held
<1> QED
  BY <1>5, <1>6, <1>7, <1>8, <1>9 DEF Kind

\* The values of the variables, whatever numbers a new object has in it, and at any
\* number of gauges, commands and changes of battery.
THEOREM TypeCorrect == Spec => []TypeOK
<1>1. Init => TypeInv /\ TakenInv
  BY InitHolds
<1>2. TypeInv /\ TakenInv /\ [Next]_vars => TypeInv' /\ TakenInv'
  BY AllSteps
<1>3. TypeInv => TypeOK
  <2> SUFFICES ASSUME TypeInv PROVE TypeOK
    OBVIOUS
  <2>1. PICK n \in [1 .. NameLen + 1 -> Char], m \in Byte :
          \E h, c : shown = [name |-> n, mfg |-> m, health |-> h, cal |-> c]
    BY DEF TypeInv, ShownInv
  <2>2. DOMAIN shown.name = 1 .. NameLen + 1 /\ shown.mfg \in Byte
    BY <2>1
  <2>3. Memories \subseteq Memory
    <3>1. Char \subseteq Byte
      BY GaugeCommandsConstants DEF Char, Byte
    <3>2. [1 .. NameLen -> Char] \subseteq [1 .. NameLen -> Byte]
      BY <3>1
    <3> QED
      BY <3>2 DEF Memories, Memory
  <2>4. memory \in [Gauge -> Memory]
    BY <2>3 DEF TypeInv
  <2> QED
    BY <2>2, <2>4 DEF TypeInv, TypeOK, Serials
<1> QED
  BY <1>1, <1>2, <1>3, PTL DEF Spec

\* A setting whose frames all arrived is in the gauge as it was asked for, cut to its
\* size, and none of the settings sent after it has touched it, though they share its
\* message: for any settings, in any order and any number
\* (BattFuelGaugeImpl.cpp:306-473).
THEOREM AllTaken == Spec => []SettingsTaken
<1>1. Init => TypeInv /\ TakenInv
  BY InitHolds
<1>2. TypeInv /\ TakenInv /\ [Next]_vars => TypeInv' /\ TakenInv'
  BY AllSteps
<1>3. TypeInv /\ TakenInv => SettingsTaken
  BY Arrived
<1> QED
  BY <1>1, <1>2, <1>3, PTL DEF Spec
=============================================================================
