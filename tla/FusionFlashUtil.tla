-------------------------- MODULE FusionFlashUtil ---------------------------
(***************************************************************************)
(* FusionFlashUtil: the list of Playing With Fusion controllers on the bus.*)
(*                                                                         *)
(* The identify thread keeps the list from the heartbeats it reads, one    *)
(* message a time, from the CAN receive FIFO; the HTTP thread looks up and *)
(* renames controllers in it, and commands them over the bus.  Nothing is  *)
(* locked.  The controllers themselves are the environment.                *)
(*                                                                         *)
(* A controller stands for its (device, serialNumber) pair, and all are of *)
(* one device type: a lookup never meets those of another.  Firmware       *)
(* versions and the log line are left out.                                 *)
(***************************************************************************)
EXTENDS Integers, Sequences, FiniteSets

CONSTANTS
  Controller,   \* the controllers that may be on the bus
  Id,           \* CAN identifiers they can have
  Other,        \* a message that is no heartbeat
  Timeout,      \* heartbeatTimeout, 40 ticks in the code
  MaxFifo,      \* bound on the receive FIFO
  MaxCommands   \* bound on the commands on their way to the bus

ASSUME FlashConstants == Timeout \in Nat \ {0} /\ MaxFifo \in Nat /\ MaxCommands \in Nat

Heartbeat == [controller : Controller, id : Id]

VARIABLES
  m_controllerList,   \* entries, in the order the controllers were found
  garbage,   \* activeOnBus of the local `controller`, which nothing assigns
  fifo,      \* messages received and not yet read, oldest first
  commands,  \* SetId commands the driver still holds, oldest first
  busId,     \* the identifier each controller really has
  alive,     \* controllers that are powered and on the bus
  since      \* history: ticks since the last heartbeat read of each, capped

bus == <<busId, alive>>
vars == <<m_controllerList, garbage, fifo, commands, bus, since>>

Listed == DOMAIN m_controllerList
Never == Timeout + 1    \* cap of `since`

\* The local is not initialised: any value, the same for the thread's life.
Init ==
  /\ m_controllerList = <<>> /\ garbage \in BOOLEAN
  /\ fifo = <<>> /\ commands = <<>>
  /\ busId \in [Controller -> Id] /\ alive = [c \in Controller |-> TRUE]
  /\ since = [c \in Controller |-> Never]

-----------------------------------------------------------------------------
(* Identify thread: IdentifyHeartbeatTask. *)

Fresh(m) == [controller |-> m.controller, id |-> m.id,
             timeSinceLastHeartbeat |-> 0, activeOnBus |-> garbage]

\* Mutant of Update: a controller is known by its identifier too.
UpdateById(m) ==
  LET known == {i \in Listed : /\ m_controllerList[i].controller = m.controller
                               /\ m_controllerList[i].id = m.id}
  IN m_controllerList' = IF known = {} THEN Append(m_controllerList, Fresh(m))
                         ELSE [i \in Listed |-> IF i \in known THEN Fresh(m)
                                                ELSE m_controllerList[i]]

\* Mutant of Update: a controller that is listed keeps its entry.
UpdateNew(m) ==
  LET known == {i \in Listed : m_controllerList[i].controller = m.controller}
  IN m_controllerList' =
       IF known = {} THEN Append(m_controllerList, Fresh(m))
       ELSE [i \in Listed |-> IF i \in known
                              THEN [Fresh(m) EXCEPT !.id = m_controllerList[i].id]
                              ELSE m_controllerList[i]]

\* The entry equal to this controller is overwritten; else one is added.
Update(m) ==
  LET known == {i \in Listed : m_controllerList[i].controller = m.controller}
  IN m_controllerList' = IF known = {} THEN Append(m_controllerList, Fresh(m))
                         ELSE [i \in Listed |-> IF i \in known THEN Fresh(m)
                                                ELSE m_controllerList[i]]

\* readStreamSession returns a message.
Read ==
  /\ fifo # <<>> /\ fifo' = Tail(fifo)
  /\ LET m == Head(fifo) IN
       \/ /\ m # Other
          /\ Update(m)
          /\ since' = [since EXCEPT ![m.controller] = 0]
       \/ m = Other /\ UNCHANGED <<m_controllerList, since>>
  /\ UNCHANGED <<garbage, commands, bus>>

\* Mutant of Aged: the age goes on counting.
AgedOn(e) ==
  [e EXCEPT !.activeOnBus = (e.timeSinceLastHeartbeat < Timeout),
            !.timeSinceLastHeartbeat = @ + 1]

\* Mutant of Aged: one tick too many.
AgedOffByOne(e) ==
  IF e.timeSinceLastHeartbeat <= Timeout
  THEN [e EXCEPT !.activeOnBus = TRUE, !.timeSinceLastHeartbeat = @ + 1]
  ELSE [e EXCEPT !.activeOnBus = FALSE]

\* Mutant of Aged: nothing makes an entry inactive.
AgedActive(e) ==
  IF e.timeSinceLastHeartbeat < Timeout
  THEN [e EXCEPT !.activeOnBus = TRUE, !.timeSinceLastHeartbeat = @ + 1]
  ELSE e

Aged(e) ==
  IF e.timeSinceLastHeartbeat < Timeout
  THEN [e EXCEPT !.activeOnBus = TRUE, !.timeSinceLastHeartbeat = @ + 1]
  ELSE [e EXCEPT !.activeOnBus = FALSE]

Later == [c \in Controller |-> IF since[c] < Never THEN since[c] + 1 ELSE Never]

\* Mutant of Tick: an entry that has timed out is removed.
TickErases ==
  /\ fifo = <<>>
  /\ m_controllerList' = SelectSeq([i \in Listed |-> Aged(m_controllerList[i])],
                                   LAMBDA e : e.activeOnBus)
  /\ since' = Later
  /\ UNCHANGED <<garbage, fifo, commands, bus>>

\* readStreamSession returns none: every entry ages, and the thread sleeps.
Tick ==
  /\ fifo = <<>>
  /\ m_controllerList' = [i \in Listed |-> Aged(m_controllerList[i])]
  /\ since' = Later
  /\ UNCHANGED <<garbage, fifo, commands, bus>>

-----------------------------------------------------------------------------
(* HTTP thread: a "Change ID" form. *)

\* The entry takes the new identifier at once, and the command is handed to the
\* driver, which may refuse it: no one asks.  A controller that is not listed is
\* left alone.
SetControllerId(c, id) ==
  /\ \E i \in Listed :
       /\ m_controllerList[i].controller = c
       /\ m_controllerList' = [m_controllerList EXCEPT ![i].id = id]
  /\ \/ /\ Len(commands) < MaxCommands
        /\ commands' = Append(commands, [controller |-> c, id |-> id])
     \/ UNCHANGED commands
  /\ UNCHANGED <<garbage, fifo, bus, since>>

-----------------------------------------------------------------------------
(* The bus and the controllers on it. *)

Beat(c) ==
  /\ alive[c] /\ Len(fifo) < MaxFifo
  /\ fifo' = Append(fifo, [controller |-> c, id |-> busId[c]])
  /\ UNCHANGED <<m_controllerList, garbage, commands, bus, since>>

Chatter ==
  /\ Len(fifo) < MaxFifo /\ fifo' = Append(fifo, Other)
  /\ UNCHANGED <<m_controllerList, garbage, commands, bus, since>>

\* The oldest command reaches its controller, or is lost.
Command ==
  /\ commands # <<>> /\ commands' = Tail(commands)
  /\ LET m == Head(commands) IN
       \/ alive[m.controller] /\ busId' = [busId EXCEPT ![m.controller] = m.id]
       \/ UNCHANGED busId
  /\ UNCHANGED <<m_controllerList, garbage, fifo, alive, since>>

\* A controller loses its power, or gets it back.
Power(c) ==
  /\ alive' = [alive EXCEPT ![c] = ~@]
  /\ UNCHANGED <<m_controllerList, garbage, fifo, commands, busId, since>>

Identify == Read \/ Tick
Environment == Chatter \/ Command \/ \E c \in Controller : Beat(c) \/ Power(c)
Next ==
  \/ Identify \/ Environment
  \/ \E c \in Controller, id \in Id : SetControllerId(c, id)

\* The thread keeps reading and, reading faster than a bus can fill the FIFO,
\* keeps finding it empty.  A live controller keeps sending heartbeats; fairness
\* is strong because the bound on the FIFO, which is none of the code's, may
\* disable a heartbeat again and again.
Fairness ==
  /\ WF_vars(Read) /\ SF_vars(Tick)
  /\ \A c \in Controller : SF_vars(Beat(c))
Spec == Init /\ [][Next]_vars /\ Fairness

-----------------------------------------------------------------------------
Entry == [controller : Controller, id : Id,
          timeSinceLastHeartbeat : 0 .. Timeout, activeOnBus : BOOLEAN]

TypeOK ==
  /\ m_controllerList \in Seq(Entry) /\ garbage \in BOOLEAN
  /\ fifo \in Seq(Heartbeat \cup {Other})
  /\ commands \in Seq(Heartbeat)
  /\ busId \in [Controller -> Id] /\ alive \in [Controller -> BOOLEAN]
  /\ since \in [Controller -> 0 .. Never]

\* A controller has one entry, though the HTTP thread and the bus change its
\* identifier while heartbeats are in the FIFO (FusionFlashUtil.cpp:104-117).
OneEntryEach ==
  \A i, j \in Listed :
    m_controllerList[i].controller = m_controllerList[j].controller => i = j

\* An entry that GetControllerById may return was heard in the last 40 ticks:
\* what the uninitialised flag says is overruled (FusionFlashUtil.cpp:125-136).
ActiveWasHeard ==
  \A i \in Listed :
    m_controllerList[i].activeOnBus => since[m_controllerList[i].controller] <= Timeout

\* Entries are never removed, moved or given to another controller: the pointer
\* GetControllerById hands to the HTTP thread stays good.
EntriesStay ==
  [][\A i \in Listed :
       /\ i \in DOMAIN m_controllerList'
       /\ m_controllerList'[i].controller = m_controllerList[i].controller]_vars

EntryOf(c) == {m_controllerList[i] : i \in {j \in Listed : m_controllerList[j].controller = c}}

\* A controller that is gone for good ends up inactive, for good, on however
\* busy a bus (FusionFlashUtil.cpp:121-136).
GoneGoesInactive ==
  \A c \in Controller :
    <>[]~alive[c] => <>[](\A e \in EntryOf(c) : ~e.activeOnBus)

\* The list may show an identifier the controller never took (the command was
\* lost) or no longer has; once it is left alone, the heartbeats put it right
\* (FusionFlashUtil.cpp:109, 166-189).
IdConverges ==
  \A c \in Controller :
    <>[](alive[c] /\ commands = <<>>) /\ <>[][\A id \in Id : ~SetControllerId(c, id)]_vars
      => <>[](\E e \in EntryOf(c) : e.id = busId[c])

\* An entry is active while its controller was heard in the last 40 ticks.  It
\* is not: every heartbeat copies the uninitialised flag over it
\* (FusionFlashUtil.cpp:54, 109), and the flag stays until the FIFO is empty.
HeardStaysActive ==
  [][\A i \in Listed :
       m_controllerList[i].activeOnBus /\ ~m_controllerList'[i].activeOnBus
         => since[m_controllerList[i].controller] >= Timeout]_vars
=============================================================================
