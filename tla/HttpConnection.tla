--------------------------- MODULE HttpConnection ---------------------------
(***************************************************************************)
(* The web server: requests that arrive piece by piece on several          *)
(* connections, the decoding of their forms, the gauge object and the      *)
(* controller they are meant for, and what is done for them.               *)
(*                                                                         *)
(* One thread runs the event loop: what it does with one piece of data is  *)
(* a step.  The controller list, which the identify thread keeps, may      *)
(* change in any way between two steps: see FusionFlashUtil.               *)
(*                                                                         *)
(* A request is the fields its page sends.  Zero and "" stand for a field  *)
(* that is not there, which m_post answers with the empty string.  The new *)
(* identifier is what was typed into its box: zero stands for anything but *)
(* a number that an int holds, an empty box included.                      *)
(***************************************************************************)
EXTENDS Integers, Sequences

CONSTANTS
  Conn,         \* connections
  Addresses,    \* CAN identifiers are 1 .. Addresses; 256 in the code
  Controllers,  \* serial numbers are 1 .. Controllers, in the order of the list
  MaxRequests   \* bound on the number of requests

ASSUME HttpConstants ==
  Addresses \in Nat \ {0} /\ Controllers \in Nat /\ MaxRequests \in Nat

Address == 1 .. Addresses
Serial == 1 .. Controllers

\* What is typed as an identifier: no number, one of them, or one beyond 8 bits.
Typed == 0 .. Addresses + 1
\* The cast of a number to uint8_t.
Id(n) == ((n - 1) % Addresses) + 1

VARIABLES
  open,       \* connections that are open
  requests,   \* number of requests begun
  request,    \* request of each connection, the last one begun
  left,       \* number of its last fields that have not arrived, or Idle
  cut,        \* history: was a part of its body passed on as not final?
  m_post,     \* decoded fields of each connection
  lastBfgSrcAddr,
  m_serialNumber,  \* of the gauge objects in bfgArray, 0 when none was found yet
  listed,     \* the controller list: identifier and activeOnBus of each serial
  down,       \* has the program ended?
  done        \* what was done for a request in the last step, if anything

transport == <<open, requests, request, left, cut>>
gauges == <<lastBfgSrcAddr, m_serialNumber, listed>>
vars == <<transport, m_post, gauges, down, done>>

Idle == -1
Blank == [action |-> "", srcaddr |-> 0, newid |-> 0, serial |-> 0]

\* The order of the fields in the forms of the index page and of bfg.html.
FieldsOf(path) ==
  CASE path = "/" -> <<"newid", "action", "srcaddr", "serial">>
    [] path = "/bfg.cgi" -> <<"srcaddr", "action">>
    [] path = "/bfg_state.json" -> <<>>

\* The requests the pages make.  Forms of the index page carry what the list
\* showed, but for the new identifier, a text box; bfg.html passes on the
\* address it was opened with, or none.
IndexForms == {r \in [path : {"/"}, action : {"Live+Data", "Identify", "Change+ID"},
                       srcaddr : Address, newid : Typed, serial : Serial] :
                 r.action # "Change+ID" => r.newid = r.srcaddr}
GaugeForms == [path : {"/bfg.cgi"}, action : {"set", "cal"},
               srcaddr : Address \cup {0}, newid : {0}, serial : {0}]
Polls == [path : {"/bfg_state.json"}, action : {""},
          srcaddr : Address \cup {0}, newid : {0}, serial : {0}]
Request == IndexForms \cup GaugeForms \cup Polls
Fields(r) == FieldsOf(r.path)
NoRequest == [path |-> "/bfg_state.json", action |-> "", srcaddr |-> 0, newid |-> 0, serial |-> 0]

Nothing == [conn |-> "none", what |-> "nothing", addr |-> 0, serial |-> 0]

Init ==
  /\ open = {} /\ requests = 0
  /\ request = [c \in Conn |-> NoRequest]
  /\ left = [c \in Conn |-> Idle] /\ cut = [c \in Conn |-> FALSE]
  /\ m_post = [c \in Conn |-> Blank]
  /\ lastBfgSrcAddr = 1
  /\ m_serialNumber = [a \in Address |-> 0]
  /\ listed \in [Serial -> [id : Address, active : BOOLEAN]]
  /\ down = FALSE /\ done = Nothing

-----------------------------------------------------------------------------
(* Connections and requests. *)

\* The constructor replaces the gauge objects under every open connection.
Connect(c) ==
  /\ c \notin open /\ open' = open \cup {c}
  /\ m_serialNumber' = [a \in Address |-> 0]
  /\ m_post' = [m_post EXCEPT ![c] = Blank]
  /\ done' = Nothing
  /\ UNCHANGED <<requests, request, left, cut, lastBfgSrcAddr, listed, down>>

Close(c) ==
  /\ c \in open /\ open' = open \ {c}
  /\ left' = [left EXCEPT ![c] = Idle]
  /\ done' = Nothing
  /\ UNCHANGED <<requests, request, cut, m_post, gauges, down>>

NewRequest(c, r) ==
  /\ c \in open /\ left[c] = Idle /\ requests < MaxRequests
  /\ requests' = requests + 1
  /\ request' = [request EXCEPT ![c] = r]
  /\ left' = [left EXCEPT ![c] = Len(Fields(r))]
  /\ cut' = [cut EXCEPT ![c] = FALSE]
  /\ done' = Nothing
  /\ UNCHANGED <<open, gauges, down>>

\* Mutant of ProcessNewRequest: the fields of the last request stay.
NewRequestKeeps(c, r) == NewRequest(c, r) /\ UNCHANGED m_post

\* The head of a request: ProcessNewRequest empties the maps.
ProcessNewRequest(c, r) == NewRequest(c, r) /\ m_post' = [m_post EXCEPT ![c] = Blank]

\* ProcessBody of a piece that is not the last: it is dropped, with the field
\* the cut goes through.
ProcessBody(c, n) ==
  /\ n \in 1 .. left[c]
  /\ left' = [left EXCEPT ![c] = @ - n]
  /\ cut' = [cut EXCEPT ![c] = TRUE]
  /\ done' = Nothing
  /\ UNCHANGED <<open, requests, request, m_post, gauges, down>>

\* DecodeGetPost of the last piece.
Arrived(c) ==
  LET names == Fields(request[c]) IN
  {names[i] : i \in {j \in DOMAIN names : j > Len(names) - left[c]}}
DecodeGetPost(c) ==
  [f \in DOMAIN Blank |-> IF f \in Arrived(c) /\ request[c][f] # Blank[f]
                          THEN request[c][f] ELSE m_post[c][f]]

-----------------------------------------------------------------------------
(* ProcessRequest, called with the last piece. *)

\* Mutant of GetPWFControllerInfo: a gauge found once is not looked up again.
BindOnce(a) ==
  LET found == {s \in Serial : listed[s].id = a /\ listed[s].active} IN
  IF found = {} \/ m_serialNumber[a] # 0 THEN m_serialNumber[a]
  ELSE CHOOSE s \in found : \A t \in found : s <= t

\* The first active controller with the identifier; if there is none, the
\* serial number found last stays.
GetPWFControllerInfo(a) ==
  LET found == {s \in Serial : listed[s].id = a /\ listed[s].active} IN
  IF found = {} THEN m_serialNumber[a]
  ELSE CHOOSE s \in found : \A t \in found : s <= t

Answer(c, what, a, s) == done' = [conn |-> c, what |-> what, addr |-> a, serial |-> s]

Answered(c, path) ==
  /\ c \in open /\ left[c] # Idle /\ request[c].path = path
  /\ left' = [left EXCEPT ![c] = Idle]
  /\ m_post' = [m_post EXCEPT ![c] = DecodeGetPost(c)]
  /\ request' = [request EXCEPT ![c] = NoRequest] /\ cut' = [cut EXCEPT ![c] = FALSE]
  /\ UNCHANGED <<open, requests>>

\* The browser is sent on to the gauge's page.
LiveData(c, p) ==
  /\ p.action = "Live+Data"
  /\ lastBfgSrcAddr' = IF p.srcaddr # 0 THEN p.srcaddr ELSE lastBfgSrcAddr
  /\ Answer(c, p.action, lastBfgSrcAddr', 0)

\* RenderIndex renames the entry in the list (SetControllerId), or has no number
\* to rename it to, for the field did not arrive or none was typed: std::stoi
\* throws, nothing catches, and the program is down.
Root(c) ==
  /\ Answered(c, "/")
  /\ LET p == m_post'[c] IN
     \/ LiveData(c, p) /\ UNCHANGED <<m_serialNumber, listed, down>>
     \/ /\ p.action = "Identify"
        /\ Answer(c, p.action, 0, p.serial)
        /\ UNCHANGED <<down, lastBfgSrcAddr, m_serialNumber, listed>>
     \/ /\ p.action = "Change+ID" /\ p.newid # 0
        /\ listed' = [listed EXCEPT ![p.serial].id = Id(p.newid)]
        /\ Answer(c, p.action, Id(p.newid), p.serial)
        /\ UNCHANGED <<down, lastBfgSrcAddr, m_serialNumber>>
     \/ /\ p.action = "Change+ID" /\ p.newid = 0
        /\ Answer(c, "crash", 0, 0) /\ down' = TRUE
        /\ UNCHANGED <<lastBfgSrcAddr, m_serialNumber, listed>>
     \/ /\ p.action = ""
        /\ Answer(c, "page", 0, 0)
        /\ UNCHANGED <<down, lastBfgSrcAddr, m_serialNumber, listed>>

\* The gauge a request is for: its own address, or the one last looked at.
BfgAddr(srcaddr) == IF srcaddr # 0 THEN srcaddr ELSE lastBfgSrcAddr

\* A gauge object looks its controller up, then sends or answers.
ForGauge(c, what, a) ==
  /\ m_serialNumber' = [m_serialNumber EXCEPT ![a] = GetPWFControllerInfo(a)]
  /\ Answer(c, what, a, m_serialNumber'[a])

\* Mutant of BfgCgi: the address in the form is not looked at.
BfgCgiLast(c) ==
  /\ Answered(c, "/bfg.cgi")
  /\ ForGauge(c, m_post'[c].action, lastBfgSrcAddr)
  /\ UNCHANGED <<lastBfgSrcAddr, listed, down>>

\* A command is sent, or, without an action, nothing: success, either way.
BfgCgi(c) ==
  /\ Answered(c, "/bfg.cgi")
  /\ LET p == m_post'[c] IN
     \/ p.action # "" /\ ForGauge(c, p.action, BfgAddr(p.srcaddr))
     \/ p.action = "" /\ Answer(c, "success", 0, 0) /\ UNCHANGED m_serialNumber
  /\ UNCHANGED <<lastBfgSrcAddr, listed, down>>

BfgState(c) ==
  /\ Answered(c, "/bfg_state.json")
  /\ ForGauge(c, "state", BfgAddr(request[c].srcaddr))
  /\ UNCHANGED <<lastBfgSrcAddr, listed, down>>

-----------------------------------------------------------------------------
\* The identify thread, and the bus behind it, change an entry.
Listing(s) ==
  /\ \E e \in [id : Address, active : BOOLEAN] : listed' = [listed EXCEPT ![s] = e]
  /\ done' = Nothing
  /\ UNCHANGED <<transport, m_post, lastBfgSrcAddr, m_serialNumber, down>>

Loop(c) ==
  /\ ~down
  /\ \/ Connect(c) \/ Close(c)
     \/ (\E r \in Request : ProcessNewRequest(c, r))
     \/ (\E n \in 1 .. 4 : ProcessBody(c, n))
     \/ Root(c) \/ BfgCgi(c) \/ BfgState(c)
Next == (\E c \in Conn : Loop(c)) \/ (\E s \in Serial : Listing(s))

Spec == Init /\ [][Next]_vars

-----------------------------------------------------------------------------
Gauging == {"set", "cal", "state"}
Unasked == {"page", "success", "crash"}

\* What is done for a request is what it asks, or nothing, whatever the requests
\* before it on the connection asked, and with a part of its form lost
\* (FusionHttpServerConnection.cpp:68-77, 115-165).
FormsDoNotMix ==
  [][done' # Nothing =>
       LET r == request[done'.conn] IN
       /\ done'.what \in Unasked \cup {"state", r.action}
       /\ done'.what \in {"Identify", "Change+ID"} => done'.serial = r.serial]_vars

\* A form that comes in one piece is carried out as it is, for the gauge it names,
\* whichever gauge other connections look at and however their requests are
\* interleaved with this one; but one that asks for an identifier that is no number
\* ends the program, and of one that is, 8 bits count
\* (FusionHttpServerConnection.cpp:30, 138-166, 257-260).
WholeFormsCarriedOut ==
  [][done' # Nothing /\ ~cut[done'.conn] =>
       LET r == request[done'.conn] IN
       /\ done'.what \in Unasked => r.action = "Change+ID" /\ r.newid = 0
       /\ done'.what = "Change+ID" => (r.newid - listed'[r.serial].id) % Addresses = 0
       /\ done'.what \in Gauging /\ r.srcaddr # 0 => done'.addr = r.srcaddr]_vars

\* A gauge that is on the bus under the address is the one that is shown,
\* unlocked and calibrated, however the identifiers have moved since it, or
\* another, was found there (BattFuelGaugeImpl.cpp:46-59).
ListedGaugeFound ==
  [][done' # Nothing /\ done'.what \in Gauging
       /\ (\E s \in Serial : listed[s] = [id |-> done'.addr, active |-> TRUE]) =>
     done'.serial # 0 /\ listed[done'.serial] = [id |-> done'.addr, active |-> TRUE]]_vars

\* A command goes to the gauge its form names.  It does not: the body comes in
\* pieces, "arbitrarily", and all but the last are dropped, with the address;
\* the command then goes to the gauge any connection last looked at
\* (FusionHttpServerConnection.cpp:73-77, 155).
CommandsReachTheirGauge ==
  [][done' # Nothing /\ done'.what \in {"set", "cal"} =>
       request[done'.conn].srcaddr \in {0, done'.addr}]_vars
=============================================================================
