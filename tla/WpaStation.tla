----------------------------- MODULE WpaStation -----------------------------
(***************************************************************************)
(* The operations of wpa_client.c on the networks of the supplicant.  Each *)
(* is a sequence of requests over the control socket, one answer per       *)
(* request, and stops at the first answer it does not want, leaving what   *)
(* the earlier requests did.  The module implements WpaControl: what is    *)
(* counted there is a queue of requests and a queue of replies here.       *)
(*                                                                         *)
(* The supplicant is outside the repository.  It is modelled by what the   *)
(* code expects of it: it serves requests in order, numbers its networks,  *)
(* may reject a setting, and connects to enabled networks on its own.      *)
(***************************************************************************)
EXTENDS Integers, Sequences, FiniteSetsExt

CONSTANTS
  Station,     \* what the caller wants to add
  Hidden,      \* the stations with a hidden SSID
  Pinned,      \* the stations with a BSSID
  Unset,       \* the value of a setting nobody made
  Updated,     \* a priority set by station_update_priority
  IdRange,     \* 256, the values of the uint8_t network id
  Ops,         \* bound of the model: the operations the caller uses
  MaxNets,     \* bound of the environment: networks the supplicant keeps
  MaxLate      \* bound of the model: requests given up in one session, with
               \* those of closed sessions the supplicant has not served

NoId == -1
NetId == 0 .. MaxNets - 1
Id8 == 0 .. IdRange - 1

ASSUME StationAssumption ==
  /\ Hidden \subseteq Station /\ Pinned \subseteq Station
  /\ Unset \notin Station /\ Updated \notin Station \cup {Unset}
  /\ IdRange \in Nat \ {0} /\ MaxNets \in Nat \ {0}
  /\ MaxLate \in Nat

Field == {"ssid", "scan_ssid", "bssid", "psk", "proto", "priority"}

VARIABLES
  phase, late, result,  \* as in WpaControl
  requests,  \* sent, not yet served
  inbox,     \* replies in the client's socket
  call,      \* the operation in progress, or the last one
  at,        \* its request in progress, 0 when it has returned
  id,        \* its network id
  ret,       \* what the last operation returned
  nets,      \* the supplicant's networks: settings and whether enabled
  conn,      \* the network it is connected to, or NoId
  owned,     \* history: ids given to the caller, with at most one late answer,
             \* and not removed by it
  seen,      \* history: what conn was during a disconnect
  unsent     \* history: ids remove_all could not send a request for

svars == << requests, inbox, nets, conn >>
hvars == << owned, unsent >>
vars  == << phase, late, result, svars, call, at, id, ret, hvars, seen >>

----------------------------------------------------------------------------
(* The operations.                                                         *)

AnyCall ==
       [op : {"add"}, station : Station]
  \cup [op : {"remove", "update_priority"}, id : Id8]
  \cup [op : {"connect"}, id : Id8, others : BOOLEAN]
  \cup [op : {"remove_all", "disconnect", "ping", "scan"}]

Call == {c \in AnyCall : c.op \in Ops}

\* A command of an operation: its name and the setting it makes.
Cmd(name)    == [cmd |-> name, field |-> "none"]
Set(field)   == [cmd |-> "SET_NETWORK", field |-> field]
If(b, cmds)  == IF b THEN cmds ELSE << >>

AddSteps(s) ==
  << Cmd("ADD_NETWORK"), Set("ssid") >>
    \o If(s \in Hidden, << Set("scan_ssid") >>)
    \o If(s \in Pinned, << Set("bssid") >>)
    \o << Set("psk"), Set("proto"), Set("priority") >>
RemoveSteps == << Cmd("DISABLE_NETWORK"), Cmd("REMOVE_NETWORK") >>
RemoveAllSteps == [i \in 1 .. IdRange |-> Cmd("REMOVE_NETWORK")]
ConnectSteps(others) ==
  If(others, << Cmd("SELECT_NETWORK") >>) \o << Cmd("ENABLE_NETWORK") >>
DisconnectSteps == << Cmd("STATUS"), Cmd("DISABLE_NETWORK") >>
PrioritySteps == << Set("priority") >>
PingSteps == << Cmd("PING") >>
ScanSteps == << Cmd("SCAN") >>

Steps(c) ==
  CASE c.op = "add" -> AddSteps(c.station)
    [] c.op = "remove" -> RemoveSteps
    [] c.op = "remove_all" -> RemoveAllSteps
    [] c.op = "connect" -> ConnectSteps(c.others)
    [] c.op = "disconnect" -> DisconnectSteps
    [] c.op = "update_priority" -> PrioritySteps
    [] c.op = "ping" -> PingSteps
    [] c.op = "scan" -> ScanSteps

\* The id a command of the operation in progress names.
CmdId == IF call.op = "remove_all" THEN at - 1 ELSE id

\* What a setting is set to.
Value == IF call.op = "add" THEN call.station ELSE Updated

\* The answer to STATUS says that the supplicant is connected.  In what is not
\* a status, no state is found.
IsConnected(r) == r.kind = "status" /\ r.id # NoId

\* Faulty Wanted: the answer to a setting is not looked at.
WantedAnySetting(r) ==
  LET cmd == Steps(call)[at].cmd IN
  CASE cmd = "ADD_NETWORK" -> r.kind = "id"
    [] OTHER -> TRUE

\* Faulty Wanted: the comparison with CONNECTED is the wrong way round.
WantedDisconnected(r) ==
  IF Steps(call)[at].cmd = "STATUS" THEN r.id = NoId ELSE r.kind \in {"id", "OK"}

\* The answer lets the operation go on.  remove and remove_all do not look
\* at it, nor does disconnect at the answer of its last request.
Wanted(r) ==
  LET cmd == Steps(call)[at].cmd IN
  CASE cmd = "ADD_NETWORK" -> r.kind = "id"
    [] cmd = "STATUS" -> IsConnected(r)
    [] cmd = "PING" -> r.kind = "PONG"
    [] cmd \in {"DISABLE_NETWORK", "REMOVE_NETWORK"} -> TRUE
    [] OTHER -> r.kind = "OK"

\* What the operation returns when its request in progress was the last:
\* disconnect takes any failure to learn the state for "disconnected".
Verdict(good) ==
  CASE call.op = "remove_all" -> FALSE
    [] call.op = "disconnect" /\ at = 1 -> ~good
    [] OTHER -> good

\* Faulty Proceed: one request too many.
ProceedPast(good) ==
  IF at <= Len(Steps(call)) /\ (good \/ call.op = "remove_all")
    THEN at' = at + 1 /\ UNCHANGED << ret, owned >>
    ELSE at' = 0 /\ ret' = Verdict(good) /\ UNCHANGED owned

\* Faulty Proceed: remove_all stops at a request that fails.
ProceedOrStop(good) ==
  IF at < Len(Steps(call)) /\ good
    THEN at' = at + 1 /\ UNCHANGED << ret, owned >>
    ELSE at' = 0 /\ ret' = Verdict(good) /\ UNCHANGED owned

\* The request in progress has ended, with the wanted answer or not.
Proceed(good) ==
  LET more == at < Len(Steps(call)) /\ (good \/ call.op = "remove_all") IN
  IF more
    THEN at' = at + 1 /\ UNCHANGED << ret, owned >>
    ELSE /\ at' = 0
         /\ ret' = Verdict(good)
         /\ owned' = IF call.op = "add" /\ good /\ late <= 1
                     THEN owned \cup {id'} ELSE owned

----------------------------------------------------------------------------
(* The session and its requests, as in WpaControl.                         *)

Init ==
  /\ phase = "closed" /\ late = 0 /\ result = "none"
  /\ requests = << >> /\ inbox = << >>
  /\ call = [op |-> "ping"] /\ at = 0 /\ id = 0 /\ ret = FALSE
  /\ nets = << >> /\ conn = NoId
  /\ owned = {} /\ seen = {} /\ unsent = {}

Dead(rs) == [i \in DOMAIN rs |-> [rs[i] EXCEPT !.live = FALSE]]

\* A new session forgets the last operation.
NoCallYet ==
  /\ late' = 0 /\ result' = "none"
  /\ call' = [op |-> "ping"] /\ id' = 0 /\ ret' = FALSE
  /\ seen' = {} /\ unsent' = {}

\* Faulty FreshSocket: replies to the old session are kept.
FreshSocketKeepsReplies ==
  /\ NoCallYet
  /\ UNCHANGED << svars, at, owned >>

\* The supplicant serves what was sent on a closed socket, but nobody gets
\* its answers.
FreshSocket ==
  /\ NoCallYet
  /\ requests' = Dead(requests) /\ inbox' = << >>
  /\ UNCHANGED << nets, conn, at, owned >>

Open ==
  /\ phase \in {"closed", "idle"} /\ at = 0
  /\ Len(requests) <= MaxLate
  /\ phase' \in {"idle", "closed"}
  /\ FreshSocket

Close ==
  /\ phase = "idle" /\ at = 0
  /\ phase' = "closed"
  /\ FreshSocket

\* An operation without a session fails at once.
CallClosed(c) ==
  /\ phase = "closed"
  /\ call' = c /\ ret' = FALSE
  /\ unsent' = IF c.op = "remove_all" THEN Id8 ELSE {}
  /\ UNCHANGED << phase, late, result, svars, at, id, owned, seen >>

StartCall(c) ==
  /\ phase = "idle" /\ at = 0
  /\ phase' = "drain"
  /\ call' = c /\ at' = 1
  /\ id' = IF "id" \in DOMAIN c THEN c.id ELSE 0
  /\ owned' = CASE c.op = "remove" -> owned \ {c.id}
                [] c.op = "remove_all" -> {}
                [] OTHER -> owned
  /\ seen' = IF c.op = "disconnect" THEN {conn} ELSE {}
  /\ result' = "none" /\ ret' = FALSE /\ unsent' = {}
  /\ UNCHANGED << late, svars >>

NextRequest ==
  /\ phase = "idle" /\ at # 0
  /\ phase' = "drain"
  /\ result' = "none"
  /\ UNCHANGED << late, svars, call, at, id, ret, hvars, seen >>

Drain ==
  /\ phase = "drain"
  /\ phase' = "send"
  /\ inbox' = IF inbox = << >> THEN inbox ELSE Tail(inbox)
  /\ UNCHANGED << late, result, requests, nets, conn, call, at, id, ret, hvars, seen >>

Send ==
  /\ phase = "send"
  /\ phase' = "wait"
  /\ LET s == Steps(call)[at] IN
     requests' = Append(requests,
       [cmd |-> s.cmd, field |-> s.field, id |-> CmdId, val |-> Value, live |-> TRUE])
  /\ UNCHANGED << late, result, inbox, nets, conn, call, at, id, ret, hvars, seen >>

SendFails ==
  /\ phase = "send"
  /\ phase' = "idle"
  /\ result' = "fail"
  /\ unsent' = IF call.op = "remove_all" THEN unsent \cup {CmdId} ELSE {}
  /\ Proceed(FALSE)
  /\ UNCHANGED << late, svars, call, id, seen >>

\* Replies owed to the client.
Owed == Len(inbox) + Cardinality({i \in DOMAIN requests : requests[i].live})

\* Faulty IdAfter: the id in the answer is not kept.
IdKept(r) == id

\* The network id of the operation after answer r to the request in progress:
\* uint8_t of the number in it.
IdAfter(r) ==
  IF Steps(call)[at].cmd \in {"ADD_NETWORK", "STATUS"} /\ Wanted(r)
    THEN r.id % IdRange ELSE id

Receive ==
  /\ phase = "wait"
  /\ inbox # << >>
  /\ phase' = "idle"
  /\ result' = IF Owed = 1 THEN "own" ELSE "other"
  /\ inbox' = Tail(inbox)
  /\ id' = IdAfter(Head(inbox))
  /\ Proceed(Wanted(Head(inbox)))
  /\ UNCHANGED << late, requests, nets, conn, call, seen, unsent >>

Timeout ==
  /\ phase = "wait"
  /\ inbox = << >>
  /\ late + Len(requests) - Owed < MaxLate
  /\ late' = late + 1
  /\ phase' = "idle"
  /\ result' = "fail"
  /\ Proceed(FALSE)
  /\ UNCHANGED << svars, call, id, seen, unsent >>

----------------------------------------------------------------------------
(* The supplicant.                                                         *)

Reply(kind) == [kind |-> kind, id |-> NoId]
Answer(r) == inbox' = IF Head(requests).live THEN Append(inbox, r) ELSE inbox
Take(cmd) ==
  /\ requests # << >>
  /\ Head(requests).cmd \in cmd
  /\ requests' = Tail(requests)

\* conn changes to c.
Connected(c) ==
  /\ conn' = c
  /\ seen' = IF call.op = "disconnect" /\ at # 0 THEN seen \cup {c} ELSE seen

client == << phase, late, result, call, at, id, ret, hvars >>

\* A new network gets the number above all others.
NewId == IF nets = << >> THEN 0 ELSE Max(DOMAIN nets) + 1
NewNet == [cfg |-> [f \in Field |-> Unset], on |-> FALSE]

ServeAdd ==
  /\ Take({"ADD_NETWORK"})
  /\ IF NewId \in NetId
       THEN /\ nets' = [n \in DOMAIN nets \cup {NewId} |->
                          IF n = NewId THEN NewNet ELSE nets[n]]
            /\ Answer([kind |-> "id", id |-> NewId])
       ELSE UNCHANGED nets /\ Answer(Reply("FAIL"))
  /\ UNCHANGED << client, conn, seen >>

ServeSet ==
  /\ Take({"SET_NETWORK"})
  /\ LET r == Head(requests) IN
     \/ /\ r.id \in DOMAIN nets
        /\ nets' = [nets EXCEPT ![r.id].cfg[r.field] = r.val]
        /\ Answer(Reply("OK"))
     \/ UNCHANGED nets /\ Answer(Reply("FAIL"))
  /\ UNCHANGED << client, conn, seen >>

ServeSwitch ==
  /\ Take({"ENABLE_NETWORK", "SELECT_NETWORK", "DISABLE_NETWORK", "REMOVE_NETWORK"})
  /\ LET r == Head(requests) IN
     IF r.id \notin DOMAIN nets
       THEN UNCHANGED << nets, conn, seen >> /\ Answer(Reply("FAIL"))
       ELSE /\ nets' =
                 CASE r.cmd = "REMOVE_NETWORK" -> [n \in DOMAIN nets \ {r.id} |-> nets[n]]
                   [] r.cmd = "ENABLE_NETWORK" -> [nets EXCEPT ![r.id].on = TRUE]
                   [] r.cmd = "DISABLE_NETWORK" -> [nets EXCEPT ![r.id].on = FALSE]
                   [] r.cmd = "SELECT_NETWORK" ->
                        [n \in DOMAIN nets |-> [nets[n] EXCEPT !.on = n = r.id]]
            /\ Connected(IF conn \in DOMAIN nets' /\ nets'[conn].on THEN conn ELSE NoId)
            /\ Answer(Reply("OK"))
  /\ UNCHANGED client

ServeQuery ==
  /\ Take({"STATUS", "PING", "SCAN"})
  /\ Answer(CASE Head(requests).cmd = "STATUS" -> [kind |-> "status", id |-> conn]
              [] Head(requests).cmd = "PING" -> Reply("PONG")
              [] Head(requests).cmd = "SCAN" -> Reply("OK"))
  /\ UNCHANGED << client, nets, conn, seen >>

\* The supplicant loses its connection or makes one.
Roam ==
  /\ IF conn = NoId
       THEN \E n \in DOMAIN nets : nets[n].on /\ Connected(n)
       ELSE Connected(NoId)
  /\ UNCHANGED << client, requests, inbox, nets >>

Next ==
  \/ Open \/ Close
  \/ \E c \in Call : CallClosed(c) \/ StartCall(c)
  \/ NextRequest \/ Drain \/ Send \/ SendFails \/ Receive \/ Timeout
  \/ ServeAdd \/ ServeSet \/ ServeSwitch \/ ServeQuery \/ Roam

Spec == Init /\ [][Next]_vars

----------------------------------------------------------------------------
(* Properties.                                                             *)

Command == {"ADD_NETWORK", "SET_NETWORK", "ENABLE_NETWORK", "SELECT_NETWORK", "DISABLE_NETWORK",
            "REMOVE_NETWORK", "STATUS", "PING", "SCAN"}
Request == [cmd : Command, field : Field \cup {"none"}, id : Id8,
            val : Station \cup {Updated}, live : BOOLEAN]

\* Types (204-809); the networks outlive the client's session.
TypeOK ==
  /\ phase \in {"closed", "idle", "drain", "send", "wait"}
  /\ late \in 0 .. MaxLate
  /\ result \in {"none", "own", "other", "fail"}
  /\ requests \in Seq(Request)
  /\ inbox \in Seq([kind : {"id", "OK", "FAIL", "PONG", "status"}, id : NetId \cup {NoId}])
  /\ call \in AnyCall /\ at \in 0 .. Len(Steps(call))
  /\ at = 0 \/ phase # "closed"
  /\ id \in Id8 /\ ret \in BOOLEAN
  /\ DOMAIN nets \subseteq NetId
  /\ \A n \in DOMAIN nets :
       nets[n] \in [cfg : [Field -> Station \cup {Unset, Updated}], on : BOOLEAN]
  /\ conn # NoId => conn \in DOMAIN nets /\ nets[conn].on
  /\ owned \subseteq Id8 /\ seen \subseteq NetId \cup {NoId} /\ unsent \subseteq Id8

\* The socket follows the protocol of WpaControl (331-363).
Control == INSTANCE WpaControl WITH
  program <- "library", ready <- Len(inbox), owed <- Owed

ImplementsControl == Control!Init /\ [][Control!Next]_Control!vars

\* No network has an id that the client's eight bits cannot hold.
IdsFit == DOMAIN nets \subseteq Id8

\* The last operation of the session was op and returned true.
Returned(op) == at = 0 /\ call.op = op /\ ret

FieldsOf(s) == {AddSteps(s)[i].field : i \in 2 .. Len(AddSteps(s))}

\* When station_add returns true in a session with at most one late answer, its
\* id names a network that has every setting of its station and no other: the
\* id may be that of an earlier call that was given up, but then the settings
\* are made on that network (405-495).  With two late answers, an id and an
\* "OK", it may return before its last setting is made.
AddedWhole ==
  Returned("add") /\ late <= 1 /\ IdsFit =>
    /\ id \in DOMAIN nets
    /\ \A f \in Field :
         nets[id].cfg[f] = IF f \in FieldsOf(call.station) THEN call.station ELSE Unset

\* A station_add that returns true in such a session has caught up with the
\* replies: none of them is left for a later request (348-353, 401-495).
AddCatchesUp == Returned("add") /\ late <= 1 => Owed = 0

\* No id is given to the caller twice unless it removed it (405-411), when the
\* first time there was at most one late answer in the session.  With more, an
\* earlier answer can name a network that is gone, whose number is given anew.
OwnedOnce ==
  [][Returned("add")' /\ at # 0 /\ IdsFit => id' \notin owned]_vars

\* In a session without late answers disconnect only disables a network that
\* was connected during the call (586-600).
DisconnectsConnected ==
  [][Send /\ call.op = "disconnect" /\ at = 2 /\ late = 0 /\ IdsFit => id \in seen]_vars

\* In a session without late answers a disconnect that was answered and
\* returns true has seen the supplicant without a connection (586-603).
DisconnectTold ==
  Returned("disconnect") /\ late = 0 /\ result = "own" => NoId \in seen

\* When station_remove_all returns, each network with an id in its loop is
\* gone, or will be when the requests on the way are served, or is one whose
\* own request could not be sent: the failure of another request does not keep
\* it.  The false the call returns says nothing (535-540).
RemovesAll ==
  call.op = "remove_all" /\ at = 0 =>
    \A n \in (DOMAIN nets \cap Id8) \ unsent :
      \E i \in DOMAIN requests : requests[i].cmd = "REMOVE_NETWORK" /\ requests[i].id = n
=============================================================================
