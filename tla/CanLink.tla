------------------------------ MODULE CanLink ------------------------------
(***************************************************************************)
(* The netlink library in can_scoket2.c and the processes that call it on  *)
(* one CAN device.  A library call is a short script of exchanges with the *)
(* kernel; each exchange opens a socket of its own, sends one request and  *)
(* waits for the answer, and between any two steps the device changes its  *)
(* state by itself and other processes configure it.                       *)
(*                                                                         *)
(* Values of attributes are numbers: the state as in enum can_state, a bit *)
(* timing by the number that tells it apart, the error counters by the     *)
(* state they put the device in.  A result of -1 is None here.             *)
(***************************************************************************)
EXTENDS Integers, Sequences

CONSTANTS
  Client,     \* the processes
  Calls,      \* the calls each process makes
  Bittiming,  \* bit timings the processes ask for, positive
  ImuBitrate, \* the bit timing of InitIMUCan
  RestartMs,  \* intervals of the automatic restart
  Drivers,    \* the attributes a device may report; {} has no link data
  MaxLeak,    \* bound: descriptors lost in open_nl_sock, per process
  None,       \* an absent attribute, an unused argument, a result of -1
  Junk        \* what a pointer left on the stack points to

CAN_STATE_ERROR_ACTIVE == 0
CAN_STATE_BUS_OFF      == 3
CAN_STATE_STOPPED      == 4

Attr == {"xstats", "state", "restart_ms", "bittiming", "ctrlmode", "clock",
         "bittiming_const", "berr_counter"}
IFLA_CAN_MAX == "berr_counter"

ASSUME CanAssumption ==
  /\ Bittiming \subseteq Nat \ {0} /\ ImuBitrate \in Bittiming
  /\ RestartMs \subseteq Nat /\ Drivers \subseteq SUBSET Attr
  /\ MaxLeak \in [Client -> Nat]
  /\ None \notin Int \cup {"IF_UP", "IF_DOWN"} /\ Junk \notin Int /\ Junk # None

VARIABLES
  link,    \* the device, in the kernel
  pc,      \* where each process is
  call,    \* the call it makes
  step,    \* the exchange of the call's script it is in
  res,     \* what the exchange has found so far: ret and *res
  told,    \* what the exchanges of the call returned last, and in the end the call
  fds,     \* the netlink sockets the process holds
  leaked,  \* how often open_nl_sock failed with a socket in its hands
  others   \* another process reconfigured the device during the call

----------------------------------------------------------------------------
(* The device and the kernel, which are outside the repository.            *)

Link == [present : BOOLEAN, up : BOOLEAN,
         state : {CAN_STATE_ERROR_ACTIVE, CAN_STATE_BUS_OFF, CAN_STATE_STOPPED},
         restart_ms : RestartMs \cup {0}, bittiming : Bittiming \cup {None}, ctrlmode : {0, 1},
         attrs : Drivers]

Down(l) == [l EXCEPT !.up = FALSE, !.state = CAN_STATE_STOPPED]
Up(l)   == IF l.up THEN l ELSE [l EXCEPT !.up = TRUE, !.state = CAN_STATE_ERROR_ACTIVE]

\* What the device reports under an attribute.
Reported(l, a) ==
  CASE a \notin l.attrs    -> None
    [] a = "restart_ms"    -> l.restart_ms
    [] a = "bittiming"     -> l.bittiming
    [] a = "ctrlmode"      -> l.ctrlmode
    [] a \in {"state", "berr_counter", "xstats"} -> l.state
    [] OTHER               -> 0

\* A device takes a configuration only while it is down, and a restart only
\* in BUS_OFF with the automatic restart turned off.
Accepts(l, rq) ==
  /\ l.present
  /\ rq.if_state = "IF_UP" => l.bittiming # None
  /\ rq.bittiming # None \/ rq.ctrlmode # None \/ rq.restart_ms # None => l.attrs # {} /\ ~l.up
  /\ rq.restart => l.attrs # {} /\ l.up /\ l.state = CAN_STATE_BUS_OFF /\ l.restart_ms = 0

Applied(l, rq) ==
  LET m == [l EXCEPT
        !.restart_ms = IF rq.restart_ms # None THEN rq.restart_ms ELSE @,
        !.bittiming  = IF rq.bittiming # None THEN rq.bittiming ELSE @,
        !.ctrlmode   = IF rq.ctrlmode # None THEN rq.ctrlmode ELSE @,
        !.state      = IF rq.restart THEN CAN_STATE_ERROR_ACTIVE ELSE @]
  IN CASE rq.if_state = "IF_UP" -> Up(m)
       [] rq.if_state = "IF_DOWN" -> Down(m)
       [] OTHER -> m

\* What the device does by itself: it falls off the bus, restarts by the
\* interval, or is unplugged.
Moved(l) ==
  {m \in {[l EXCEPT !.state = CAN_STATE_BUS_OFF]} : l.state = CAN_STATE_ERROR_ACTIVE}
  \cup {m \in {[l EXCEPT !.state = CAN_STATE_ERROR_ACTIVE]} :
          l.state = CAN_STATE_BUS_OFF /\ l.restart_ms > 0}
  \cup {m \in {[Down(l) EXCEPT !.present = FALSE]} : l.present}

----------------------------------------------------------------------------
(* Exchanges, and the scripts of the calls.                                *)

NoInfo == [restart |-> FALSE, disable_autorestart |-> FALSE, restart_ms |-> 0,
           bittiming |-> None, ctrlmode |-> None]

get_link(a)           == [kind |-> "get", attr |-> a, if_state |-> None, info |-> NoInfo]
set_link(state, info) == [kind |-> "set", attr |-> None, if_state |-> state, info |-> info]
Io(k)                 == [kind |-> k, attr |-> None, if_state |-> None, info |-> NoInfo]

can_do_start          == set_link("IF_UP", NoInfo)
can_do_stop           == set_link("IF_DOWN", NoInfo)
can_set_ctrlmode(m)   == set_link(None, [NoInfo EXCEPT !.ctrlmode = m])
can_set_bittiming(bt) == set_link(None, [NoInfo EXCEPT !.bittiming = bt])
can_set_bitrate(rate) == can_set_bittiming(rate)
can_set_bitrate_samplepoint(bt) == can_set_bittiming(bt)
RestartNow            == set_link(None, [NoInfo EXCEPT !.restart = TRUE])

\* Faulty can_set_restart_ms: turning the automatic restart off is not marked.
SetRestartMsUnmarked(ms) == set_link(None, [NoInfo EXCEPT !.restart_ms = ms])

can_set_restart_ms(ms) ==
  set_link(None, [NoInfo EXCEPT !.restart_ms = ms, !.disable_autorestart = (ms = 0)])

\* The attribute each getter asks for.
Getter == [can_get_state           |-> "state",
           can_get_restart_ms      |-> "restart_ms",
           can_get_bittiming       |-> "bittiming",
           can_get_ctrlmode        |-> "ctrlmode",
           can_get_clock           |-> "clock",
           can_get_bittiming_const |-> "bittiming_const",
           can_get_berr_counter    |-> "berr_counter",
           can_get_device_stats    |-> "xstats"]

\* The attributes that do_set_nl_link puts into the request.
Request(e) ==
  [if_state   |-> e.if_state,
   restart_ms |-> IF e.info.restart_ms > 0 \/ e.info.disable_autorestart
                  THEN e.info.restart_ms ELSE None,
   restart    |-> e.info.restart,
   bittiming  |-> e.info.bittiming,
   ctrlmode   |-> e.info.ctrlmode]

Script(k) ==
  CASE k.op = "can_do_start"       -> << can_do_start >>
    [] k.op = "can_do_stop"        -> << can_do_stop >>
    [] k.op = "can_set_ctrlmode"   -> << can_set_ctrlmode(k.arg) >>
    [] k.op = "can_set_bitrate"    -> << can_set_bitrate(k.arg) >>
    [] k.op = "can_set_bittiming"  -> << can_set_bittiming(k.arg) >>
    [] k.op = "can_set_bitrate_samplepoint" -> << can_set_bitrate_samplepoint(k.arg) >>
    [] k.op = "can_set_restart_ms" -> << can_set_restart_ms(k.arg) >>
    [] k.op = "can_do_restart"     -> << get_link("state"), get_link("restart_ms"), RestartNow >>
    [] k.op = "InitIMUCan"         -> << can_do_stop, can_set_bitrate(ImuBitrate), can_do_start >>
    [] k.op = "main"               -> << can_set_bitrate(k.arg), can_do_start,
                                         Io("sockets"), can_do_stop >>
    [] k.op \in DOMAIN Getter      -> << get_link(Getter[k.op]) >>
    [] OTHER                       -> << >>

\* The calls of the library and of its users InitIMUCan and main.
Call ==
  [op : {"can_do_start", "can_do_stop", "can_do_restart", "InitIMUCan"} \cup DOMAIN Getter, arg : {None}]
  \cup [op : {"can_set_bittiming", "can_set_bitrate", "can_set_bitrate_samplepoint", "main"},
        arg : Bittiming]
  \cup [op : {"can_set_restart_ms"}, arg : RestartMs]
  \cup [op : {"can_set_ctrlmode"}, arg : {0, 1}]

ASSUME CallAssumption == Calls \in [Client -> SUBSET Call]

NoCall == [op |-> None, arg |-> None]

Exchange(c) == Script(call[c])[step[c]]

\* Faulty Proceed: InitIMUCan goes on when a step failed.
ProceedAnyway(k, n, r) ==
  CASE k.op = "can_do_restart" -> r = IF n = 1 THEN CAN_STATE_BUS_OFF ELSE 0
    [] OTHER                   -> TRUE

\* Whether a call goes on after its n-th exchange returned r: can_do_restart
\* tests what it read, InitIMUCan that each step worked, main nothing.
Proceed(k, n, r) ==
  CASE k.op = "can_do_restart" -> r = IF n = 1 THEN CAN_STATE_BUS_OFF ELSE 0
    [] k.op = "InitIMUCan"     -> r # None
    [] OTHER                   -> TRUE

\* What the caller gets when the call ends with its n-th exchange, which returned r:
\* can_do_restart returns -1 unless it came to the restart, main says nothing.
Result(k, n, r) ==
  IF k.op = "main" \/ (k.op = "can_do_restart" /\ n < 3) THEN None ELSE r

\* The exchange of c returns r, and the call goes on or returns.
Returns(c, r) ==
  /\ res' = [res EXCEPT ![c] = None]
  /\ IF step[c] < Len(Script(call[c])) /\ Proceed(call[c], step[c], r)
     THEN /\ step' = [step EXCEPT ![c] = @ + 1]
          /\ pc' = [pc EXCEPT ![c] = IF Script(call[c])[step[c] + 1].kind = "sockets"
                                     THEN "sockets" ELSE "open"]
          /\ told' = [told EXCEPT ![c] = r]
     ELSE /\ pc' = [pc EXCEPT ![c] = "done"]
          /\ told' = [told EXCEPT ![c] = Result(call[c], step[c], r)]
          /\ UNCHANGED step
  /\ UNCHANGED call

\* The exchange ends: get_link and set_link close its socket.
Finish(c, r) == Returns(c, r) /\ fds' = [fds EXCEPT ![c] = @ - 1] /\ UNCHANGED leaked

At(c, label) == pc[c] = label
Goto(c, label) == pc' = [pc EXCEPT ![c] = label]

----------------------------------------------------------------------------
Init ==
  /\ link \in [present : {TRUE}, up : {FALSE}, state : {CAN_STATE_STOPPED}, restart_ms : {0},
              bittiming : {None}, ctrlmode : {0}, attrs : Drivers]
  /\ pc = [c \in Client |-> "idle"]
  /\ call = [c \in Client |-> NoCall]
  /\ step = [c \in Client |-> 1]
  /\ res = [c \in Client |-> None]
  /\ told = [c \in Client |-> None]
  /\ fds = [c \in Client |-> 0]
  /\ leaked = [c \in Client |-> 0]
  /\ others = [c \in Client |-> FALSE]

Begin(c, k) ==
  /\ At(c, "idle") /\ Goto(c, "open")
  /\ call' = [call EXCEPT ![c] = k]
  /\ UNCHANGED << link, step, res, told, fds, leaked, others >>

\* The caller has used the result.
Leave(c) ==
  /\ At(c, "done") /\ Goto(c, "idle")
  /\ call' = [call EXCEPT ![c] = NoCall]
  /\ step' = [step EXCEPT ![c] = 1]
  /\ told' = [told EXCEPT ![c] = None]
  /\ others' = [others EXCEPT ![c] = FALSE]
  /\ UNCHANGED << link, res, fds, leaked >>

OpenSock(c) ==
  /\ At(c, "open")
  /\ Goto(c, IF Exchange(c).kind = "get" THEN "dump" ELSE "index")
  /\ fds' = [fds EXCEPT ![c] = @ + 1]
  /\ UNCHANGED << link, call, step, res, told, leaked, others >>

\* open_nl_sock fails in socket(), or behind it and keeps the descriptor.
OpenFails(c) ==
  /\ At(c, "open")
  /\ Returns(c, None)
  /\ UNCHANGED << link, fds, leaked, others >>

OpenLeaks(c) ==
  /\ At(c, "open") /\ leaked[c] < MaxLeak[c]
  /\ leaked' = [leaked EXCEPT ![c] = @ + 1]
  /\ fds' = [fds EXCEPT ![c] = @ + 1]
  /\ Returns(c, None)
  /\ UNCHANGED << link, others >>

----------------------------------------------------------------------------
(* do_set_nl_link and send_mod_request.                                    *)

\* if_nametoindex finds the device, or the exchange fails.
Lookup(c) ==
  /\ At(c, "index")
  /\ IF link.present
     THEN Goto(c, "modify") /\ UNCHANGED << call, step, res, told, fds, leaked >>
     ELSE Finish(c, None)
  /\ UNCHANGED << link, others >>

\* The kernel carries a request of c out while sendmsg runs and leaves the
\* acknowledgement in the socket.
Grant(c, rq) ==
  /\ Accepts(link, rq)
  /\ link' = Applied(link, rq)
  /\ res' = [res EXCEPT ![c] = 0]
  /\ others' = [p \in Client |-> others[p] \/ (p # c /\ call[p].op = "InitIMUCan")]
  /\ UNCHANGED << call, step, told, fds, leaked >>

Granted(c) ==
  /\ At(c, "modify") /\ Goto(c, "ack")
  /\ Grant(c, Request(Exchange(c)))

\* It refuses the request, for a reason of its own too.
Refused(c) ==
  /\ At(c, "modify") /\ Goto(c, "ack")
  /\ UNCHANGED << link, call, step, res, told, fds, leaked, others >>

SendFails(c) ==
  /\ At(c, "modify") \/ At(c, "dump")
  /\ Finish(c, None)
  /\ UNCHANGED << link, others >>

\* Faulty Acknowledge: a failed receive leaves without the close.
AcknowledgeKeepsSocket(c) ==
  /\ At(c, "ack")
  /\ Finish(c, res[c]) \/ (Returns(c, None) /\ UNCHANGED << fds, leaked >>)
  /\ UNCHANGED << link, others >>

\* The answer is received; or recvmsg fails, which leaves -1 bytes of an old
\* buffer and ends as a malformed message, whatever the kernel did.
Acknowledge(c) ==
  /\ At(c, "ack")
  /\ Finish(c, res[c]) \/ Finish(c, None)
  /\ UNCHANGED << link, others >>

----------------------------------------------------------------------------
(* do_get_nl_link.                                                         *)

\* Faulty ParseAttr: an attribute the message lacks counts as zero.
ParseAttrZero(a) == {IF Reported(link, a) = None THEN 0 ELSE Reported(link, a)}

\* What the parsed table holds for an attribute: parse_rtattr clears all
\* entries but the last, whose old content then passes for a pointer.
ParseAttr(a) ==
  IF a = IFLA_CAN_MAX /\ a \notin link.attrs
  THEN {None, Junk}
  ELSE {Reported(link, a)}

\* The message about the device: without link data the search ends there.
DeviceMessage(c) ==
  /\ At(c, "dump") /\ link.present
  /\ IF link.attrs = {} /\ Exchange(c).attr # "xstats"
     THEN Finish(c, None)
     ELSE /\ \E v \in ParseAttr(Exchange(c).attr) : res' = [res EXCEPT ![c] = v]
          /\ Goto(c, "rest")
          /\ UNCHANGED << call, step, told, fds, leaked >>
  /\ UNCHANGED << link, others >>

\* The old pointer leads nowhere.
Crash(c) ==
  /\ At(c, "dump") /\ link.present
  /\ link.attrs # {} /\ Junk \in ParseAttr(Exchange(c).attr)
  /\ Goto(c, "dead")
  /\ fds' = [fds EXCEPT ![c] = 0]
  /\ leaked' = [leaked EXCEPT ![c] = 0]
  /\ UNCHANGED << link, call, step, res, told, others >>

\* NLMSG_DONE behind the messages, or recvmsg failing before or behind ours:
\* the loop ends and ret is what it is.
DumpEnds(c) ==
  /\ At(c, "dump") \/ At(c, "rest")
  /\ Finish(c, res[c])
  /\ UNCHANGED << link, others >>

\* A message did not fit.
DumpTruncated(c) ==
  /\ At(c, "dump") \/ At(c, "rest")
  /\ Finish(c, None)
  /\ UNCHANGED << link, others >>

\* The kernel refuses the dump: its NLMSG_ERROR is skipped like the message
\* of another device, and there is no NLMSG_DONE to come.
DumpRefused(c) ==
  /\ At(c, "dump") /\ Goto(c, "hung")
  /\ UNCHANGED << link, call, step, res, told, fds, leaked, others >>

----------------------------------------------------------------------------
(* The loopback test of main between the set-up and the stop, told for one *)
(* of its two devices: it gets CAN sockets, writes a frame on one device    *)
(* and reads it on the other.                                              *)

\* A socket, or the index of a device that is gone, fails and main returns.
Sockets(c) ==
  /\ At(c, "sockets")
  /\ \/ link.present /\ Goto(c, "write") /\ UNCHANGED told
     \/ Goto(c, "done") /\ told' = [told EXCEPT ![c] = None]
  /\ UNCHANGED << link, call, step, res, fds, leaked, others >>

\* Written or not: a failed write counts -1, which is no small unsigned
\* number, and the loop ends as after a whole frame.
Write(c) ==
  /\ At(c, "write") /\ Goto(c, "read")
  /\ UNCHANGED << link, call, step, res, told, fds, leaked, others >>

\* A frame arrives, ours or another node's, or read fails; the stop is next.
Read(c) ==
  /\ At(c, "read") /\ Goto(c, "open")
  /\ step' = [step EXCEPT ![c] = @ + 1]
  /\ UNCHANGED << link, call, res, told, fds, leaked, others >>

----------------------------------------------------------------------------
Set(c)  == Lookup(c) \/ Granted(c) \/ Refused(c) \/ Acknowledge(c)
Get(c)  == DeviceMessage(c) \/ Crash(c) \/ DumpEnds(c) \/ DumpTruncated(c) \/ DumpRefused(c)
Main(c) == Sockets(c) \/ Write(c) \/ Read(c)

ClientStep(c) ==
  \/ OpenSock(c) \/ OpenFails(c) \/ OpenLeaks(c)
  \/ Set(c) \/ SendFails(c) \/ Get(c) \/ Main(c)

vars == << link, pc, call, step, res, told, fds, leaked, others >>

Device ==
  /\ link' \in Moved(link)
  /\ UNCHANGED << pc, call, step, res, told, fds, leaked, others >>

Next ==
  \/ Device
  \/ \E c \in Client :
       \/ ClientStep(c) \/ Leave(c)
       \/ \E k \in Calls[c] : Begin(c, k)

Spec == Init /\ [][Next]_vars

----------------------------------------------------------------------------
Labels == {"idle", "open", "index", "modify", "ack", "dump", "rest", "sockets",
           "write", "read", "hung", "dead", "done"}
InExchange == {"index", "modify", "ack", "dump", "rest", "hung"}

Values == Int \cup {None, Junk}

\* Whatever fails, a process holds one netlink socket during an exchange and
\* none between two of them, apart from those open_nl_sock lost (421-462,
\* 674-687, 804-816).
FdsBalanced ==
  \A c \in Client : fds[c] = leaked[c] + IF pc[c] \in InExchange THEN 1 ELSE 0

\* InitIMUCan returns true only with the device up at the bit rate of the IMU,
\* unless another process reconfigured the device meanwhile or it was unplugged
\* (can_scoket1.c:49-69 over can_scoket2.c).
InitConfigured ==
  \A c \in Client :
    pc[c] = "done" /\ call[c].op = "InitIMUCan" /\ told[c] = 0 /\ ~others[c] /\ link.present
      => link.up /\ link.bittiming = ImuBitrate

\* can_get_berr_counter stores the error counters of the device, or returns -1.
BerrReported ==
  \A c \in Client :
    pc[c] = "done" /\ call[c].op = "can_get_berr_counter" => told[c] # Junk
============================================================================
