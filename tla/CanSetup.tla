------------------------------ MODULE CanSetup ------------------------------
(***************************************************************************)
(* The command-line tools that configure the same device: can-setup.cc,    *)
(* with a copy of the netlink code, and can_scoket3.c, on libmnl.  A run of *)
(* a tool is a call of its process that starts at "tool" instead of "open"; *)
(* the module composes them with the callers of the library (CanLink) and  *)
(* shows that together they implement LinkRegister.                        *)
(***************************************************************************)
EXTENDS CanLink

CONSTANT Runs  \* the command lines each process runs

Run ==
  [op : {"can-setup --up", "can-setup --down", "can_scoket3 up", "can_scoket3 down"}, arg : {None}]
  \cup [op : {"can-setup --bitrate"}, arg : Bittiming \cup {0}]

ASSUME RunAssumption ==
  /\ Runs \in [Client -> SUBSET Run]
  /\ \A k \in Call \cup Run, n \in 1 .. 4 : << k, n >> # None

Bitrate(k) == k.op = "can-setup --bitrate" /\ k.arg # 0

\* The request of a command line: a bit rate that atoi makes zero is no option.
ToolRequest(k) ==
  Request(CASE k.op \in {"can-setup --up", "can_scoket3 up"}     -> can_do_start
            [] k.op \in {"can-setup --down", "can_scoket3 down"} -> can_do_stop
            [] OTHER                                             -> can_set_bitrate(k.arg))

Ours(c) == call[c].op \in {"can-setup --up", "can-setup --down", "can-setup --bitrate"}

\* The process exits; the system closes its socket.
Exit(c, r) ==
  /\ Goto(c, "done")
  /\ told' = [told EXCEPT ![c] = r]
  /\ res' = [res EXCEPT ![c] = None]
  /\ UNCHANGED << link, call, step, fds, leaked, others >>

RunTool(c, k) ==
  /\ At(c, "idle") /\ Goto(c, "tool")
  /\ call' = [call EXCEPT ![c] = k]
  /\ UNCHANGED << link, step, res, told, fds, leaked, others >>

\* can-setup opens its socket before it looks at the options, and asserts that
\* the socket takes its options; a socket it did not get fails the request.
SetupOpen(c) ==
  /\ At(c, "tool") /\ Ours(c)
  /\ \/ Exit(c, None)
     \/ /\ Bitrate(call[c]) \/ call[c].op # "can-setup --bitrate"
        /\ Goto(c, "tool index")
        /\ UNCHANGED << link, call, step, res, told, fds, leaked, others >>

SetupLookup(c) ==
  /\ At(c, "tool index")
  /\ IF link.present
     THEN /\ Goto(c, "tool modify")
          /\ UNCHANGED << link, call, step, res, told, fds, leaked, others >>
     ELSE Exit(c, None)

\* The kernel grants or refuses the request, or it cannot be sent.
Send(c) ==
  \/ Goto(c, "tool ack") /\ Grant(c, ToolRequest(call[c]))
  \/ /\ Goto(c, "tool ack")
     /\ UNCHANGED << link, call, step, res, told, fds, leaked, others >>
  \/ Exit(c, None)

SetupModify(c) == At(c, "tool modify") /\ Send(c)

\* The acknowledgement arrives, or recvmsg fails as in CanLink.
SetupAck(c) == At(c, "tool ack") /\ Ours(c) /\ (Exit(c, res[c]) \/ Exit(c, None))

\* libmnl names the device in the request and needs no index.
MnlOpen(c) ==
  /\ At(c, "tool") /\ ~Ours(c)
  /\ \/ Exit(c, None)
     \/ /\ Goto(c, "tool send")
        /\ UNCHANGED << link, call, step, res, told, fds, leaked, others >>

MnlSend(c) == At(c, "tool send") /\ Send(c)

\* mnl_cb_run finds sequence number and port of the request in the answer.
MnlAck(c) == At(c, "tool ack") /\ ~Ours(c) /\ (Exit(c, res[c]) \/ Exit(c, None))

ToolStep(c) ==
  \/ SetupOpen(c) \/ SetupLookup(c) \/ SetupModify(c) \/ SetupAck(c)
  \/ MnlOpen(c) \/ MnlSend(c) \/ MnlAck(c)

SetupNext == Next \/ \E c \in Client : ToolStep(c) \/ \E k \in Runs[c] : RunTool(c, k)

SetupSpec == Init /\ [][SetupNext]_vars

----------------------------------------------------------------------------
ToolLabels == {"tool", "tool index", "tool modify", "tool send", "tool ack"}

Shape ==
  /\ link \in Link
  /\ pc \in [Client -> Labels \cup ToolLabels]
  /\ call \in [Client -> Call \cup Run \cup {NoCall}]
  /\ step \in [Client -> 1 .. 4]
  /\ res \in [Client -> Values] /\ told \in [Client -> Values]
  /\ fds \in [Client -> Nat] /\ leaked \in [Client -> Nat]
  /\ others \in [Client -> BOOLEAN]

InCall == InExchange \cup {"open", "sockets", "write", "read"}

\* Where c is, against the script of its call and what it has in its hands.
Place(c) ==
  /\ pc[c] = "idle" => step[c] = 1
  /\ pc[c] \in ToolLabels => call[c] \in Run /\ (pc[c] # "tool" => call[c].arg # 0)
  /\ pc[c] \in InCall =>
       /\ call[c] \in Call /\ step[c] \in 1 .. Len(Script(call[c]))
       /\ pc[c] \in {"sockets", "write", "read"} <=> Exchange(c).kind = "sockets"
       /\ pc[c] \in {"index", "modify", "ack"} => Exchange(c).kind = "set"
       /\ pc[c] \in {"dump", "rest", "hung"} => Exchange(c).kind = "get"
  /\ pc[c] \notin {"ack", "rest", "tool ack"} => res[c] = None

TypeOK == Shape /\ \A c \in Client : Place(c)

----------------------------------------------------------------------------
(* The atomic register.                                                    *)

\* What the n-th exchange of a call is for, in the words of its callers.
Purpose(k, n) ==
  CASE k.op \in {"can_do_start", "can-setup --up", "can_scoket3 up"}    -> "up"
    [] k.op \in {"can_do_stop", "can-setup --down", "can_scoket3 down"} -> "down"
    [] k.op \in {"can_set_bittiming", "can_set_bitrate", "can_set_bitrate_samplepoint",
                 "can-setup --bitrate"}                                 -> "bitrate"
    [] k.op = "can_do_restart" -> << "state", "restart_ms", "restart" >>[n]
    [] k.op = "InitIMUCan"     -> << "down", "bitrate", "up" >>[n]
    [] k.op = "main"           -> << "bitrate", "up", "sockets", "down" >>[n]
    [] k.op \in DOMAIN Getter  -> Getter[k.op]
    [] OTHER                   -> k.op

\* What an exchange for the purpose p may do to a device and return: a restart
\* does nothing unless it meets a device in BUS_OFF that does not restart.
Effects(k, p, l) ==
  CASE p = "up"      -> {<< Up(l), 0 >>}
    [] p = "down"    -> {<< Down(l), 0 >>}
    [] p = "restart" -> IF l.state = CAN_STATE_BUS_OFF /\ l.restart_ms = 0
                        THEN {<< [l EXCEPT !.state = CAN_STATE_ERROR_ACTIVE], 0 >>} ELSE {}
    [] p = "bitrate" -> {<< [l EXCEPT !.bittiming = IF k.op = "InitIMUCan" THEN ImuBitrate ELSE k.arg], 0 >>}
    [] p = "can_set_restart_ms" -> {<< [l EXCEPT !.restart_ms = k.arg], 0 >>}
    [] p = "can_set_ctrlmode"   -> {<< [l EXCEPT !.ctrlmode = k.arg], 0 >>}
    [] p = IFLA_CAN_MAX /\ p \notin l.attrs -> {<< l, Junk >>}
    [] OTHER                    -> {<< l, Reported(l, p) >>}

Wanted(t, l) == Effects(t[1], Purpose(t[1], t[2]), l)

Busy(c) == pc[c] \in InExchange \cup ToolLabels \cup {"open"}

Register == INSTANCE LinkRegister WITH
  Effect <- Wanted,
  task   <- [c \in Client |-> IF Busy(c) \/ pc[c] \in {"rest", "dead"} THEN << call[c], step[c] >> ELSE None],
  got    <- res

\* Every exchange of the library and of the tools, whatever else happens to
\* the device and whichever system call fails, is an operation of the atomic
\* register: a result of 0 stands for the whole request carried out, a value
\* read is one the device had during the call, and a restart that was
\* acknowledged met a device in BUS_OFF whose automatic restart was off,
\* although it is checked on other sockets before (483-657, 710-784, 871-903).
ImplementsRegister == Register!Spec
=============================================================================
