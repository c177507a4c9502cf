-------------------------- MODULE CanSetup_proofs --------------------------
(***************************************************************************)
(* The library and the tools, for every set of processes, calls and        *)
(* devices: types, sockets, InitIMUCan, and that every exchange is an      *)
(* operation of the atomic register.                                       *)
(***************************************************************************)
EXTENDS CanSetup, TLAPS

----------------------------------------------------------------------------
(* Scripts.                                                                *)

Exchanges ==
  [kind : {"get", "set", "sockets"}, attr : Attr \cup {None}, if_state : {"IF_UP", "IF_DOWN", None},
   info : [restart : BOOLEAN, disable_autorestart : BOOLEAN, restart_ms : RestartMs \cup {0},
           bittiming : Bittiming \cup {None}, ctrlmode : {0, 1, None}]]

\* No value that goes into a request is the one for an attribute left out.
LEMMA ArgNotNone ==
  /\ None # 0 /\ None # 1 /\ ImuBitrate # None
  /\ \A b \in Bittiming \cup RestartMs : b # None
  <1>1. ASSUME NEW x \in Int PROVE x # None
    <2>1. None \notin Int
      BY CanAssumption, Zenon DEF CanAssumption
    <2> QED
      BY <2>1, Zenon
  <1>2. Bittiming \subseteq Nat /\ RestartMs \subseteq Nat /\ ImuBitrate \in Bittiming
    BY CanAssumption
  <1>3. Nat \subseteq Int /\ 0 \in Nat /\ 1 \in Nat
    OBVIOUS
  <1> QED
    BY <1>1, <1>2, <1>3, Zenon

LEMMA ExchangeTypes ==
  /\ \A a \in Attr : get_link(a) \in Exchanges /\ get_link(a).kind = "get"
  /\ Io("sockets") \in Exchanges /\ Io("sockets").kind = "sockets"
  /\ can_do_start \in Exchanges /\ can_do_start.kind = "set"
  /\ can_do_stop \in Exchanges /\ can_do_stop.kind = "set"
  /\ RestartNow \in Exchanges /\ RestartNow.kind = "set"
  /\ \A b \in Bittiming : can_set_bittiming(b) \in Exchanges /\ can_set_bittiming(b).kind = "set"
  /\ \A m \in {0, 1} : can_set_ctrlmode(m) \in Exchanges /\ can_set_ctrlmode(m).kind = "set"
  /\ \A ms \in RestartMs : can_set_restart_ms(ms) \in Exchanges /\ can_set_restart_ms(ms).kind = "set"
  BY CanAssumption
  DEF get_link, Io, can_do_start, can_do_stop, RestartNow, can_set_bittiming, can_set_ctrlmode,
      can_set_restart_ms, set_link, NoInfo, Exchanges, Attr

LEMMA GetterTypes == \A g \in DOMAIN Getter : Getter[g] \in Attr
  BY DEF Getter, Attr

LEMMA ScriptOf ==
  ASSUME NEW k
  PROVE  /\ k.op = "can_do_start" => Script(k) = << can_do_start >>
         /\ k.op = "can_do_stop" => Script(k) = << can_do_stop >>
         /\ k.op = "can_set_ctrlmode" => Script(k) = << can_set_ctrlmode(k.arg) >>
         /\ k.op \in {"can_set_bitrate", "can_set_bittiming", "can_set_bitrate_samplepoint"} =>
              Script(k) = << can_set_bittiming(k.arg) >>
         /\ k.op = "can_set_restart_ms" => Script(k) = << can_set_restart_ms(k.arg) >>
         /\ k.op = "can_do_restart" =>
              Script(k) = << get_link("state"), get_link("restart_ms"), RestartNow >>
         /\ k.op = "InitIMUCan" =>
              Script(k) = << can_do_stop, can_set_bittiming(ImuBitrate), can_do_start >>
         /\ k.op = "main" =>
              Script(k) = << can_set_bittiming(k.arg), can_do_start, Io("sockets"), can_do_stop >>
         /\ k.op \in DOMAIN Getter => Script(k) = << get_link(Getter[k.op]) >>
  <1>1. k.op \in DOMAIN Getter => Script(k) = << get_link(Getter[k.op]) >>
    BY DEF Script, Getter
  <1>2. k.op = "can_do_start" => Script(k) = << can_do_start >>
    BY DEF Script, Getter
  <1>3. k.op = "can_do_stop" => Script(k) = << can_do_stop >>
    BY DEF Script, Getter
  <1>4. k.op = "can_set_ctrlmode" => Script(k) = << can_set_ctrlmode(k.arg) >>
    BY DEF Script, Getter
  <1>5. k.op \in {"can_set_bitrate", "can_set_bittiming", "can_set_bitrate_samplepoint"} =>
          Script(k) = << can_set_bittiming(k.arg) >>
    BY DEF Script, Getter, can_set_bitrate, can_set_bitrate_samplepoint
  <1>6. k.op = "can_set_restart_ms" => Script(k) = << can_set_restart_ms(k.arg) >>
    BY DEF Script, Getter
  <1>7. k.op = "can_do_restart" =>
          Script(k) = << get_link("state"), get_link("restart_ms"), RestartNow >>
    BY DEF Script, Getter
  <1>8. k.op = "InitIMUCan" =>
          Script(k) = << can_do_stop, can_set_bittiming(ImuBitrate), can_do_start >>
    BY DEF Script, Getter, can_set_bitrate
  <1>9. k.op = "main" =>
          Script(k) = << can_set_bittiming(k.arg), can_do_start, Io("sockets"), can_do_stop >>
    BY DEF Script, Getter, can_set_bitrate
  <1> QED
    BY <1>1, <1>2, <1>3, <1>4, <1>5, <1>6, <1>7, <1>8, <1>9

\* The calls by the length of their scripts.
LEMMA CallCases ==
  ASSUME NEW k \in Call
  PROVE  \/ k.op = "can_do_start" \/ k.op = "can_do_stop" \/ k.op = "can_do_restart"
         \/ k.op = "InitIMUCan" \/ k.op \in DOMAIN Getter
         \/ (k.op \in {"can_set_bittiming", "can_set_bitrate", "can_set_bitrate_samplepoint"}
             /\ k.arg \in Bittiming)
         \/ (k.op = "main" /\ k.arg \in Bittiming)
         \/ (k.op = "can_set_restart_ms" /\ k.arg \in RestartMs)
         \/ (k.op = "can_set_ctrlmode" /\ k.arg \in {0, 1})
  BY DEF Call

LEMMA Short ==
  ASSUME NEW S, NEW a \in S, NEW b \in S, NEW d \in S, NEW e \in S
  PROVE  /\ << a >> \in Seq(S) /\ Len(<< a >>) = 1
         /\ << a, b, d >> \in Seq(S) /\ Len(<< a, b, d >>) = 3
         /\ << a, b, d, e >> \in Seq(S) /\ Len(<< a, b, d, e >>) = 4
  OBVIOUS

LEMMA ScriptType ==
  ASSUME NEW k \in Call
  PROVE  Script(k) \in Seq(Exchanges) /\ Len(Script(k)) \in 1 .. 4
  <1>0. "state" \in Attr /\ "restart_ms" \in Attr
    BY DEF Attr
  <1>1. CASE k.op = "can_do_start"
    <2>1. Script(k) = << can_do_start >>
      BY <1>1, ScriptOf
    <2>2. {can_do_start} \subseteq Exchanges
      BY <1>1, ExchangeTypes
    <2> QED
      BY <2>1, <2>2, Short
  <1>2. CASE k.op = "can_do_stop"
    <2>1. Script(k) = << can_do_stop >>
      BY <1>2, ScriptOf
    <2>2. {can_do_stop} \subseteq Exchanges
      BY <1>2, ExchangeTypes
    <2> QED
      BY <2>1, <2>2, Short
  <1>3. CASE k.op = "can_do_restart"
    <2>1. Script(k) = << get_link("state"), get_link("restart_ms"), RestartNow >>
      BY <1>3, ScriptOf
    <2>2. {get_link("state"), get_link("restart_ms"), RestartNow} \subseteq Exchanges
      BY <1>3, <1>0, ExchangeTypes
    <2> QED
      BY <2>1, <2>2, Short
  <1>4. CASE k.op = "InitIMUCan"
    <2>1. Script(k) = << can_do_stop, can_set_bittiming(ImuBitrate), can_do_start >>
      BY <1>4, ScriptOf
    <2>2. {can_do_stop, can_set_bittiming(ImuBitrate), can_do_start} \subseteq Exchanges
      BY <1>4, CanAssumption, ExchangeTypes
    <2> QED
      BY <2>1, <2>2, Short
  <1>5. CASE k.op \in DOMAIN Getter
    <2>1. Script(k) = << get_link(Getter[k.op]) >>
      BY <1>5, ScriptOf
    <2>2. {get_link(Getter[k.op])} \subseteq Exchanges
      BY <1>5, GetterTypes, ExchangeTypes
    <2> QED
      BY <2>1, <2>2, Short
  <1>6. CASE k.op \in {"can_set_bittiming", "can_set_bitrate", "can_set_bitrate_samplepoint"} /\ k.arg \in Bittiming
    <2>1. Script(k) = << can_set_bittiming(k.arg) >>
      BY <1>6, ScriptOf
    <2>2. {can_set_bittiming(k.arg)} \subseteq Exchanges
      BY <1>6, ExchangeTypes
    <2> QED
      BY <2>1, <2>2, Short
  <1>7. CASE k.op = "main" /\ k.arg \in Bittiming
    <2>1. Script(k) = << can_set_bittiming(k.arg), can_do_start, Io("sockets"), can_do_stop >>
      BY <1>7, ScriptOf
    <2>2. {can_set_bittiming(k.arg), can_do_start, Io("sockets"), can_do_stop} \subseteq Exchanges
      BY <1>7, ExchangeTypes
    <2> QED
      BY <2>1, <2>2, Short
  <1>8. CASE k.op = "can_set_restart_ms" /\ k.arg \in RestartMs
    <2>1. Script(k) = << can_set_restart_ms(k.arg) >>
      BY <1>8, ScriptOf
    <2>2. {can_set_restart_ms(k.arg)} \subseteq Exchanges
      BY <1>8, ExchangeTypes
    <2> QED
      BY <2>1, <2>2, Short
  <1>9. CASE k.op = "can_set_ctrlmode" /\ k.arg \in {0, 1}
    <2>1. Script(k) = << can_set_ctrlmode(k.arg) >>
      BY <1>9, ScriptOf
    <2>2. {can_set_ctrlmode(k.arg)} \subseteq Exchanges
      BY <1>9, ExchangeTypes
    <2> QED
      BY <2>1, <2>2, Short
  <1> QED
    BY <1>1, <1>2, <1>3, <1>4, <1>5, <1>6, <1>7, <1>8, <1>9, CallCases

\* The loopback test is neither the first nor the last part of a script.
LEMMA SocketsInside ==
  ASSUME NEW k \in Call, NEW n \in 1 .. Len(Script(k)), Script(k)[n].kind = "sockets"
  PROVE  n # 1 /\ n + 1 \in 1 .. Len(Script(k)) /\ Script(k)[n + 1].kind # "sockets"
  <1>0. "state" \in Attr /\ "restart_ms" \in Attr
    BY DEF Attr
  <1>1. CASE k.op = "can_do_start"
    BY <1>1, ScriptOf, ExchangeTypes
  <1>2. CASE k.op = "can_do_stop"
    BY <1>2, ScriptOf, ExchangeTypes
  <1>3. CASE k.op = "can_do_restart"
    BY <1>0, <1>3, ScriptOf, ExchangeTypes
  <1>4. CASE k.op = "InitIMUCan"
    <2>1. ImuBitrate \in Bittiming
      BY CanAssumption
    <2> QED
      BY <1>4, <2>1, ScriptOf, ExchangeTypes
  <1>5. CASE k.op \in DOMAIN Getter
    BY <1>5, ScriptOf, ExchangeTypes, GetterTypes
  <1>6. CASE k.op \in {"can_set_bittiming", "can_set_bitrate", "can_set_bitrate_samplepoint"} /\ k.arg \in Bittiming
    BY <1>6, ScriptOf, ExchangeTypes
  <1>7. CASE k.op = "main" /\ k.arg \in Bittiming
    <2>1. Script(k) = << can_set_bittiming(k.arg), can_do_start, Io("sockets"), can_do_stop >>
      BY <1>7, ScriptOf
    <2>2. Len(Script(k)) = 4 /\ n \in 1 .. 4
      BY <2>1
    <2>3. n = 3
      BY <1>7, <2>1, <2>2, ExchangeTypes
    <2> QED
      BY <2>1, <2>2, <2>3, ExchangeTypes
  <1>8. CASE k.op = "can_set_restart_ms" /\ k.arg \in RestartMs
    BY <1>8, ScriptOf, ExchangeTypes
  <1>9. CASE k.op = "can_set_ctrlmode" /\ k.arg \in {0, 1}
    BY <1>9, ScriptOf, ExchangeTypes
  <1> QED
    BY <1>1, <1>2, <1>3, <1>4, <1>5, <1>6, <1>7, <1>8, <1>9, CallCases

----------------------------------------------------------------------------
(* Links and requests.                                                     *)

LEMMA LinkOps ==
  ASSUME NEW l \in Link
  PROVE  Down(l) \in Link /\ Up(l) \in Link /\ Moved(l) \subseteq Link
  <1>1. Down(l) \in Link /\ Up(l) \in Link
    BY DEF Link, Down, Up, CAN_STATE_ERROR_ACTIVE, CAN_STATE_BUS_OFF, CAN_STATE_STOPPED
  <1>2. [Down(l) EXCEPT !.present = FALSE] \in Link
    BY <1>1 DEF Link
  <1>3. [l EXCEPT !.state = CAN_STATE_BUS_OFF] \in Link /\ [l EXCEPT !.state = CAN_STATE_ERROR_ACTIVE] \in Link
    BY DEF Link
  <1> QED
    BY <1>1, <1>2, <1>3 DEF Moved

Requests ==
  [if_state : {"IF_UP", "IF_DOWN", None}, restart_ms : RestartMs \cup {0, None}, restart : BOOLEAN,
   bittiming : Bittiming \cup {None}, ctrlmode : {0, 1, None}]

LEMMA RequestType ==
  ASSUME NEW e \in Exchanges
  PROVE  Request(e) \in Requests
  <1>1. /\ e.if_state \in {"IF_UP", "IF_DOWN", None} /\ e.info.restart \in BOOLEAN
        /\ e.info.restart_ms \in RestartMs \cup {0}
        /\ e.info.bittiming \in Bittiming \cup {None} /\ e.info.ctrlmode \in {0, 1, None}
    BY DEF Exchanges
  <1> QED
    BY <1>1 DEF Request, Requests

LEMMA AppliedType ==
  ASSUME NEW l \in Link, NEW rq \in Requests
  PROVE  Applied(l, rq) \in Link
  <1> DEFINE ms == IF rq.restart_ms # None THEN rq.restart_ms ELSE l.restart_ms
             bt == IF rq.bittiming # None THEN rq.bittiming ELSE l.bittiming
             cm == IF rq.ctrlmode # None THEN rq.ctrlmode ELSE l.ctrlmode
             st == IF rq.restart THEN CAN_STATE_ERROR_ACTIVE ELSE l.state
             m  == [l EXCEPT !.restart_ms = ms, !.bittiming = bt, !.ctrlmode = cm, !.state = st]
  <1>1. ms \in RestartMs \cup {0}
    BY DEF Link, Requests
  <1>2. bt \in Bittiming \cup {None}
    BY DEF Link, Requests
  <1>3. cm \in {0, 1}
    BY DEF Link, Requests
  <1>4. st \in {CAN_STATE_ERROR_ACTIVE, CAN_STATE_BUS_OFF, CAN_STATE_STOPPED}
    BY DEF Link
  <1> HIDE DEF ms, bt, cm, st
  <1>5. m \in Link
    BY <1>1, <1>2, <1>3, <1>4 DEF Link
  <1> HIDE DEF m
  <1>6. Applied(l, rq) = CASE rq.if_state = "IF_UP" -> Up(m) [] rq.if_state = "IF_DOWN" -> Down(m) [] OTHER -> m
    BY DEF Applied, m, ms, bt, cm, st
  <1> QED
    BY <1>5, <1>6, LinkOps

LEMMA ToolRequestType ==
  ASSUME NEW k \in Run, k.arg # 0
  PROVE  ToolRequest(k) \in Requests
  <1>1. \/ k.op \in {"can-setup --up", "can-setup --down", "can_scoket3 up", "can_scoket3 down"}
        \/ k.op = "can-setup --bitrate" /\ k.arg \in Bittiming
    BY DEF Run
  <1> DEFINE e == CASE k.op \in {"can-setup --up", "can_scoket3 up"}     -> can_do_start
                    [] k.op \in {"can-setup --down", "can_scoket3 down"} -> can_do_stop
                    [] OTHER                                             -> can_set_bitrate(k.arg)
  <1>2. e \in Exchanges
    BY <1>1, ExchangeTypes DEF can_set_bitrate
  <1> HIDE DEF e
  <1>3. ToolRequest(k) = Request(e)
    BY DEF ToolRequest, e
  <1> QED
    BY <1>2, <1>3, RequestType

LEMMA ReportedType ==
  ASSUME NEW l \in Link, NEW a
  PROVE  Reported(l, a) \in Values \ {Junk}
  <1>1. /\ l.restart_ms \in RestartMs \cup {0} /\ l.bittiming \in Bittiming \cup {None}
        /\ l.ctrlmode \in {0, 1} /\ l.state \in {0, 3, 4}
    BY DEF Link, CAN_STATE_ERROR_ACTIVE, CAN_STATE_BUS_OFF, CAN_STATE_STOPPED
  <1>2. Reported(l, a) \in {None, l.restart_ms, l.bittiming, l.ctrlmode, l.state, 0}
    BY DEF Reported
  <1>3. \A x : x \in Int \cup {None} => x \in Values \ {Junk}
    BY CanAssumption DEF Values
  <1>4. RestartMs \subseteq Nat /\ Bittiming \subseteq Nat
    BY CanAssumption
  <1>6. \A x : x \in Nat => x \in Int \cup {None}
    OBVIOUS
  <1>7. 0 \in Nat /\ 1 \in Nat /\ 3 \in Nat /\ 4 \in Nat
    OBVIOUS
  <1>5. /\ l.restart_ms \in Int \cup {None} /\ l.bittiming \in Int \cup {None}
        /\ l.ctrlmode \in Int \cup {None} /\ l.state \in Int \cup {None}
    BY <1>1, <1>4, <1>6, <1>7, Zenon
  <1> QED
    BY <1>2, <1>3, <1>5

LEMMA ParseAttrType ==
  ASSUME link \in Link, NEW a
  PROVE  ParseAttr(a) \subseteq Values
  BY ReportedType DEF ParseAttr, Values

----------------------------------------------------------------------------
(* The type invariant.                                                     *)

\* What a step of c does to the variables that Place looks at.
OnlyOf(c) ==
  \A d \in Client \ {c} :
    pc'[d] = pc[d] /\ call'[d] = call[d] /\ step'[d] = step[d] /\ res'[d] = res[d]

LEMMA Local ==
  ASSUME TypeOK, NEW c \in Client, Shape', OnlyOf(c), Place(c)'
  PROVE  TypeOK'
  <1> SUFFICES ASSUME NEW d \in Client \ {c} PROVE Place(d)'
    BY DEF TypeOK
  <1>1. pc'[d] = pc[d] /\ call'[d] = call[d] /\ step'[d] = step[d] /\ res'[d] = res[d]
    BY DEF OnlyOf
  <1>2. Place(d)
    BY DEF TypeOK
  <1> QED
    BY <1>1, <1>2 DEF Place, Exchange

LEMMA InitTypeOK == Init => TypeOK
  <1> SUFFICES ASSUME Init PROVE TypeOK
    OBVIOUS
  <1>1. link \in Link
    BY DEF Init, Link, CAN_STATE_STOPPED
  <1>2. Shape
    BY <1>1 DEF Init, Shape, Labels, Values
  <1>3. \A c \in Client : Place(c)
    BY DEF Init, Place, ToolLabels, InCall, InExchange
  <1> QED
    BY <1>2, <1>3 DEF TypeOK

\* The ways out of an exchange.
Shaped ==
  /\ pc \in [Client -> Labels \cup ToolLabels]
  /\ call \in [Client -> Call \cup Run \cup {NoCall}]
  /\ step \in [Client -> 1 .. 4]
  /\ res \in [Client -> Values] /\ told \in [Client -> Values]

\* The process is told what the exchange returned, or None.
LEMMA ReturnsTold ==
  ASSUME NEW c \in Client, NEW r, Returns(c, r)
  PROVE  \E t \in {None, r} : told' = [told EXCEPT ![c] = t]
  BY DEF Returns, Result

LEMMA ReturnsType ==
  ASSUME TypeOK, NEW c \in Client, NEW r \in Values, Returns(c, r),
         pc[c] \in {"open", "index", "modify", "ack", "dump", "rest"}
  PROVE  Shaped' /\ OnlyOf(c) /\ Place(c)'
  <1>1. call[c] \in Call /\ step[c] \in 1 .. Len(Script(call[c])) /\ Len(Script(call[c])) \in 1 .. 4
    BY ScriptType DEF TypeOK, Place, InCall, InExchange
  <1>0. PICK t \in Values : told' = [told EXCEPT ![c] = t]
    BY ReturnsTold DEF Values
  <1>2. call' = call /\ told' = [told EXCEPT ![c] = t] /\ res' = [res EXCEPT ![c] = None]
    BY <1>0 DEF Returns
  <1>3. CASE step[c] < Len(Script(call[c])) /\ Proceed(call[c], step[c], r)
    <2> DEFINE next == IF Script(call[c])[step[c] + 1].kind = "sockets" THEN "sockets" ELSE "open"
    <2>1. step' = [step EXCEPT ![c] = step[c] + 1] /\ pc' = [pc EXCEPT ![c] = next]
      BY <1>3 DEF Returns
    <2>2. step[c] + 1 \in 1 .. Len(Script(call[c])) /\ step[c] + 1 \in 1 .. 4
      <3>1. \A m \in 1 .. 4 : \A n \in 1 .. m : n < m => n + 1 \in 1 .. m /\ n + 1 \in 1 .. 4
        OBVIOUS
      <3> QED
        BY <1>1, <1>3, <3>1, Zenon
    <2>3. next \in {"sockets", "open"}
      OBVIOUS
    <2>4. Shaped'
      BY <1>2, <2>1, <2>2, <2>3 DEF TypeOK, Shape, Shaped, Labels, Values
    <2>5. OnlyOf(c)
      BY <1>2, <2>1 DEF TypeOK, Shape, OnlyOf
    <2>6. pc'[c] = next /\ step'[c] = step[c] + 1 /\ call'[c] = call[c] /\ res'[c] = None
      BY <1>2, <2>1 DEF TypeOK, Shape
    <2>7. next = "sockets" <=> Script(call[c])[step[c] + 1].kind = "sockets"
      OBVIOUS
    <2> HIDE DEF next
    <2>8. Place(c)'
      BY <1>1, <2>2, <2>3, <2>6, <2>7 DEF Place, Exchange, ToolLabels, InCall, InExchange
    <2> QED
      BY <2>4, <2>5, <2>8
  <1>4. CASE ~(step[c] < Len(Script(call[c])) /\ Proceed(call[c], step[c], r))
    <2>1. step' = step /\ pc' = [pc EXCEPT ![c] = "done"]
      BY <1>4 DEF Returns
    <2>2. Shaped'
      BY <1>2, <2>1 DEF TypeOK, Shape, Shaped, Labels, Values
    <2>3. OnlyOf(c)
      BY <1>2, <2>1 DEF TypeOK, Shape, OnlyOf
    <2>4. pc'[c] = "done" /\ res'[c] = None
      BY <1>2, <2>1 DEF TypeOK, Shape
    <2>5. Place(c)'
      BY <2>4 DEF Place, ToolLabels, InCall, InExchange
    <2> QED
      BY <2>2, <2>3, <2>5
  <1> QED
    BY <1>3, <1>4

----------------------------------------------------------------------------
(* The type invariant and the sockets are kept together: a close must find *)
(* a socket to close.                                                      *)

IInv == TypeOK /\ FdsBalanced

Legal == link \in Link /\ others \in [Client -> BOOLEAN]

\* A step of c that moves on inside or outside an exchange.
LEMMA GotoStep ==
  ASSUME IInv, NEW c \in Client, NEW to \in Labels \cup ToolLabels, Goto(c, to), Legal',
         UNCHANGED << call, step, fds, leaked >>, told' \in [Client -> Values],
         NEW v \in Values, res' = [res EXCEPT ![c] = v],
         pc[c] \in InExchange <=> to \in InExchange,
         Place(c)'
  PROVE  IInv'
  <1> USE DEF IInv
  <1>1. /\ pc' = [pc EXCEPT ![c] = to] /\ call' = call /\ step' = step /\ fds' = fds /\ leaked' = leaked
        /\ link' \in Link /\ others' \in [Client -> BOOLEAN]
    BY DEF Goto, Legal
  <1>2. OnlyOf(c)
    BY <1>1 DEF OnlyOf, TypeOK, Shape
  <1>3. Shape'
    BY <1>1 DEF TypeOK, Shape
  <1>4. FdsBalanced'
    <2> SUFFICES ASSUME NEW d \in Client
                 PROVE  fds'[d] = leaked'[d] + IF pc'[d] \in InExchange THEN 1 ELSE 0
      BY DEF FdsBalanced
    <2>1. pc'[d] \in InExchange <=> pc[d] \in InExchange
      BY <1>1 DEF TypeOK, Shape
    <2> QED
      BY <1>1, <2>1 DEF FdsBalanced
  <1> QED
    BY <1>2, <1>3, <1>4, Local

\* A step of c that returns from an exchange without a socket to close.
LEMMA ReturnsStep ==
  ASSUME IInv, NEW c \in Client, NEW r \in Values, Returns(c, r), Legal', pc[c] = "open",
         \/ UNCHANGED << fds, leaked >>
         \/ fds' = [fds EXCEPT ![c] = @ + 1] /\ leaked' = [leaked EXCEPT ![c] = @ + 1]
  PROVE  IInv'
  <1> USE DEF IInv
  <1>1. Shaped' /\ OnlyOf(c) /\ Place(c)'
    BY ReturnsType
  <1>2. fds' \in [Client -> Nat] /\ leaked' \in [Client -> Nat]
    BY DEF TypeOK, Shape
  <1>3. Shape'
    BY <1>1, <1>2 DEF Shape, Shaped, Legal
  <1>4. pc'[c] \notin InExchange /\ pc[c] \notin InExchange
    BY DEF Returns, TypeOK, Shape, InExchange
  <1>5. FdsBalanced'
    <2> SUFFICES ASSUME NEW d \in Client
                 PROVE  fds'[d] = leaked'[d] + IF pc'[d] \in InExchange THEN 1 ELSE 0
      BY DEF FdsBalanced
    <2>1. fds[d] = leaked[d] + IF pc[d] \in InExchange THEN 1 ELSE 0
      BY DEF FdsBalanced
    <2>2. fds \in [Client -> Nat] /\ leaked \in [Client -> Nat]
      BY DEF TypeOK, Shape
    <2>3. CASE d = c
      BY <1>4, <2>1, <2>2, <2>3
    <2>4. CASE d # c
      <3>1. pc'[d] = pc[d] /\ fds'[d] = fds[d] /\ leaked'[d] = leaked[d]
        BY <1>1, <2>2, <2>4 DEF OnlyOf
      <3> QED
        BY <2>1, <3>1
    <2> QED
      BY <2>3, <2>4
  <1> QED
    BY <1>1, <1>3, <1>5, Local

\* A step of c that ends an exchange and closes its socket.
LEMMA FinishStep ==
  ASSUME IInv, NEW c \in Client, NEW r \in Values, Finish(c, r), Legal',
         pc[c] \in {"index", "modify", "ack", "dump", "rest"}
  PROVE  IInv'
  <1> USE DEF IInv
  <1>0. Returns(c, r) /\ fds' = [fds EXCEPT ![c] = @ - 1] /\ leaked' = leaked
    BY DEF Finish
  <1>1. Shaped' /\ OnlyOf(c) /\ Place(c)'
    BY <1>0, ReturnsType
  <1>2. fds \in [Client -> Nat] /\ leaked \in [Client -> Nat]
    BY DEF TypeOK, Shape
  <1>3. fds[c] = leaked[c] + 1
    BY DEF FdsBalanced, InExchange
  <1>4. fds' \in [Client -> Nat] /\ fds'[c] = leaked[c]
    BY <1>0, <1>2, <1>3
  <1>5. Shape'
    BY <1>0, <1>1, <1>2, <1>4 DEF Shape, Shaped, Legal
  <1>6. pc'[c] \notin InExchange
    BY <1>0 DEF Returns, TypeOK, Shape, InExchange
  <1>7. FdsBalanced'
    <2> SUFFICES ASSUME NEW d \in Client
                 PROVE  fds'[d] = leaked'[d] + IF pc'[d] \in InExchange THEN 1 ELSE 0
      BY DEF FdsBalanced
    <2>1. CASE d = c
      BY <1>0, <1>2, <1>4, <1>6, <2>1
    <2>2. CASE d # c
      <3>1. pc'[d] = pc[d] /\ fds'[d] = fds[d] /\ leaked'[d] = leaked[d]
        BY <1>0, <1>1, <1>2, <2>2 DEF OnlyOf
      <3> QED
        BY <3>1 DEF FdsBalanced
    <2> QED
      BY <2>1, <2>2
  <1> QED
    BY <1>1, <1>5, <1>7, Local

\* A value kept is a value set to what it was.
LEMMA Kept ==
  ASSUME IInv, NEW c \in Client
  PROVE  /\ res[c] \in Values /\ res = [res EXCEPT ![c] = res[c]] /\ None \in Values /\ 0 \in Values
         /\ told \in [Client -> Values] /\ Legal
  BY DEF IInv, TypeOK, Shape, Values, Legal

LEMMA CallStep ==
  ASSUME IInv, NEW c \in Client,
         Leave(c) \/ (\E k \in Calls[c] : Begin(c, k)) \/ (\E k \in Runs[c] : RunTool(c, k))
  PROVE  IInv'
  <1> USE DEF IInv
  <1>1. pc[c] \in {"idle", "done"} /\ res[c] = None /\ res' = res /\ Legal'
    BY DEF Leave, Begin, RunTool, At, TypeOK, Place, Legal, Shape
  <1>2. PICK to \in {"idle", "open", "tool"} : pc' = [pc EXCEPT ![c] = to]
    BY DEF Leave, Begin, RunTool, Goto
  <1>3. call' \in [Client -> Call \cup Run \cup {NoCall}]
    BY CallAssumption, RunAssumption DEF Leave, Begin, RunTool, TypeOK, Shape
  <1>4. step' \in [Client -> 1 .. 4] /\ told' \in [Client -> Values] /\ fds' = fds /\ leaked' = leaked
    BY Kept DEF Leave, Begin, RunTool, TypeOK, Shape
  <1>5. Shape'
    BY <1>1, <1>2, <1>3, <1>4 DEF TypeOK, Shape, Legal, Labels, ToolLabels
  <1>6. OnlyOf(c)
    <2>1. CASE Leave(c)
      BY <2>1 DEF Leave, Goto, OnlyOf, TypeOK, Shape
    <2>2. CASE \E k \in Calls[c] : Begin(c, k)
      BY <2>2 DEF Begin, Goto, OnlyOf, TypeOK, Shape
    <2>3. CASE \E k \in Runs[c] : RunTool(c, k)
      BY <2>3 DEF RunTool, Goto, OnlyOf, TypeOK, Shape
    <2> QED
      BY <2>1, <2>2, <2>3
  <1>7. FdsBalanced'
    <2> SUFFICES ASSUME NEW d \in Client
                 PROVE  fds'[d] = leaked'[d] + IF pc'[d] \in InExchange THEN 1 ELSE 0
      BY DEF FdsBalanced
    <2>1. pc'[d] \in InExchange <=> pc[d] \in InExchange
      BY <1>1, <1>2 DEF TypeOK, Shape, InExchange
    <2> QED
      BY <1>4, <2>1 DEF FdsBalanced
  <1>8. Place(c)'
    <2>1. CASE Leave(c)
      <3>1. pc'[c] = "idle" /\ res'[c] = None
        BY <1>1, <2>1 DEF Leave, Goto, TypeOK, Shape
      <3>2. step'[c] = 1
        BY <2>1 DEF Leave, TypeOK, Shape
      <3> QED
        BY <3>1, <3>2 DEF Place, ToolLabels, InCall, InExchange
    <2>2. ASSUME NEW k \in Calls[c], Begin(c, k) PROVE Place(c)'
      <3>1. /\ pc'[c] = "open" /\ res'[c] = None /\ call'[c] = k /\ step'[c] = step[c]
        BY <1>1, <2>2 DEF Begin, Goto, TypeOK, Shape
      <3>2. k \in Call /\ Len(Script(k)) \in 1 .. 4
        BY CallAssumption, ScriptType
      <3>3. step'[c] = 1
        <4>1. pc[c] = "idle" /\ Place(c)
          BY <2>2 DEF Begin, At, TypeOK
        <4> QED
          BY <3>1, <4>1 DEF Place
      <3>5. 1 \in 1 .. Len(Script(k))
        BY <3>2
      <3>4. Script(k)[1].kind # "sockets"
        BY <3>2, <3>5, SocketsInside
      <3> QED
        BY <3>1, <3>2, <3>3, <3>4, <3>5 DEF Place, Exchange, ToolLabels, InCall, InExchange
    <2>3. ASSUME NEW k \in Runs[c], RunTool(c, k) PROVE Place(c)'
      <3>1. pc'[c] = "tool" /\ res'[c] = None /\ call'[c] = k
        BY <1>1, <2>3 DEF RunTool, Goto, TypeOK, Shape
      <3>2. k \in Run
        BY RunAssumption
      <3> QED
        BY <3>1, <3>2 DEF Place, ToolLabels, InCall, InExchange
    <2> QED
      BY <2>1, <2>2, <2>3
  <1> QED
    BY <1>5, <1>6, <1>7, <1>8, Local

\* What the process is in when it stands at a label of an exchange.
LEMMA InScript ==
  ASSUME IInv, NEW c \in Client, pc[c] \in InCall
  PROVE  /\ call[c] \in Call /\ step[c] \in 1 .. Len(Script(call[c])) /\ Exchange(c) \in Exchanges
         /\ Request(Exchange(c)) \in Requests
  <1>1. call[c] \in Call /\ step[c] \in 1 .. Len(Script(call[c]))
    BY DEF IInv, TypeOK, Place
  <1>2. Script(call[c]) \in Seq(Exchanges)
    BY <1>1, ScriptType
  <1>3. Exchange(c) \in Exchanges
    BY <1>1, <1>2 DEF Exchange
  <1> QED
    BY <1>1, <1>3, RequestType

\* A step inside an exchange keeps the place when the new label asks for the
\* same kind of exchange.
LEMMA InsidePlace ==
  ASSUME IInv, NEW c \in Client, NEW to \in Labels, Goto(c, to), NEW v, res' = [res EXCEPT ![c] = v],
         UNCHANGED << call, step >>, pc[c] \in InCall,
         to \in InCall \ {"open"},
         to \in {"sockets", "write", "read"} <=> Exchange(c).kind = "sockets",
         to \in {"index", "modify", "ack"} => Exchange(c).kind = "set",
         to \in {"dump", "rest", "hung"} => Exchange(c).kind = "get",
         to \notin {"ack", "rest"} => v = None
  PROVE  Place(c)'
  <1>1. pc'[c] = to /\ call'[c] = call[c] /\ step'[c] = step[c] /\ res'[c] = v
    BY DEF Goto, IInv, TypeOK, Shape
  <1>2. call[c] \in Call /\ step[c] \in 1 .. Len(Script(call[c]))
    BY InScript
  <1>3. Exchange(c)' = Exchange(c)
    BY <1>1 DEF Exchange
  <1> QED
    BY <1>1, <1>2, <1>3 DEF Place, InCall, InExchange, ToolLabels, Labels

LEMMA OpenStep ==
  ASSUME IInv, NEW c \in Client, OpenSock(c) \/ OpenFails(c) \/ OpenLeaks(c)
  PROVE  IInv'
  <1>1. ASSUME OpenSock(c) PROVE IInv'
    <2> DEFINE to == IF Exchange(c).kind = "get" THEN "dump" ELSE "index"
    <2>1. /\ pc[c] = "open" /\ pc' = [pc EXCEPT ![c] = to] /\ fds' = [fds EXCEPT ![c] = @ + 1]
          /\ UNCHANGED << link, call, step, res, told, leaked, others >>
      BY <1>1 DEF OpenSock, At, Goto
    <2>2. Exchange(c).kind \in {"get", "set"}
      <3>1. Exchange(c).kind # "sockets"
        BY <2>1 DEF IInv, TypeOK, Place, InCall
      <3>2. Exchange(c) \in Exchanges
        BY <2>1, InScript DEF InCall
      <3> QED
        BY <3>1, <3>2 DEF Exchanges
    <2>3. to \in {"dump", "index"} /\ (to = "dump" <=> Exchange(c).kind = "get")
      OBVIOUS
    <2> HIDE DEF to
    <2>4. Shape' /\ OnlyOf(c)
      BY <2>1, <2>3 DEF IInv, TypeOK, Shape, OnlyOf, Labels
    <2>5. Place(c)'
      <3>1. pc'[c] = to /\ call'[c] = call[c] /\ step'[c] = step[c] /\ res'[c] = None
        BY <2>1 DEF IInv, TypeOK, Shape, Place
      <3>2. call[c] \in Call /\ step[c] \in 1 .. Len(Script(call[c]))
        BY <2>1, InScript DEF InCall
      <3>3. Exchange(c)' = Exchange(c)
        BY <3>1 DEF Exchange
      <3> QED
        BY <2>2, <2>3, <3>1, <3>2, <3>3 DEF Place, InCall, InExchange, ToolLabels
    <2>6. FdsBalanced'
      <3> SUFFICES ASSUME NEW d \in Client
                   PROVE  fds'[d] = leaked'[d] + IF pc'[d] \in InExchange THEN 1 ELSE 0
        BY DEF FdsBalanced
      <3>1. fds[d] = leaked[d] + IF pc[d] \in InExchange THEN 1 ELSE 0
        BY DEF IInv, FdsBalanced
      <3>2. fds \in [Client -> Nat] /\ leaked \in [Client -> Nat] /\ pc \in [Client -> Labels \cup ToolLabels]
        BY DEF IInv, TypeOK, Shape
      <3>3. CASE d = c
        BY <2>1, <2>3, <3>1, <3>2, <3>3 DEF InExchange
      <3>4. CASE d # c
        BY <2>1, <3>1, <3>2, <3>4
      <3> QED
        BY <3>3, <3>4
    <2> QED
      BY <2>4, <2>5, <2>6, Local DEF IInv
  <1>2. ASSUME OpenFails(c) PROVE IInv'
    BY <1>2, Kept, ReturnsStep DEF OpenFails, At, Legal
  <1>3. ASSUME OpenLeaks(c) PROVE IInv'
    BY <1>3, Kept, ReturnsStep DEF OpenLeaks, At, Legal
  <1> QED
    BY <1>1, <1>2, <1>3

\* A request carried out leaves a link and 0 in the hands of the process.
LEMMA GrantType ==
  ASSUME IInv, NEW c \in Client, NEW rq \in Requests, Grant(c, rq)
  PROVE  /\ Legal' /\ res' = [res EXCEPT ![c] = 0] /\ UNCHANGED << call, step, fds, leaked, told >>
         /\ link' = Applied(link, rq)
  BY AppliedType DEF Grant, Legal, IInv, TypeOK, Shape

LEMMA SetStep ==
  ASSUME IInv, NEW c \in Client, Set(c) \/ SendFails(c)
  PROVE  IInv'
  <1>0. /\ pc[c] \in {"index", "modify", "ack"} => Exchange(c).kind = "set"
        /\ pc[c] \notin {"ack", "rest", "tool ack"} => res[c] = None
    BY DEF IInv, TypeOK, Place, InCall, InExchange
  <1>1. ASSUME Lookup(c) PROVE IInv'
    <2>1. CASE link.present
      <3>1. pc[c] = "index" /\ Goto(c, "modify") /\ res' = [res EXCEPT ![c] = None] /\ told' \in [Client -> Values]
            /\ UNCHANGED << link, others, call, step, fds, leaked >>
        BY <1>0, <1>1, <2>1, Kept DEF Lookup, At
      <3>2. Place(c)'
        BY <1>0, <3>1, InsidePlace DEF Labels, InCall, InExchange
      <3> QED
        BY <3>1, <3>2, Kept, GotoStep DEF Legal, Labels, InExchange
    <2>2. CASE ~link.present
      BY <1>1, <2>2, Kept, FinishStep DEF Lookup, At, Legal
    <2> QED
      BY <2>1, <2>2
  <1>2. ASSUME Granted(c) PROVE IInv'
    <2>1. pc[c] = "modify" /\ Goto(c, "ack") /\ Grant(c, Request(Exchange(c)))
      BY <1>2 DEF Granted, At
    <2>2. Request(Exchange(c)) \in Requests
      BY <2>1, InScript DEF InCall, InExchange
    <2>3. Legal' /\ res' = [res EXCEPT ![c] = 0] /\ UNCHANGED << call, step, fds, leaked, told >>
      BY <2>1, <2>2, GrantType
    <2>4. Place(c)'
      BY <1>0, <2>1, <2>3, InsidePlace DEF Labels, InCall, InExchange
    <2> QED
      BY <2>1, <2>3, <2>4, Kept, GotoStep DEF Labels, InExchange
  <1>3. ASSUME Refused(c) PROVE IInv'
    <2>1. pc[c] = "modify" /\ Goto(c, "ack") /\ res' = [res EXCEPT ![c] = None] /\ told' \in [Client -> Values]
          /\ UNCHANGED << link, others, call, step, fds, leaked >>
      BY <1>0, <1>3, Kept DEF Refused, At
    <2>2. Place(c)'
      BY <1>0, <2>1, InsidePlace DEF Labels, InCall, InExchange
    <2> QED
      BY <2>1, <2>2, Kept, GotoStep DEF Legal, Labels, InExchange
  <1>4. ASSUME Acknowledge(c) PROVE IInv'
    BY <1>4, Kept, FinishStep DEF Acknowledge, At, Legal
  <1>5. ASSUME SendFails(c) PROVE IInv'
    BY <1>5, Kept, FinishStep DEF SendFails, At, Legal
  <1> QED
    BY <1>1, <1>2, <1>3, <1>4, <1>5 DEF Set

\* A step to a label behind all exchanges.
LEMMA OutsidePlace ==
  ASSUME IInv, NEW c \in Client, NEW to \in {"done", "dead"}, Goto(c, to), res' = [res EXCEPT ![c] = None]
  PROVE  Place(c)'
  <1>1. pc'[c] = to /\ res'[c] = None
    BY DEF Goto, IInv, TypeOK, Shape
  <1> QED
    BY <1>1 DEF Place, ToolLabels, InCall, InExchange

LEMMA CrashStep ==
  ASSUME IInv, NEW c \in Client, Crash(c)
  PROVE  IInv'
  <1>1. /\ pc[c] = "dump" /\ Goto(c, "dead") /\ pc' = [pc EXCEPT ![c] = "dead"]
        /\ fds' = [fds EXCEPT ![c] = 0] /\ leaked' = [leaked EXCEPT ![c] = 0]
        /\ UNCHANGED << link, call, step, res, told, others >>
    BY DEF Crash, At, Goto
  <1>2. res[c] = None
    BY <1>1 DEF IInv, TypeOK, Place
  <1>3. Shape' /\ OnlyOf(c)
    BY <1>1 DEF IInv, TypeOK, Shape, OnlyOf, Labels
  <1>4. Place(c)'
    BY <1>1, <1>2, Kept, OutsidePlace
  <1>5. FdsBalanced'
    <2> SUFFICES ASSUME NEW d \in Client
                 PROVE  fds'[d] = leaked'[d] + IF pc'[d] \in InExchange THEN 1 ELSE 0
      BY DEF FdsBalanced
    <2>1. fds \in [Client -> Nat] /\ leaked \in [Client -> Nat] /\ pc \in [Client -> Labels \cup ToolLabels]
      BY DEF IInv, TypeOK, Shape
    <2>2. fds[d] = leaked[d] + IF pc[d] \in InExchange THEN 1 ELSE 0
      BY DEF IInv, FdsBalanced
    <2>3. CASE d = c
      BY <1>1, <2>1, <2>3 DEF InExchange
    <2>4. CASE d # c
      BY <1>1, <2>1, <2>2, <2>4
    <2> QED
      BY <2>3, <2>4
  <1> QED
    BY <1>3, <1>4, <1>5, Local DEF IInv

LEMMA GetStep ==
  ASSUME IInv, NEW c \in Client, Get(c)
  PROVE  IInv'
  <1>0. /\ pc[c] \in {"dump", "rest"} => Exchange(c).kind = "get"
        /\ pc[c] \notin {"ack", "rest", "tool ack"} => res[c] = None
    BY DEF IInv, TypeOK, Place, InCall, InExchange
  <1>1. ASSUME DeviceMessage(c) PROVE IInv'
    <2>1. CASE link.attrs = {} /\ Exchange(c).attr # "xstats"
      BY <1>1, <2>1, Kept, FinishStep DEF DeviceMessage, At, Legal
    <2>2. CASE ~(link.attrs = {} /\ Exchange(c).attr # "xstats")
      <3>1. /\ pc[c] = "dump" /\ Goto(c, "rest") /\ UNCHANGED << link, others, call, step, told, fds, leaked >>
            /\ \E v \in ParseAttr(Exchange(c).attr) : res' = [res EXCEPT ![c] = v]
        BY <1>1, <2>2 DEF DeviceMessage, At
      <3>2. PICK v \in Values : res' = [res EXCEPT ![c] = v]
        BY <3>1, ParseAttrType DEF IInv, TypeOK, Shape
      <3>3. Place(c)'
        BY <1>0, <3>1, <3>2, InsidePlace DEF Labels, InCall, InExchange
      <3>4. Legal' /\ told' \in [Client -> Values]
        BY <3>1, Kept DEF Legal
      <3> QED
        BY <3>1, <3>2, <3>3, <3>4, GotoStep DEF Labels, InExchange
    <2> QED
      BY <2>1, <2>2
  <1>2. ASSUME Crash(c) PROVE IInv'
    BY <1>2, CrashStep
  <1>3. ASSUME DumpEnds(c) PROVE IInv'
    BY <1>3, Kept, FinishStep DEF DumpEnds, At, Legal
  <1>4. ASSUME DumpTruncated(c) PROVE IInv'
    BY <1>4, Kept, FinishStep DEF DumpTruncated, At, Legal
  <1>5. ASSUME DumpRefused(c) PROVE IInv'
    <2>1. pc[c] = "dump" /\ Goto(c, "hung") /\ res' = [res EXCEPT ![c] = None]
          /\ UNCHANGED << link, others, call, step, told, fds, leaked >>
      BY <1>0, <1>5, Kept DEF DumpRefused, At
    <2>2. Place(c)'
      BY <1>0, <2>1, InsidePlace DEF Labels, InCall, InExchange
    <2>3. Legal' /\ told' \in [Client -> Values]
      BY <2>1, Kept DEF Legal
    <2> QED
      BY <2>1, <2>2, <2>3, Kept, GotoStep DEF Labels, InExchange
  <1> QED
    BY <1>1, <1>2, <1>3, <1>4, <1>5 DEF Get

LEMMA MainStep ==
  ASSUME IInv, NEW c \in Client, Main(c)
  PROVE  IInv'
  <1>0. /\ pc[c] \in {"sockets", "write", "read"} => Exchange(c).kind = "sockets" /\ res[c] = None
    BY DEF IInv, TypeOK, Place, InCall, InExchange
  <1>1. ASSUME Sockets(c) PROVE IInv'
    <2>1. /\ pc[c] = "sockets" /\ res' = [res EXCEPT ![c] = None]
          /\ UNCHANGED << link, others, call, step, fds, leaked >>
      BY <1>0, <1>1, Kept DEF Sockets, At
    <2>2. PICK to \in {"write", "done"} : Goto(c, to)
      BY <1>1 DEF Sockets
    <2>3. Legal' /\ told' \in [Client -> Values]
      BY <1>1, Kept DEF Sockets, Legal
    <2>4. Place(c)'
      <3>1. CASE to = "write"
        BY <1>0, <2>1, <2>2, <3>1, InsidePlace DEF Labels, InCall, InExchange
      <3>2. CASE to = "done"
        BY <2>1, <2>2, <3>2, OutsidePlace
      <3> QED
        BY <3>1, <3>2
    <2> QED
      BY <2>1, <2>2, <2>3, <2>4, Kept, GotoStep DEF Labels, InExchange
  <1>2. ASSUME Write(c) PROVE IInv'
    <2>1. /\ pc[c] = "write" /\ Goto(c, "read") /\ res' = [res EXCEPT ![c] = None]
          /\ UNCHANGED << link, others, call, step, told, fds, leaked >>
      BY <1>0, <1>2, Kept DEF Write, At
    <2>2. Place(c)'
      BY <1>0, <2>1, InsidePlace DEF Labels, InCall, InExchange
    <2>3. Legal' /\ told' \in [Client -> Values]
      BY <2>1, Kept DEF Legal
    <2>4. "read" \in Labels \cup ToolLabels /\ pc[c] \notin InExchange /\ "read" \notin InExchange
      BY <2>1 DEF Labels, InExchange
    <2> QED
      BY <2>1, <2>2, <2>3, <2>4, Kept, GotoStep
  <1>3. ASSUME Read(c) PROVE IInv'
    <2>1. /\ pc[c] = "read" /\ pc' = [pc EXCEPT ![c] = "open"] /\ step' = [step EXCEPT ![c] = step[c] + 1]
          /\ UNCHANGED << link, others, call, res, told, fds, leaked >>
      BY <1>3 DEF Read, At, Goto
    <2>2. call[c] \in Call /\ step[c] \in 1 .. Len(Script(call[c])) /\ Script(call[c])[step[c]].kind = "sockets"
      BY <1>0, <2>1, InScript DEF InCall, Exchange
    <2>3. step[c] + 1 \in 1 .. Len(Script(call[c])) /\ Script(call[c])[step[c] + 1].kind # "sockets"
      BY <2>2, SocketsInside
    <2>4. step[c] + 1 \in 1 .. 4
      <3>1. \A m \in 1 .. 4 : \A n \in 1 .. m : n \in 1 .. 4
        OBVIOUS
      <3> QED
        BY <2>2, <2>3, <3>1, ScriptType, Zenon
    <2>5. Shape' /\ OnlyOf(c)
      BY <2>1, <2>4 DEF IInv, TypeOK, Shape, OnlyOf, Labels
    <2>6. Place(c)'
      <3>1. pc'[c] = "open" /\ call'[c] = call[c] /\ step'[c] = step[c] + 1 /\ res'[c] = None
        BY <1>0, <2>1 DEF IInv, TypeOK, Shape
      <3> QED
        BY <2>2, <2>3, <3>1 DEF Place, Exchange, ToolLabels, InCall, InExchange
    <2>7. FdsBalanced'
      <3> SUFFICES ASSUME NEW d \in Client
                   PROVE  fds'[d] = leaked'[d] + IF pc'[d] \in InExchange THEN 1 ELSE 0
        BY DEF FdsBalanced
      <3>1. pc'[d] \in InExchange <=> pc[d] \in InExchange
        BY <2>1 DEF IInv, TypeOK, Shape, InExchange
      <3> QED
        BY <2>1, <3>1 DEF IInv, FdsBalanced
    <2> QED
      BY <2>5, <2>6, <2>7, Local DEF IInv
  <1> QED
    BY <1>1, <1>2, <1>3 DEF Main

\* A tool's step to a label of its own.
LEMMA ToolPlace ==
  ASSUME IInv, NEW c \in Client, NEW to \in ToolLabels, Goto(c, to), call[c] \in Run,
         to # "tool" => call[c].arg # 0, call' = call,
         NEW v, res' = [res EXCEPT ![c] = v], to # "tool ack" => v = None
  PROVE  Place(c)'
  <1>1. pc'[c] = to /\ call'[c] = call[c] /\ res'[c] = v
    BY DEF Goto, IInv, TypeOK, Shape
  <1> QED
    BY <1>1 DEF Place, ToolLabels, InCall, InExchange

\* Only a bit rate can be zero among the arguments of the tools.
LEMMA RunArgs ==
  ASSUME NEW k \in Run, k.op = "can-setup --bitrate" => k.arg # 0
  PROVE  k.arg # 0
  <1>1. k.op = "can-setup --bitrate" \/ k.arg = None
    BY DEF Run
  <1> QED
    BY <1>1, ArgNotNone

LEMMA ExitStep ==
  ASSUME IInv, NEW c \in Client, NEW r \in Values, Exit(c, r), pc[c] \in ToolLabels
  PROVE  IInv'
  <1>1. Goto(c, "done") /\ res' = [res EXCEPT ![c] = None] /\ UNCHANGED << call, step, fds, leaked >>
        /\ UNCHANGED << link, others >> /\ told' = [told EXCEPT ![c] = r]
    BY DEF Exit
  <1>2. Legal' /\ told' \in [Client -> Values]
    BY <1>1, Kept DEF Legal
  <1>3. Place(c)'
    BY <1>1, OutsidePlace
  <1>4. "done" \in Labels \cup ToolLabels /\ pc[c] \notin InExchange /\ "done" \notin InExchange
    BY DEF Labels, InExchange, ToolLabels
  <1>5. None \in Values
    BY Kept
  <1> QED
    BY <1>1, <1>2, <1>3, <1>4, <1>5, GotoStep

LEMMA ToolsStep ==
  ASSUME IInv, NEW c \in Client, ToolStep(c)
  PROVE  IInv'
  <1>0. /\ pc[c] \in ToolLabels => call[c] \in Run
        /\ pc[c] \in ToolLabels \ {"tool"} => call[c].arg # 0
        /\ pc[c] \notin {"ack", "rest", "tool ack"} => res[c] = None
    BY DEF IInv, TypeOK, Place
  <1>1. ASSUME SetupOpen(c) \/ SetupLookup(c) \/ MnlOpen(c) PROVE IInv'
    <2>1. CASE Exit(c, None)
      BY <1>1, <2>1, Kept, ExitStep DEF SetupOpen, SetupLookup, MnlOpen, At, ToolLabels
    <2>2. CASE ~Exit(c, None)
      <3>1. /\ pc[c] \in {"tool", "tool index"} /\ UNCHANGED << link, call, step, res, told, fds, leaked, others >>
        BY <1>1, <2>2 DEF SetupOpen, SetupLookup, MnlOpen, At
      <3>2. PICK to \in ToolLabels \ {"tool", "tool ack"} : Goto(c, to)
        BY <1>1, <2>2 DEF SetupOpen, SetupLookup, MnlOpen, ToolLabels
      <3>3. call[c] \in Run
        BY <1>0, <3>1 DEF ToolLabels
      <3>4. call[c].arg # 0
        <4>1. CASE SetupOpen(c)
          <5>1. Bitrate(call[c]) \/ call[c].op # "can-setup --bitrate"
            BY <2>2, <4>1 DEF SetupOpen
          <5> QED
            BY <3>3, <5>1, RunArgs DEF Bitrate
        <4>2. CASE SetupLookup(c)
          <5>1. pc[c] = "tool index"
            BY <4>2 DEF SetupLookup, At
          <5> QED
            BY <1>0, <5>1 DEF ToolLabels
        <4>3. CASE MnlOpen(c)
          BY <3>3, <4>3, RunArgs DEF MnlOpen, Ours
        <4> QED
          BY <1>1, <4>1, <4>2, <4>3
      <3>5. Legal' /\ told' \in [Client -> Values] /\ res' = [res EXCEPT ![c] = None]
        BY <1>0, <3>1, Kept DEF Legal
      <3>6. Place(c)'
        BY <3>1, <3>2, <3>3, <3>4, <3>5, ToolPlace
      <3> QED
        BY <3>1, <3>2, <3>5, <3>6, Kept, GotoStep DEF ToolLabels, InExchange
    <2> QED
      BY <2>1, <2>2
  <1>2. ASSUME SetupModify(c) \/ MnlSend(c) PROVE IInv'
    <2>1. pc[c] \in {"tool modify", "tool send"} /\ Send(c)
      BY <1>2 DEF SetupModify, MnlSend, At
    <2>0. "tool ack" \in Labels \cup ToolLabels /\ pc[c] \notin InExchange /\ "tool ack" \notin InExchange
      BY <2>1 DEF ToolLabels, InExchange
    <2>2. call[c] \in Run /\ call[c].arg # 0 /\ res[c] = None
      BY <1>0, <2>1 DEF ToolLabels
    <2>3. CASE Exit(c, None)
      BY <2>1, <2>3, Kept, ExitStep DEF ToolLabels
    <2>4. CASE Goto(c, "tool ack") /\ Grant(c, ToolRequest(call[c]))
      <3>1. Legal' /\ res' = [res EXCEPT ![c] = 0] /\ UNCHANGED << call, step, fds, leaked, told >>
        BY <2>2, <2>4, ToolRequestType, GrantType
      <3>2. Place(c)'
        BY <2>2, <2>4, <3>1, ToolPlace DEF ToolLabels
      <3> QED
        BY <2>0, <2>4, <3>1, <3>2, Kept, GotoStep
    <2>5. CASE Goto(c, "tool ack") /\ UNCHANGED << link, call, step, res, told, fds, leaked, others >>
      <3>1. Legal' /\ told' \in [Client -> Values] /\ res' = [res EXCEPT ![c] = None]
        BY <2>2, <2>5, Kept DEF Legal
      <3>2. Place(c)'
        BY <2>2, <2>5, <3>1, ToolPlace DEF ToolLabels
      <3> QED
        BY <2>0, <2>5, <3>1, <3>2, Kept, GotoStep
    <2> QED
      BY <2>1, <2>3, <2>4, <2>5 DEF Send
  <1>3. ASSUME SetupAck(c) \/ MnlAck(c) PROVE IInv'
    BY <1>3, Kept, ExitStep DEF SetupAck, MnlAck, At, ToolLabels
  <1> QED
    BY <1>1, <1>2, <1>3 DEF ToolStep

LEMMA DeviceStep ==
  ASSUME IInv, Device
  PROVE  IInv'
  <1>1. link' \in Link /\ UNCHANGED << pc, call, step, res, told, fds, leaked, others >>
    BY LinkOps DEF Device, IInv, TypeOK, Shape
  <1> QED
    BY <1>1 DEF IInv, TypeOK, Shape, Place, Exchange, FdsBalanced

LEMMA Inductive == IInv /\ [SetupNext]_vars => IInv'
  <1> SUFFICES ASSUME IInv, [SetupNext]_vars PROVE IInv'
    OBVIOUS
  <1>1. CASE UNCHANGED vars
    BY <1>1 DEF vars, IInv, TypeOK, Shape, Place, Exchange, FdsBalanced
  <1>2. CASE Device
    BY <1>2, DeviceStep
  <1>3. ASSUME NEW c \in Client, ClientStep(c) PROVE IInv'
    BY <1>3, OpenStep, SetStep, GetStep, MainStep DEF ClientStep
  <1>4. ASSUME NEW c \in Client, ToolStep(c) PROVE IInv'
    BY <1>4, ToolsStep
  <1>5. ASSUME NEW c \in Client, Leave(c) \/ (\E k \in Calls[c] : Begin(c, k)) \/ (\E k \in Runs[c] : RunTool(c, k))
        PROVE IInv'
    BY <1>5, CallStep
  <1> QED
    BY <1>1, <1>2, <1>3, <1>4, <1>5 DEF SetupNext, Next

LEMMA InitIInv == Init => IInv
  <1> SUFFICES ASSUME Init PROVE IInv
    OBVIOUS
  <1>1. FdsBalanced
    <2> SUFFICES ASSUME NEW c \in Client
                 PROVE  fds[c] = leaked[c] + IF pc[c] \in InExchange THEN 1 ELSE 0
      BY DEF FdsBalanced
    <2>1. pc[c] = "idle" /\ fds[c] = 0 /\ leaked[c] = 0
      BY DEF Init
    <2> QED
      BY <2>1 DEF InExchange
  <1> QED
    BY <1>1, InitTypeOK DEF IInv

\* Every variable keeps its type, and every process is where the script of
\* its call says: at a label of a modifying exchange in one, of a reading
\* exchange in the other, with a result in its hands only behind the answer.
THEOREM SetupTypeCorrect == SetupSpec => []TypeOK
  <1>1. IInv => TypeOK
    BY DEF IInv
  <1> QED
    BY InitIInv, Inductive, <1>1, PTL DEF SetupSpec

\* Whatever fails in an exchange of the library (421-462, 674-687, 804-816),
\* it leaves no socket behind but those open_nl_sock lost.
THEOREM SetupFdsBalanced == SetupSpec => []FdsBalanced
  <1>1. IInv => FdsBalanced
    BY DEF IInv
  <1> QED
    BY InitIInv, Inductive, <1>1, PTL DEF SetupSpec

----------------------------------------------------------------------------
(* InitIMUCan.  The invariant about its return is carried along the three  *)
(* exchanges: the bit rate from the acknowledgement of the second, the      *)
(* device up from that of the third.                                       *)

Configured == link.bittiming = ImuBitrate

HasBitrate(c) == step[c] = 3 \/ (step[c] = 2 /\ pc[c] = "ack" /\ res[c] = 0)

HasStarted(c) == \/ step[c] = 3 /\ pc[c] = "ack" /\ res[c] = 0
                 \/ pc[c] = "done" /\ told[c] = 0

Imu(c) ==
  /\ pc[c] = "ack" => res[c] \in {0, None}
  /\ call[c].op = "InitIMUCan" /\ ~others[c] /\ link.present =>
       /\ HasBitrate(c) => Configured
       /\ HasStarted(c) => link.up /\ Configured

ImuInv == IInv /\ \A c \in Client : Imu(c)

LEMMA ImuScript ==
  ASSUME NEW k \in Call, k.op = "InitIMUCan"
  PROVE  /\ Len(Script(k)) = 3
         /\ \A n \in 1 .. 3 : Script(k)[n].kind = "set"
         /\ Request(Script(k)[2]).bittiming = ImuBitrate
         /\ Request(Script(k)[3]).bittiming = None /\ Request(Script(k)[3]).if_state = "IF_UP"
  <1>1. Script(k) = << can_do_stop, can_set_bittiming(ImuBitrate), can_do_start >>
    BY ScriptOf
  <1>2. ImuBitrate \in Bittiming
    BY CanAssumption
  <1>3. \A n \in 1 .. 3 : Script(k)[n].kind = "set"
    BY <1>1, <1>2, ExchangeTypes
  <1>4. Request(can_set_bittiming(ImuBitrate)).bittiming = ImuBitrate
    BY DEF Request, can_set_bittiming, set_link, NoInfo
  <1>5. Request(can_do_start).bittiming = None /\ Request(can_do_start).if_state = "IF_UP"
    BY DEF Request, can_do_start, set_link, NoInfo
  <1> QED
    BY <1>1, <1>3, <1>4, <1>5

\* What the requests of the second and the third exchange do.
LEMMA ImuApplied ==
  ASSUME NEW l \in Link, NEW rq \in Requests
  PROVE  /\ rq.bittiming = ImuBitrate => Applied(l, rq).bittiming = ImuBitrate
         /\ rq.bittiming = None => Applied(l, rq).bittiming = l.bittiming
         /\ rq.if_state = "IF_UP" => Applied(l, rq).up
  <1> DEFINE m == [l EXCEPT
               !.restart_ms = IF rq.restart_ms # None THEN rq.restart_ms ELSE @,
               !.bittiming  = IF rq.bittiming # None THEN rq.bittiming ELSE @,
               !.ctrlmode   = IF rq.ctrlmode # None THEN rq.ctrlmode ELSE @,
               !.state      = IF rq.restart THEN CAN_STATE_ERROR_ACTIVE ELSE @]
  <1>1. m.bittiming = IF rq.bittiming # None THEN rq.bittiming ELSE l.bittiming
    BY DEF Link
  <1>2. DOMAIN m = DOMAIN l
    OBVIOUS
  <1> HIDE DEF m
  <1>3. /\ Up(m).bittiming = m.bittiming /\ Up(m).up
        /\ Down(m).bittiming = m.bittiming
    BY <1>2 DEF Up, Down, Link
  <1>4. Applied(l, rq) = CASE rq.if_state = "IF_UP" -> Up(m) [] rq.if_state = "IF_DOWN" -> Down(m) [] OTHER -> m
    BY DEF Applied, m
  <1>5. ImuBitrate # None
    BY ArgNotNone, Zenon
  <1> QED
    BY <1>1, <1>3, <1>4, <1>5

\* A step of another process, or of the device.
LEMMA ImuOther ==
  ASSUME ImuInv, NEW d \in Client,
         pc'[d] = pc[d], call'[d] = call[d], step'[d] = step[d], res'[d] = res[d], told'[d] = told[d],
         \/ link' = link /\ others'[d] = others[d]
         \/ call[d].op = "InitIMUCan" => others'[d]
         \/ others'[d] = others[d] /\ (link'.present => link.present /\ link'.up = link.up /\ link'.bittiming = link.bittiming)
  PROVE  Imu(d)'
  <1>1. Imu(d)
    BY DEF ImuInv
  <1> QED
    BY <1>1 DEF Imu, HasBitrate, HasStarted, Configured

\* A step of c after which it stands neither behind an exchange that worked
\* nor at an acknowledgement.
LEMMA ImuQuiet ==
  ASSUME ImuInv, NEW c \in Client, pc'[c] \notin {"ack", "done"}, call'[c] = call[c],
         step'[c] = step[c] \/ step'[c] \notin {2, 3}, others'[c] = others[c], link' = link
  PROVE  Imu(c)'
  <1>1. Imu(c)
    BY DEF ImuInv
  <1> QED
    BY <1>1 DEF Imu, HasBitrate, HasStarted, Configured

\* An exchange of c that returns r: -1, or the 0 of an acknowledgement.
LEMMA ImuReturns ==
  ASSUME ImuInv, NEW c \in Client, NEW r \in Values, Returns(c, r), link' = link, others' = others,
         pc[c] \in {"open", "index", "modify", "ack", "dump", "rest"},
         r = None \/ r = res[c]
  PROVE  Imu(c)'
  <1>1. /\ Imu(c) /\ call[c] \in Call /\ step[c] \in 1 .. Len(Script(call[c])) /\ TypeOK
        /\ res'[c] = None /\ call'[c] = call[c] /\ others'[c] = others[c]
    BY InScript DEF ImuInv, IInv, TypeOK, Shape, Returns, InCall, InExchange
  <1>2. pc'[c] \in {"sockets", "open", "done"}
    BY DEF Returns, ImuInv, IInv, TypeOK, Shape
  <1> SUFFICES ASSUME call[c].op = "InitIMUCan", ~others[c], link.present
               PROVE  (HasBitrate(c) => Configured)' /\ (HasStarted(c) => link.up /\ Configured)'
    BY <1>1, <1>2 DEF Imu
  <1>3. Len(Script(call[c])) = 3 /\ \A n \in 1 .. 3 : Script(call[c])[n].kind = "set"
    BY <1>1, ImuScript
  <1>4. pc[c] \notin {"dump", "rest"} /\ (pc[c] # "ack" => res[c] = None)
    <2>1. Place(c)
      BY <1>1 DEF TypeOK
    <2>2. Exchange(c).kind = "set"
      BY <1>1, <1>3 DEF Exchange
    <2> QED
      BY <2>1, <2>2 DEF Place, InCall, InExchange
  <1>5. r # None => pc[c] = "ack" /\ r = 0 /\ res[c] = 0
    BY <1>1, <1>4 DEF Imu
  <1>6. Proceed(call[c], step[c], r) <=> r # None
    BY DEF Proceed
  <1>7. CASE step[c] < 3 /\ r # None
    <2>1. step'[c] = step[c] + 1 /\ pc'[c] # "done"
      BY <1>1, <1>3, <1>6, <1>7 DEF Returns, TypeOK, Shape
    <2>2. step'[c] = 3 => link.bittiming = ImuBitrate
      <3>1. step[c] + 1 = 3 => step[c] = 2
        BY <1>1, <1>3
      <3> QED
        BY <1>1, <1>5, <1>7, <2>1, <3>1 DEF Imu, HasBitrate, Configured
    <2> QED
      BY <1>2, <2>1, <2>2 DEF HasBitrate, HasStarted, Configured
  <1>8. CASE ~(step[c] < 3 /\ r # None)
    <2>1. step'[c] = step[c] /\ pc'[c] = "done"
      BY <1>1, <1>3, <1>6, <1>8 DEF Returns, TypeOK, Shape
    <2>2. step[c] \in {1, 2, 3}
      BY <1>1, <1>3
    <2>3. HasBitrate(c)' => step[c] = 3
      BY <2>1 DEF HasBitrate
    <2>4. HasStarted(c)' => step[c] = 3 /\ pc[c] = "ack" /\ res[c] = 0
      <3>0. told'[c] \in {None, r}
        BY <1>1, ReturnsTold DEF TypeOK, Shape
      <3>1. HasStarted(c)' => r = 0
        BY <1>1, <2>1, <3>0, ArgNotNone DEF HasStarted
      <3>2. step[c] # 3 => step[c] < 3
        BY <2>2
      <3> QED
        BY <1>5, <1>8, <3>1, <3>2, ArgNotNone
    <2> QED
      BY <1>1, <2>3, <2>4 DEF Imu, HasBitrate, HasStarted, Configured
  <1> QED
    BY <1>7, <1>8

\* A return of c leaves the other processes alone.
LEMMA ReturnsOnly ==
  ASSUME TypeOK, NEW c \in Client, NEW d \in Client \ {c}, NEW r, Returns(c, r)
  PROVE  pc'[d] = pc[d] /\ call'[d] = call[d] /\ step'[d] = step[d] /\ res'[d] = res[d] /\ told'[d] = told[d]
  BY DEF TypeOK, Shape, Returns

LEMMA ImuReturnsAll ==
  ASSUME ImuInv, NEW c \in Client, NEW r \in Values, Returns(c, r), link' = link, others' = others,
         pc[c] \in {"open", "index", "modify", "ack", "dump", "rest"},
         r = None \/ r = res[c]
  PROVE  \A d \in Client : Imu(d)'
  <1> SUFFICES ASSUME NEW d \in Client PROVE Imu(d)'
    OBVIOUS
  <1>1. CASE d = c
    BY <1>1, ImuReturns
  <1>2. CASE d # c
    BY <1>2, ReturnsOnly, ImuOther DEF ImuInv, IInv
  <1> QED
    BY <1>1, <1>2

\* A step of c to another label that changes nothing else of it.
LEMMA ImuGoto ==
  ASSUME ImuInv, NEW c \in Client, NEW to, Goto(c, to), to \notin {"ack", "done"},
         UNCHANGED << link, call, step, told, others >>, NEW v, res' = res \/ res' = [res EXCEPT ![c] = v]
  PROVE  \A d \in Client : Imu(d)'
  <1>0. pc' = [pc EXCEPT ![c] = to] /\ TypeOK /\ pc'[c] = to
    BY DEF Goto, ImuInv, IInv, TypeOK, Shape
  <1> SUFFICES ASSUME NEW d \in Client PROVE Imu(d)'
    OBVIOUS
  <1>1. CASE d = c
    BY <1>0, <1>1, ImuQuiet
  <1>2. CASE d # c
    <2>1. pc'[d] = pc[d] /\ call'[d] = call[d] /\ step'[d] = step[d] /\ res'[d] = res[d] /\ told'[d] = told[d]
      BY <1>0, <1>2 DEF TypeOK, Shape
    <2> QED
      BY <2>1, ImuOther
  <1> QED
    BY <1>1, <1>2

\* The kernel grants a request of c, which tells every other InitIMUCan.
LEMMA ImuGrantOther ==
  ASSUME ImuInv, NEW c \in Client, NEW d \in Client \ {c}, NEW to, Goto(c, to), NEW rq, Grant(c, rq)
  PROVE  Imu(d)'
  <1>1. pc' = [pc EXCEPT ![c] = to] /\ TypeOK /\ res' = [res EXCEPT ![c] = 0]
        /\ UNCHANGED << call, step, told >> /\ (call[d].op = "InitIMUCan" => others'[d])
    BY DEF Goto, Grant, ImuInv, IInv
  <1>2. pc'[d] = pc[d] /\ call'[d] = call[d] /\ step'[d] = step[d] /\ res'[d] = res[d] /\ told'[d] = told[d]
    BY <1>1 DEF TypeOK, Shape
  <1> QED
    BY <1>1, <1>2, ImuOther

LEMMA ImuGranted ==
  ASSUME ImuInv, NEW c \in Client, Granted(c)
  PROVE  \A d \in Client : Imu(d)'
  <1> DEFINE rq == Request(Exchange(c))
  <1>0. pc[c] = "modify" /\ Goto(c, "ack") /\ Grant(c, rq) /\ TypeOK /\ IInv /\ Imu(c)
    BY DEF Granted, At, ImuInv, IInv
  <1>1. rq \in Requests /\ link \in Link /\ call[c] \in Call /\ step[c] \in 1 .. Len(Script(call[c]))
    BY <1>0, InScript DEF InCall, InExchange, TypeOK, Shape
  <1>2. /\ pc'[c] = "ack" /\ res'[c] = 0 /\ call'[c] = call[c] /\ step'[c] = step[c] /\ others'[c] = others[c]
        /\ link' = Applied(link, rq) /\ link.present
    BY <1>0 DEF Goto, Grant, Accepts, TypeOK, Shape
  <1>3. Imu(c)'
    <2> SUFFICES ASSUME call[c].op = "InitIMUCan", ~others[c]
                 PROVE  (HasBitrate(c) => Configured)' /\ (HasStarted(c) => link.up /\ Configured)'
      BY <1>2 DEF Imu
    <2>1. step[c] = 2 => rq.bittiming = ImuBitrate
      BY <1>1, ImuScript DEF Exchange
    <2>2. step[c] = 3 => rq.bittiming = None /\ rq.if_state = "IF_UP"
      BY <1>1, ImuScript DEF Exchange
    <2> HIDE DEF rq
    <2>3. step[c] = 2 => link'.bittiming = ImuBitrate
      BY <1>1, <1>2, <2>1, ImuApplied
    <2>4. step[c] = 3 => link'.bittiming = ImuBitrate /\ link'.up
      BY <1>0, <1>1, <1>2, <2>2, ImuApplied DEF Imu, HasBitrate, Configured
    <2> QED
      BY <1>2, <2>3, <2>4 DEF HasBitrate, HasStarted, Configured
  <1> QED
    BY <1>0, <1>3, ImuGrantOther

\* A step of a tool touches its own place only, and it makes no call of
\* InitIMUCan.
LEMMA ImuTool ==
  ASSUME ImuInv, NEW c \in Client, ToolStep(c)
  PROVE  \A d \in Client : Imu(d)'
  <1>1. /\ TypeOK /\ pc[c] \in ToolLabels /\ call[c] \in Run /\ call' = call /\ step' = step
        /\ \E to : Goto(c, to)
        /\ pc[c] # "tool ack" => res[c] = None
    BY DEF ImuInv, IInv, TypeOK, Place, ToolStep, SetupOpen, SetupLookup, SetupModify, SetupAck,
           MnlOpen, MnlSend, MnlAck, Send, Exit, Grant, At, ToolLabels
  <1>2. call[c].op # "InitIMUCan"
    BY <1>1 DEF Run
  <1>3. PICK to : pc' = [pc EXCEPT ![c] = to]
    BY <1>1 DEF Goto
  <1>4. pc'[c] # "ack"
    BY <1>1, <1>3 DEF TypeOK, Shape, ToolStep, SetupOpen, SetupLookup, SetupModify, SetupAck,
           MnlOpen, MnlSend, MnlAck, Send, Exit, Goto
  <1>5. Imu(c)'
    BY <1>1, <1>2, <1>4 DEF Imu
  <1>6. \/ \E rq : Grant(c, rq)
        \/ \E r : Exit(c, r)
        \/ UNCHANGED << link, call, step, res, told, fds, leaked, others >>
    BY DEF ToolStep, SetupOpen, SetupLookup, SetupModify, SetupAck, MnlOpen, MnlSend, MnlAck, Send
  <1>7. ASSUME NEW d \in Client \ {c} PROVE Imu(d)'
    <2>1. CASE \E rq : Grant(c, rq)
      BY <1>1, <2>1, ImuGrantOther
    <2>2. CASE \E r : Exit(c, r)
      <3>1. /\ res'[d] = res[d] /\ told'[d] = told[d] /\ pc'[d] = pc[d]
            /\ link' = link /\ others' = others
        BY <1>1, <1>3, <2>2 DEF Exit, TypeOK, Shape
      <3> QED
        BY <1>1, <3>1, ImuOther
    <2>3. CASE UNCHANGED << link, call, step, res, told, fds, leaked, others >>
      <3>1. pc'[d] = pc[d]
        BY <1>1, <1>3 DEF TypeOK, Shape
      <3> QED
        BY <2>3, <3>1, ImuOther
    <2> QED
      BY <1>6, <2>1, <2>2, <2>3
  <1> QED
    BY <1>5, <1>7

LEMMA ImuLibrary ==
  ASSUME ImuInv, NEW c \in Client, ClientStep(c)
  PROVE  \A d \in Client : Imu(d)'
  <1> USE DEF ImuInv
  <1>0. /\ None \in Values /\ res[c] \in Values /\ TypeOK
        /\ pc[c] \in {"dump", "rest"} => Exchange(c).kind = "get"
        /\ pc[c] \in {"sockets", "write", "read"} => Exchange(c).kind = "sockets"
        /\ pc[c] \notin {"ack", "rest", "tool ack"} => res[c] = None
    BY Kept DEF IInv, TypeOK, Place, InCall, InExchange
  <1>1. CASE OpenSock(c)
    BY <1>1, ImuGoto DEF OpenSock
  <1>2. CASE \/ OpenFails(c) \/ OpenLeaks(c) \/ (Lookup(c) /\ Finish(c, None)) \/ SendFails(c)
             \/ Acknowledge(c) \/ (DeviceMessage(c) /\ Finish(c, None)) \/ DumpEnds(c) \/ DumpTruncated(c)
    <2>1. /\ link' = link /\ others' = others /\ pc[c] \in {"open", "index", "modify", "ack", "dump", "rest"}
          /\ Returns(c, None) \/ Returns(c, res[c])
      BY <1>2 DEF OpenFails, OpenLeaks, Lookup, SendFails, Acknowledge, DeviceMessage, DumpEnds,
                  DumpTruncated, Finish, At
    <2> QED
      BY <1>0, <2>1, ImuReturnsAll
  <1>3. CASE Lookup(c) /\ ~Finish(c, None)
    BY <1>3, ImuGoto DEF Lookup
  <1>4. CASE Granted(c)
    BY <1>4, ImuGranted
  <1>5. CASE Refused(c)
    <2>1. Goto(c, "ack") /\ UNCHANGED << link, call, step, res, told, others >> /\ res[c] = None
      BY <1>0, <1>5 DEF Refused, At
    <2>2. ASSUME NEW d \in Client PROVE Imu(d)'
      <3>1. CASE d = c
        <4>1. /\ pc'[c] = "ack" /\ res'[c] = None /\ call'[c] = call[c] /\ step'[c] = step[c] /\ told'[c] = told[c]
              /\ link' = link /\ others'[c] = others[c] /\ Imu(c)
          BY <1>0, <2>1 DEF Goto, TypeOK, Shape
        <4>2. HasStarted(c)' = FALSE /\ (HasBitrate(c)' => HasBitrate(c))
          BY <4>1, ArgNotNone DEF HasStarted, HasBitrate
        <4> QED
          BY <3>1, <4>1, <4>2 DEF Imu, Configured
      <3>2. CASE d # c
        BY <1>0, <2>1, <3>2, ImuOther DEF Goto, TypeOK, Shape
      <3> QED
        BY <3>1, <3>2
    <2> QED
      BY <2>2
  <1>6. CASE DeviceMessage(c) /\ ~Finish(c, None)
    <2>1. Goto(c, "rest") /\ UNCHANGED << link, call, step, told, others >> /\ \E v : res' = [res EXCEPT ![c] = v]
      BY <1>6 DEF DeviceMessage
    <2> QED
      BY <2>1, ImuGoto
  <1>7. CASE Crash(c)
    BY <1>7, ImuGoto DEF Crash
  <1>8. CASE DumpRefused(c)
    BY <1>8, ImuGoto DEF DumpRefused
  <1>9. CASE Main(c)
    <2>1. call[c].op # "InitIMUCan" /\ pc[c] \in {"sockets", "write", "read"}
      <3>1. pc[c] \in {"sockets", "write", "read"}
        BY <1>9 DEF Main, Sockets, Write, Read, At
      <3>2. /\ Exchange(c).kind = "sockets" /\ call[c] \in Call /\ step[c] \in 1 .. Len(Script(call[c]))
        BY <1>0, <3>1, InScript DEF InCall
      <3> QED
        BY <3>1, <3>2, ImuScript DEF Exchange
    <2>2. \E to \in {"done", "write", "read", "open"} : Goto(c, to)
      BY <1>9 DEF Main, Sockets, Write, Read
    <2>3. /\ link' = link /\ others' = others /\ call' = call /\ res' = res
          /\ step' = step \/ step' = [step EXCEPT ![c] = @ + 1]
          /\ told' = told \/ told' = [told EXCEPT ![c] = None]
      BY <1>9 DEF Main, Sockets, Write, Read
    <2>4. PICK to \in {"done", "write", "read", "open"} : pc' = [pc EXCEPT ![c] = to]
      BY <2>2 DEF Goto
    <2>5. ASSUME NEW d \in Client PROVE Imu(d)'
      <3>1. CASE d = c
        <4>1. pc'[c] # "ack"
          BY <1>0, <2>4 DEF TypeOK, Shape
        <4> QED
          BY <2>1, <2>3, <3>1, <4>1 DEF Imu
      <3>2. CASE d # c
        BY <1>0, <2>3, <2>4, <3>2, ImuOther DEF TypeOK, Shape
      <3> QED
        BY <3>1, <3>2
    <2> QED
      BY <2>5
  <1> QED
    BY <1>1, <1>2, <1>3, <1>4, <1>5, <1>6, <1>7, <1>8, <1>9 DEF ClientStep, Set, Get

\* A call or a run that begins, and a call that is left, has nothing yet.
LEMMA ImuCall ==
  ASSUME ImuInv, NEW c \in Client,
         Leave(c) \/ (\E k \in Calls[c] : Begin(c, k)) \/ (\E k \in Runs[c] : RunTool(c, k))
  PROVE  \A d \in Client : Imu(d)'
  <1>0. TypeOK /\ Place(c) /\ link' = link
    BY DEF ImuInv, IInv, TypeOK, Leave, Begin, RunTool
  <1>1. PICK to \in {"idle", "open", "tool"} : pc' = [pc EXCEPT ![c] = to]
    BY DEF Leave, Begin, RunTool, Goto
  <1>2. step'[c] = 1
    BY <1>0 DEF Leave, Begin, RunTool, At, Place, TypeOK, Shape
  <1>3. Imu(c)'
    <2>1. pc'[c] \notin {"ack", "done"}
      BY <1>0, <1>1 DEF TypeOK, Shape
    <2> QED
      BY <1>2, <2>1 DEF Imu, HasBitrate, HasStarted
  <1>4. ASSUME NEW d \in Client \ {c} PROVE Imu(d)'
    <2>1. /\ pc'[d] = pc[d] /\ call'[d] = call[d] /\ step'[d] = step[d] /\ res'[d] = res[d]
          /\ told'[d] = told[d] /\ others'[d] = others[d]
      BY <1>0, <1>1 DEF Leave, Begin, RunTool, TypeOK, Shape
    <2> QED
      BY <1>0, <2>1, ImuOther
  <1> QED
    BY <1>3, <1>4

LEMMA ImuDevice ==
  ASSUME ImuInv, Device
  PROVE  \A d \in Client : Imu(d)'
  <1>1. UNCHANGED << pc, call, step, res, told, others >> /\ link \in Link
    BY DEF Device, ImuInv, IInv, TypeOK, Shape
  <1>2. link'.present => link.present /\ link'.up = link.up /\ link'.bittiming = link.bittiming
    <2>1. link' \in Moved(link)
      BY DEF Device
    <2>2. CASE link' = [link EXCEPT !.state = CAN_STATE_BUS_OFF] \/ link' = [link EXCEPT !.state = CAN_STATE_ERROR_ACTIVE]
      BY <1>1, <2>2 DEF Link
    <2>3. CASE link' = [Down(link) EXCEPT !.present = FALSE]
      <3>1. Down(link) \in Link
        BY <1>1, LinkOps
      <3> QED
        BY <2>3, <3>1 DEF Link
    <2> QED
      BY <2>1, <2>2, <2>3 DEF Moved
  <1> QED
    BY <1>1, <1>2, ImuOther

LEMMA ImuInductive == ImuInv /\ [SetupNext]_vars => ImuInv'
  <1> SUFFICES ASSUME ImuInv, [SetupNext]_vars PROVE ImuInv'
    OBVIOUS
  <1>1. IInv'
    BY Inductive DEF ImuInv
  <1> SUFFICES \A d \in Client : Imu(d)'
    BY <1>1 DEF ImuInv
  <1>2. CASE UNCHANGED vars
    BY <1>2 DEF vars, ImuInv, Imu, HasBitrate, HasStarted, Configured
  <1>3. CASE Device
    BY <1>3, ImuDevice
  <1>4. ASSUME NEW c \in Client, ClientStep(c) PROVE \A d \in Client : Imu(d)'
    BY <1>4, ImuLibrary
  <1>5. ASSUME NEW c \in Client, ToolStep(c) PROVE \A d \in Client : Imu(d)'
    BY <1>5, ImuTool
  <1>6. ASSUME NEW c \in Client,
               Leave(c) \/ (\E k \in Calls[c] : Begin(c, k)) \/ (\E k \in Runs[c] : RunTool(c, k))
        PROVE  \A d \in Client : Imu(d)'
    BY <1>6, ImuCall
  <1> QED
    BY <1>2, <1>3, <1>4, <1>5, <1>6 DEF SetupNext, Next

\* InitIMUCan (can_scoket1.c:49-69) returns true only with the device up at
\* the bit rate of the IMU, unless somebody else reconfigured it meanwhile.
THEOREM SetupInitConfigured == SetupSpec => []InitConfigured
  <1>1. Init => ImuInv
    <2> SUFFICES ASSUME Init, NEW c \in Client PROVE Imu(c)
      BY InitIInv DEF ImuInv
    <2>1. pc[c] = "idle" /\ step[c] = 1
      BY DEF Init
    <2> QED
      BY <2>1 DEF Imu, HasBitrate, HasStarted
  <1>2. ImuInv => InitConfigured
    BY DEF ImuInv, Imu, HasStarted, Configured, InitConfigured
  <1> QED
    BY <1>1, ImuInductive, <1>2, PTL DEF SetupSpec

----------------------------------------------------------------------------
(* The library and the tools implement the atomic register of LinkRegister *)
(* for every set of processes, calls and devices.                          *)
----------------------------------------------------------------------------
(* What a request carried out is worth to the register.                    *)

Rq(state, ms, restart, bt, mode) ==
  [if_state |-> state, restart_ms |-> ms, restart |-> restart, bittiming |-> bt, ctrlmode |-> mode]

LEMMA NoneIsNoString == None # "IF_UP" /\ None # "IF_DOWN"
  <1>1. None \notin Int \cup {"IF_UP", "IF_DOWN"}
    BY CanAssumption, Zenon DEF CanAssumption
  <1> QED
    BY <1>1, Zenon

\* An interval goes into the request when it is positive or marked.
LEMMA RequestIs ==
  ASSUME NEW e, NEW sent \in BOOLEAN, (e.info.restart_ms > 0 \/ e.info.disable_autorestart) = sent
  PROVE  Request(e) = Rq(e.if_state, IF sent THEN e.info.restart_ms ELSE None, e.info.restart,
                         e.info.bittiming, e.info.ctrlmode)
  BY Zenon DEF Request, Rq

\* Zero turns the automatic restart off: it is the one interval that has to be
\* marked to be sent.
LEMMA RequestOf ==
  /\ Request(can_do_start) = Rq("IF_UP", None, FALSE, None, None)
  /\ Request(can_do_stop) = Rq("IF_DOWN", None, FALSE, None, None)
  /\ Request(RestartNow) = Rq(None, None, TRUE, None, None)
  /\ \A b : Request(can_set_bittiming(b)) = Rq(None, None, FALSE, b, None)
  /\ \A m : Request(can_set_ctrlmode(m)) = Rq(None, None, FALSE, None, m)
  /\ \A ms \in RestartMs : Request(can_set_restart_ms(ms)) = Rq(None, ms, FALSE, None, None)
  <1>0. ASSUME NEW e, e.info.restart_ms = 0, e.info.disable_autorestart = FALSE
        PROVE  Request(e) = Rq(e.if_state, None, e.info.restart, e.info.bittiming, e.info.ctrlmode)
    <2>1. (e.info.restart_ms > 0 \/ e.info.disable_autorestart) = FALSE
      BY <1>0
    <2> QED
      BY <2>1, RequestIs
  <1>1. Request(can_do_start) = Rq("IF_UP", None, FALSE, None, None)
    <2> DEFINE e == can_do_start
    <2>1. /\ e.info.restart_ms = 0 /\ e.info.disable_autorestart = FALSE /\ e.if_state = "IF_UP"
          /\ e.info.restart = FALSE /\ e.info.bittiming = None /\ e.info.ctrlmode = None
      BY DEF can_do_start, set_link, NoInfo
    <2> HIDE DEF e
    <2> QED
      BY <1>0, <2>1 DEF e
  <1>2. Request(can_do_stop) = Rq("IF_DOWN", None, FALSE, None, None)
    <2> DEFINE e == can_do_stop
    <2>1. /\ e.info.restart_ms = 0 /\ e.info.disable_autorestart = FALSE /\ e.if_state = "IF_DOWN"
          /\ e.info.restart = FALSE /\ e.info.bittiming = None /\ e.info.ctrlmode = None
      BY DEF can_do_stop, set_link, NoInfo
    <2> HIDE DEF e
    <2> QED
      BY <1>0, <2>1 DEF e
  <1>3. Request(RestartNow) = Rq(None, None, TRUE, None, None)
    <2> DEFINE e == RestartNow
    <2>1. /\ e.info.restart_ms = 0 /\ e.info.disable_autorestart = FALSE /\ e.if_state = None
          /\ e.info.restart = TRUE /\ e.info.bittiming = None /\ e.info.ctrlmode = None
      BY DEF RestartNow, set_link, NoInfo
    <2> HIDE DEF e
    <2> QED
      BY <1>0, <2>1 DEF e
  <1>4. ASSUME NEW b PROVE Request(can_set_bittiming(b)) = Rq(None, None, FALSE, b, None)
    <2> DEFINE e == can_set_bittiming(b)
    <2>1. /\ e.info.restart_ms = 0 /\ e.info.disable_autorestart = FALSE /\ e.if_state = None
          /\ e.info.restart = FALSE /\ e.info.bittiming = b /\ e.info.ctrlmode = None
      BY DEF can_set_bittiming, set_link, NoInfo
    <2> HIDE DEF e
    <2> QED
      BY <1>0, <2>1 DEF e
  <1>5. ASSUME NEW m PROVE Request(can_set_ctrlmode(m)) = Rq(None, None, FALSE, None, m)
    <2> DEFINE e == can_set_ctrlmode(m)
    <2>1. /\ e.info.restart_ms = 0 /\ e.info.disable_autorestart = FALSE /\ e.if_state = None
          /\ e.info.restart = FALSE /\ e.info.bittiming = None /\ e.info.ctrlmode = m
      BY DEF can_set_ctrlmode, set_link, NoInfo
    <2> HIDE DEF e
    <2> QED
      BY <1>0, <2>1 DEF e
  <1>6. ASSUME NEW ms \in RestartMs
        PROVE  Request(can_set_restart_ms(ms)) = Rq(None, ms, FALSE, None, None)
    <2>1. ms \in Nat
      BY CanAssumption
    <2>2. ms > 0 \/ ms = 0
      BY <2>1
    <2> DEFINE e == can_set_restart_ms(ms)
    <2>3. /\ e.info.restart_ms = ms /\ e.info.disable_autorestart = (ms = 0) /\ e.if_state = None
          /\ e.info.restart = FALSE /\ e.info.bittiming = None /\ e.info.ctrlmode = None
      BY DEF can_set_restart_ms, set_link, NoInfo
    <2> HIDE DEF e
    <2>4. (e.info.restart_ms > 0 \/ e.info.disable_autorestart) = TRUE
      BY <2>2, <2>3
    <2>5. Request(e) = Rq(None, ms, FALSE, None, None)
      BY <2>3, <2>4, RequestIs
    <2> QED
      BY <2>5 DEF e
  <1> QED
    BY <1>1, <1>2, <1>3, <1>4, <1>5, <1>6

LEMMA AppliedOf ==
  ASSUME NEW l \in Link
  PROVE  /\ Applied(l, Rq("IF_UP", None, FALSE, None, None)) = Up(l)
         /\ Applied(l, Rq("IF_DOWN", None, FALSE, None, None)) = Down(l)
         /\ Applied(l, Rq(None, None, TRUE, None, None)) = [l EXCEPT !.state = CAN_STATE_ERROR_ACTIVE]
         /\ \A b : b # None => Applied(l, Rq(None, None, FALSE, b, None)) = [l EXCEPT !.bittiming = b]
         /\ \A m : m # None => Applied(l, Rq(None, None, FALSE, None, m)) = [l EXCEPT !.ctrlmode = m]
         /\ \A ms : ms # None => Applied(l, Rq(None, ms, FALSE, None, None)) = [l EXCEPT !.restart_ms = ms]
  <1>0. /\ [l EXCEPT !.restart_ms = l.restart_ms, !.bittiming = l.bittiming, !.ctrlmode = l.ctrlmode,
                     !.state = l.state] = l
        /\ [l EXCEPT !.restart_ms = l.restart_ms, !.bittiming = l.bittiming, !.ctrlmode = l.ctrlmode,
                     !.state = CAN_STATE_ERROR_ACTIVE] = [l EXCEPT !.state = CAN_STATE_ERROR_ACTIVE]
        /\ \A b : [l EXCEPT !.restart_ms = l.restart_ms, !.bittiming = b, !.ctrlmode = l.ctrlmode,
                     !.state = l.state] = [l EXCEPT !.bittiming = b]
        /\ \A m : [l EXCEPT !.restart_ms = l.restart_ms, !.bittiming = l.bittiming, !.ctrlmode = m,
                     !.state = l.state] = [l EXCEPT !.ctrlmode = m]
        /\ \A ms : [l EXCEPT !.restart_ms = ms, !.bittiming = l.bittiming, !.ctrlmode = l.ctrlmode,
                     !.state = l.state] = [l EXCEPT !.restart_ms = ms]
    BY DEF Link
  <1>1. Applied(l, Rq("IF_UP", None, FALSE, None, None)) = Up(l)
    BY <1>0 DEF Applied, Rq
  <1>2. Applied(l, Rq("IF_DOWN", None, FALSE, None, None)) = Down(l)
    BY <1>0 DEF Applied, Rq
  <1>3. Applied(l, Rq(None, None, TRUE, None, None)) = [l EXCEPT !.state = CAN_STATE_ERROR_ACTIVE]
    BY <1>0, NoneIsNoString DEF Applied, Rq
  <1>4. ASSUME NEW b, b # None
        PROVE  Applied(l, Rq(None, None, FALSE, b, None)) = [l EXCEPT !.bittiming = b]
    BY <1>0, <1>4, NoneIsNoString DEF Applied, Rq
  <1>5. ASSUME NEW m, m # None
        PROVE  Applied(l, Rq(None, None, FALSE, None, m)) = [l EXCEPT !.ctrlmode = m]
    BY <1>0, <1>5, NoneIsNoString DEF Applied, Rq
  <1>6. ASSUME NEW ms, ms # None
        PROVE  Applied(l, Rq(None, ms, FALSE, None, None)) = [l EXCEPT !.restart_ms = ms]
    BY <1>0, <1>6, NoneIsNoString DEF Applied, Rq
  <1> QED
    BY <1>1, <1>2, <1>3, <1>4, <1>5, <1>6

LEMMA EffectsOf ==
  ASSUME NEW k, NEW p, NEW l
  PROVE  /\ p = "up" => << Up(l), 0 >> \in Effects(k, p, l)
         /\ p = "down" => << Down(l), 0 >> \in Effects(k, p, l)
         /\ p = "bitrate" =>
              << [l EXCEPT !.bittiming = IF k.op = "InitIMUCan" THEN ImuBitrate ELSE k.arg], 0 >>
                \in Effects(k, p, l)
         /\ p = "can_set_restart_ms" => << [l EXCEPT !.restart_ms = k.arg], 0 >> \in Effects(k, p, l)
         /\ p = "can_set_ctrlmode" => << [l EXCEPT !.ctrlmode = k.arg], 0 >> \in Effects(k, p, l)
         /\ p = "restart" /\ l.state = CAN_STATE_BUS_OFF /\ l.restart_ms = 0 =>
              << [l EXCEPT !.state = CAN_STATE_ERROR_ACTIVE], 0 >> \in Effects(k, p, l)
         /\ p = IFLA_CAN_MAX /\ p \notin l.attrs => << l, Junk >> \in Effects(k, p, l)
         /\ p \in Attr /\ ~(p = IFLA_CAN_MAX /\ p \notin l.attrs) => << l, Reported(l, p) >> \in Effects(k, p, l)
  <1>1. p = "up" => << Up(l), 0 >> \in Effects(k, p, l)
    BY DEF Effects, IFLA_CAN_MAX
  <1>2. p = "down" => << Down(l), 0 >> \in Effects(k, p, l)
    BY DEF Effects, IFLA_CAN_MAX
  <1>3. p = "bitrate" =>
          << [l EXCEPT !.bittiming = IF k.op = "InitIMUCan" THEN ImuBitrate ELSE k.arg], 0 >> \in Effects(k, p, l)
    BY DEF Effects, IFLA_CAN_MAX
  <1>4. p = "can_set_restart_ms" => << [l EXCEPT !.restart_ms = k.arg], 0 >> \in Effects(k, p, l)
    BY DEF Effects, IFLA_CAN_MAX
  <1>5. p = "can_set_ctrlmode" => << [l EXCEPT !.ctrlmode = k.arg], 0 >> \in Effects(k, p, l)
    BY DEF Effects, IFLA_CAN_MAX
  <1>6. p = "restart" /\ l.state = CAN_STATE_BUS_OFF /\ l.restart_ms = 0 =>
          << [l EXCEPT !.state = CAN_STATE_ERROR_ACTIVE], 0 >> \in Effects(k, p, l)
    BY DEF Effects, IFLA_CAN_MAX
  <1>7. p = IFLA_CAN_MAX /\ p \notin l.attrs => << l, Junk >> \in Effects(k, p, l)
    BY DEF Effects, IFLA_CAN_MAX
  <1>8. p \in Attr /\ ~(p = IFLA_CAN_MAX /\ p \notin l.attrs) => << l, Reported(l, p) >> \in Effects(k, p, l)
    BY DEF Effects, IFLA_CAN_MAX, Attr
  <1> QED
    BY <1>1, <1>2, <1>3, <1>4, <1>5, <1>6, <1>7, <1>8

LEMMA WantedIs ==
  ASSUME NEW k, NEW n, NEW l
  PROVE  Wanted(<< k, n >>, l) = Effects(k, Purpose(k, n), l)
  <1>1. << k, n >>[1] = k /\ << k, n >>[2] = n
    OBVIOUS
  <1> QED
    BY <1>1, Zenon DEF Wanted

\* The words of the callers for the exchanges of each call.
LEMMA PurposeOf ==
  ASSUME NEW k, NEW n
  PROVE  /\ k.op \in {"can_do_start", "can-setup --up", "can_scoket3 up"} => Purpose(k, n) = "up"
         /\ k.op \in {"can_do_stop", "can-setup --down", "can_scoket3 down"} => Purpose(k, n) = "down"
         /\ k.op \in {"can_set_bittiming", "can_set_bitrate", "can_set_bitrate_samplepoint",
                      "can-setup --bitrate"} => Purpose(k, n) = "bitrate"
         /\ k.op = "can_do_restart" => Purpose(k, n) = << "state", "restart_ms", "restart" >>[n]
         /\ k.op = "InitIMUCan" => Purpose(k, n) = << "down", "bitrate", "up" >>[n]
         /\ k.op = "main" => Purpose(k, n) = << "bitrate", "up", "sockets", "down" >>[n]
         /\ k.op = "can_set_restart_ms" => Purpose(k, n) = "can_set_restart_ms"
         /\ k.op = "can_set_ctrlmode" => Purpose(k, n) = "can_set_ctrlmode"
         /\ k.op \in DOMAIN Getter => Purpose(k, n) = Getter[k.op]
  BY DEF Purpose, Getter

\* A request granted for a purpose is what the register wants done.
LEMMA AppliedWanted ==
  ASSUME NEW l \in Link, NEW k, NEW n, NEW p, p = Purpose(k, n)
  PROVE  /\ p = "up" => << Applied(l, Request(can_do_start)), 0 >> \in Wanted(<< k, n >>, l)
         /\ p = "down" => << Applied(l, Request(can_do_stop)), 0 >> \in Wanted(<< k, n >>, l)
         /\ p = "restart" /\ Accepts(l, Request(RestartNow)) =>
              << Applied(l, Request(RestartNow)), 0 >> \in Wanted(<< k, n >>, l)
         /\ p = "bitrate" /\ k.op = "InitIMUCan" =>
              << Applied(l, Request(can_set_bittiming(ImuBitrate))), 0 >> \in Wanted(<< k, n >>, l)
         /\ p = "bitrate" /\ k.op # "InitIMUCan" /\ k.arg \in Bittiming =>
              << Applied(l, Request(can_set_bittiming(k.arg))), 0 >> \in Wanted(<< k, n >>, l)
         /\ p = "can_set_restart_ms" /\ k.arg \in RestartMs =>
              << Applied(l, Request(can_set_restart_ms(k.arg))), 0 >> \in Wanted(<< k, n >>, l)
         /\ p = "can_set_ctrlmode" /\ k.arg \in {0, 1} =>
              << Applied(l, Request(can_set_ctrlmode(k.arg))), 0 >> \in Wanted(<< k, n >>, l)
  <1>0. Wanted(<< k, n >>, l) = Effects(k, p, l)
    BY WantedIs
  <1>1. ASSUME p = "up" PROVE << Applied(l, Request(can_do_start)), 0 >> \in Wanted(<< k, n >>, l)
    <2>1. Applied(l, Request(can_do_start)) = Up(l)
      BY RequestOf, AppliedOf, Zenon
    <2>2. << Up(l), 0 >> \in Effects(k, p, l)
      BY <1>1, EffectsOf
    <2> QED
      BY <1>0, <2>1, <2>2, Zenon
  <1>2. ASSUME p = "down" PROVE << Applied(l, Request(can_do_stop)), 0 >> \in Wanted(<< k, n >>, l)
    <2>1. Applied(l, Request(can_do_stop)) = Down(l)
      BY RequestOf, AppliedOf, Zenon
    <2>2. << Down(l), 0 >> \in Effects(k, p, l)
      BY <1>2, EffectsOf
    <2> QED
      BY <1>0, <2>1, <2>2, Zenon
  <1>3. ASSUME p = "restart", Accepts(l, Request(RestartNow))
        PROVE  << Applied(l, Request(RestartNow)), 0 >> \in Wanted(<< k, n >>, l)
    <2>1. Applied(l, Request(RestartNow)) = [l EXCEPT !.state = CAN_STATE_ERROR_ACTIVE]
      BY RequestOf, AppliedOf, Zenon
    <2>2. Request(RestartNow).restart
      BY RequestOf DEF Rq
    <2>3. l.state = CAN_STATE_BUS_OFF /\ l.restart_ms = 0
      BY <1>3, <2>2 DEF Accepts
    <2>4. << [l EXCEPT !.state = CAN_STATE_ERROR_ACTIVE], 0 >> \in Effects(k, p, l)
      BY <1>3, <2>3, EffectsOf, Zenon
    <2> QED
      BY <1>0, <2>1, <2>4, Zenon
  <1>4. ASSUME NEW b, b # None, p = "bitrate", b = IF k.op = "InitIMUCan" THEN ImuBitrate ELSE k.arg
        PROVE  << Applied(l, Request(can_set_bittiming(b))), 0 >> \in Wanted(<< k, n >>, l)
    <2>3. Request(can_set_bittiming(b)) = Rq(None, None, FALSE, b, None)
      BY <1>4, RequestOf
    <2>4. Applied(l, Rq(None, None, FALSE, b, None)) = [l EXCEPT !.bittiming = b]
      BY <1>4, AppliedOf
    <2>1. Applied(l, Request(can_set_bittiming(b))) = [l EXCEPT !.bittiming = b]
      BY <2>3, <2>4, Zenon
    <2>2. << [l EXCEPT !.bittiming = b], 0 >> \in Effects(k, p, l)
      BY <1>4, EffectsOf, Zenon
    <2> QED
      BY <1>0, <2>1, <2>2, Zenon
  <1>5. ASSUME p = "can_set_restart_ms", k.arg \in RestartMs
        PROVE  << Applied(l, Request(can_set_restart_ms(k.arg))), 0 >> \in Wanted(<< k, n >>, l)
    <2>0. k.arg # None
      BY <1>5, ArgNotNone, Zenon
    <2>3. Request(can_set_restart_ms(k.arg)) = Rq(None, k.arg, FALSE, None, None)
      BY <1>5, RequestOf
    <2>4. Applied(l, Rq(None, k.arg, FALSE, None, None)) = [l EXCEPT !.restart_ms = k.arg]
      BY <2>0, AppliedOf
    <2>1. Applied(l, Request(can_set_restart_ms(k.arg))) = [l EXCEPT !.restart_ms = k.arg]
      BY <2>3, <2>4, Zenon
    <2>2. << [l EXCEPT !.restart_ms = k.arg], 0 >> \in Effects(k, p, l)
      BY <1>5, EffectsOf, Zenon
    <2> QED
      BY <1>0, <2>1, <2>2, Zenon
  <1>6. ASSUME p = "can_set_ctrlmode", k.arg \in {0, 1}
        PROVE  << Applied(l, Request(can_set_ctrlmode(k.arg))), 0 >> \in Wanted(<< k, n >>, l)
    <2>0. k.arg # None
      BY <1>6, ArgNotNone, Zenon
    <2>3. Request(can_set_ctrlmode(k.arg)) = Rq(None, None, FALSE, None, k.arg)
      BY <1>6, RequestOf
    <2>4. Applied(l, Rq(None, None, FALSE, None, k.arg)) = [l EXCEPT !.ctrlmode = k.arg]
      BY <2>0, AppliedOf
    <2>1. Applied(l, Request(can_set_ctrlmode(k.arg))) = [l EXCEPT !.ctrlmode = k.arg]
      BY <2>3, <2>4, Zenon
    <2>2. << [l EXCEPT !.ctrlmode = k.arg], 0 >> \in Effects(k, p, l)
      BY <1>6, EffectsOf, Zenon
    <2> QED
      BY <1>0, <2>1, <2>2, Zenon
  <1> QED
    BY <1>1, <1>2, <1>3, <1>4, <1>5, <1>6, ArgNotNone, Zenon

\* What the kernel carries out for the n-th exchange of a call, and for a tool,
\* is what its caller wants from it.
LEMMA SetWanted ==
  ASSUME NEW l \in Link, NEW k \in Call, NEW n \in 1 .. Len(Script(k)), Script(k)[n].kind = "set",
         Accepts(l, Request(Script(k)[n]))
  PROVE  << Applied(l, Request(Script(k)[n])), 0 >> \in Wanted(<< k, n >>, l)
  <1>1. CASE k.op = "can_do_start"
    <2>1. Script(k)[n] = can_do_start
      <3>1. Script(k) = << can_do_start >>
        BY <1>1, ScriptOf
      <3> QED
        BY <3>1
    <2>2. Purpose(k, n) = "up"
      BY <1>1, PurposeOf
    <2> QED
      BY <2>1, <2>2, AppliedWanted, Zenon
  <1>2. CASE k.op = "can_do_stop"
    <2>1. Script(k)[n] = can_do_stop
      <3>1. Script(k) = << can_do_stop >>
        BY <1>2, ScriptOf
      <3> QED
        BY <3>1
    <2>2. Purpose(k, n) = "down"
      BY <1>2, PurposeOf
    <2> QED
      BY <2>1, <2>2, AppliedWanted, Zenon
  <1>3. CASE k.op = "can_do_restart"
    <2>1. Script(k) = << get_link("state"), get_link("restart_ms"), RestartNow >>
      BY <1>3, ScriptOf
    <2>2. get_link("state").kind = "get" /\ get_link("restart_ms").kind = "get"
      BY DEF get_link
    <2>3. n = 3
      BY <2>1, <2>2
    <2>4. Script(k)[n] = RestartNow
      BY <2>1, <2>3
    <2>5. Purpose(k, n) = "restart"
      <3>1. Purpose(k, n) = << "state", "restart_ms", "restart" >>[n]
        BY <1>3, PurposeOf
      <3> QED
        BY <2>3, <3>1
    <2> QED
      BY <2>4, <2>5, AppliedWanted, Zenon
  <1>4. CASE k.op = "InitIMUCan"
    <2>1. Script(k) = << can_do_stop, can_set_bittiming(ImuBitrate), can_do_start >>
      BY <1>4, ScriptOf
    <2>2. n \in {1, 2, 3}
      BY <2>1
    <2>3. Purpose(k, n) = << "down", "bitrate", "up" >>[n]
      BY <1>4, PurposeOf
    <2>4. \/ Script(k)[n] = can_do_stop /\ Purpose(k, n) = "down"
          \/ Script(k)[n] = can_set_bittiming(ImuBitrate) /\ Purpose(k, n) = "bitrate"
          \/ Script(k)[n] = can_do_start /\ Purpose(k, n) = "up"
      BY <2>1, <2>2, <2>3
    <2> QED
      BY <1>4, <2>4, AppliedWanted, Zenon
  <1>5. CASE k.op \in DOMAIN Getter
    <2>1. Script(k)[n] = get_link(Getter[k.op])
      BY <1>5, ScriptOf
    <2> QED
      BY <2>1 DEF get_link
  <1>6. CASE k.op \in {"can_set_bittiming", "can_set_bitrate", "can_set_bitrate_samplepoint"} /\ k.arg \in Bittiming
    <2>1. Script(k)[n] = can_set_bittiming(k.arg)
      <3>1. Script(k) = << can_set_bittiming(k.arg) >>
        BY <1>6, ScriptOf
      <3> QED
        BY <3>1
    <2>2. Purpose(k, n) = "bitrate" /\ k.op # "InitIMUCan"
      BY <1>6, PurposeOf
    <2> QED
      BY <1>6, <2>1, <2>2, AppliedWanted, Zenon
  <1>7. CASE k.op = "main" /\ k.arg \in Bittiming
    <2>1. Script(k) = << can_set_bittiming(k.arg), can_do_start, Io("sockets"), can_do_stop >>
      BY <1>7, ScriptOf
    <2>2. Io("sockets").kind = "sockets"
      BY DEF Io
    <2>3. n \in {1, 2, 4}
      BY <2>1, <2>2
    <2>4. Purpose(k, n) = << "bitrate", "up", "sockets", "down" >>[n]
      BY <1>7, PurposeOf
    <2>5. \/ Script(k)[n] = can_do_stop /\ Purpose(k, n) = "down"
          \/ Script(k)[n] = can_set_bittiming(k.arg) /\ Purpose(k, n) = "bitrate"
          \/ Script(k)[n] = can_do_start /\ Purpose(k, n) = "up"
      BY <2>1, <2>3, <2>4
    <2>6. k.op # "InitIMUCan"
      BY <1>7
    <2> QED
      BY <1>7, <2>5, <2>6, AppliedWanted, Zenon
  <1>8. CASE k.op = "can_set_restart_ms" /\ k.arg \in RestartMs
    <2>1. Script(k)[n] = can_set_restart_ms(k.arg)
      <3>1. Script(k) = << can_set_restart_ms(k.arg) >>
        BY <1>8, ScriptOf
      <3> QED
        BY <3>1
    <2>2. Purpose(k, n) = "can_set_restart_ms"
      BY <1>8, PurposeOf
    <2> QED
      BY <1>8, <2>1, <2>2, AppliedWanted, Zenon
  <1>9. CASE k.op = "can_set_ctrlmode" /\ k.arg \in {0, 1}
    <2>1. Script(k)[n] = can_set_ctrlmode(k.arg)
      <3>1. Script(k) = << can_set_ctrlmode(k.arg) >>
        BY <1>9, ScriptOf
      <3> QED
        BY <3>1
    <2>2. Purpose(k, n) = "can_set_ctrlmode"
      BY <1>9, PurposeOf
    <2> QED
      BY <1>9, <2>1, <2>2, AppliedWanted, Zenon
  <1> QED
    BY <1>1, <1>2, <1>3, <1>4, <1>5, <1>6, <1>7, <1>8, <1>9, CallCases

LEMMA ToolWanted ==
  ASSUME NEW l \in Link, NEW k \in Run, k.arg # 0, NEW n
  PROVE  << Applied(l, ToolRequest(k)), 0 >> \in Wanted(<< k, n >>, l)
  <1>1. CASE k.op \in {"can-setup --up", "can_scoket3 up"}
    <2>1. ToolRequest(k) = Request(can_do_start) /\ Purpose(k, n) = "up"
      BY <1>1, PurposeOf DEF ToolRequest
    <2> QED
      BY <2>1, AppliedWanted, Zenon
  <1>2. CASE k.op \in {"can-setup --down", "can_scoket3 down"}
    <2>1. ToolRequest(k) = Request(can_do_stop) /\ Purpose(k, n) = "down"
      BY <1>2, PurposeOf DEF ToolRequest
    <2> QED
      BY <2>1, AppliedWanted, Zenon
  <1>3. CASE k.op = "can-setup --bitrate" /\ k.arg \in Bittiming
    <2>1. ToolRequest(k) = Request(can_set_bittiming(k.arg))
      BY <1>3 DEF ToolRequest, can_set_bitrate
    <2>2. Purpose(k, n) = "bitrate" /\ k.op # "InitIMUCan"
      BY <1>3, PurposeOf
    <2> QED
      BY <1>3, <2>1, <2>2, AppliedWanted, Zenon
  <1> QED
    BY <1>1, <1>2, <1>3 DEF Run

\* A value read is the one the device reports, or junk for the error counters
\* of a device that reports none.
LEMMA GetWanted ==
  ASSUME NEW l \in Link, NEW k \in Call, NEW n \in 1 .. Len(Script(k)), Script(k)[n].kind = "get"
  PROVE  LET a == Script(k)[n].attr IN
         /\ a = IFLA_CAN_MAX /\ a \notin l.attrs => << l, Junk >> \in Wanted(<< k, n >>, l)
         /\ ~(a = IFLA_CAN_MAX /\ a \notin l.attrs) => << l, Reported(l, a) >> \in Wanted(<< k, n >>, l)
  <1>0. Wanted(<< k, n >>, l) = Effects(k, Purpose(k, n), l)
    BY WantedIs
  <1>1. Purpose(k, n) = Script(k)[n].attr /\ Purpose(k, n) \in Attr
    <2>0. \A a : get_link(a).attr = a
      BY DEF get_link
    <2>1. CASE k.op \in DOMAIN Getter
      <3>1. Script(k) = << get_link(Getter[k.op]) >> /\ Purpose(k, n) = Getter[k.op] /\ Getter[k.op] \in Attr
        BY <2>1, ScriptOf, PurposeOf, GetterTypes
      <3> QED
        BY <2>0, <3>1
    <2>2. CASE k.op = "can_do_restart"
      <3>1. Script(k) = << get_link("state"), get_link("restart_ms"), RestartNow >> /\ RestartNow.kind = "set"
        BY <2>2, ScriptOf, ExchangeTypes
      <3>2. n \in {1, 2}
        BY <3>1
      <3>3. Purpose(k, n) = << "state", "restart_ms", "restart" >>[n]
        BY <2>2, PurposeOf
      <3> QED
        BY <2>0, <3>1, <3>2, <3>3 DEF Attr
    <2>3. CASE k.op = "can_do_start"
      BY <2>3, ScriptOf, ExchangeTypes
    <2>4. CASE k.op = "can_do_stop"
      BY <2>4, ScriptOf, ExchangeTypes
    <2>5. CASE k.op = "InitIMUCan"
      BY <2>5, ImuScript
    <2>6. CASE k.op \in {"can_set_bittiming", "can_set_bitrate", "can_set_bitrate_samplepoint"} /\ k.arg \in Bittiming
      BY <2>6, ScriptOf, ExchangeTypes
    <2>7. CASE k.op = "main" /\ k.arg \in Bittiming
      BY <2>7, ScriptOf, ExchangeTypes
    <2>8. CASE k.op = "can_set_restart_ms" /\ k.arg \in RestartMs
      BY <2>8, ScriptOf, ExchangeTypes
    <2>9. CASE k.op = "can_set_ctrlmode" /\ k.arg \in {0, 1}
      BY <2>9, ScriptOf, ExchangeTypes
    <2> QED
      BY <2>1, <2>2, <2>3, <2>4, <2>5, <2>6, <2>7, <2>8, <2>9, CallCases
  <1> QED
    BY <1>0, <1>1, EffectsOf

----------------------------------------------------------------------------
(* Steps of the register.                                                  *)

Working(c) == Busy(c) \/ pc[c] \in {"rest", "dead"}

Task == [c \in Client |-> IF Working(c) THEN << call[c], step[c] >> ELSE None]

\* A step of c touches its own place only.
Alone(c) ==
  \A d \in Client \ {c} : pc'[d] = pc[d] /\ call'[d] = call[d] /\ step'[d] = step[d]

LEMMA TaskOf ==
  ASSUME NEW c \in Client
  PROVE  /\ Task[c] = IF Working(c) THEN << call[c], step[c] >> ELSE None
         /\ Task'[c] = IF Working(c)' THEN << call'[c], step'[c] >> ELSE None
  BY DEF Task

LEMMA TaskTurns ==
  ASSUME NEW c \in Client, Alone(c)
  PROVE  Task' = [Task EXCEPT ![c] = Task'[c]]
  <1>1. ASSUME NEW d \in Client \ {c} PROVE Task'[d] = Task[d]
    <2>1. Working(d)' <=> Working(d)
      BY DEF Alone, Working, Busy
    <2> QED
      BY <2>1, TaskOf DEF Alone
  <1> QED
    BY <1>1 DEF Task

LEMMA TaskStays ==
  ASSUME NEW c \in Client, Alone(c), Task'[c] = Task[c]
  PROVE  Task' = Task
  <1>1. Task' = [Task EXCEPT ![c] = Task[c]]
    BY TaskTurns
  <1> QED
    BY <1>1 DEF Task

LEMMA MapStart ==
  ASSUME NEW c \in Client, Alone(c), ~Working(c), UNCHANGED << link, res, told >>
  PROVE  Register!Start(c)
  <1>1. Task[c] = None /\ Task' = [Task EXCEPT ![c] = Task'[c]]
    BY TaskOf, TaskTurns
  <1> QED
    BY <1>1 DEF Register!Start, Register!Turn, Task, Working

LEMMA MapTake ==
  ASSUME NEW c \in Client, Alone(c), Working(c), call[c] \in Call \cup Run, step[c] \in 1 .. 4,
         Working(c)', call'[c] = call[c], step'[c] = step[c],
         res[c] = None, told' = told, NEW v, res' = [res EXCEPT ![c] = v],
         << link', v >> \in Wanted(<< call[c], step[c] >>, link)
  PROVE  Register!Take(c)
  <1>1. Task[c] = << call[c], step[c] >> /\ Task'[c] = Task[c]
    BY TaskOf
  <1>2. Task' = Task
    BY <1>1, TaskStays
  <1>3. Task[c] # None
    BY <1>1, RunAssumption
  <1>4. \E e \in Wanted(Task[c], link) : link' = e[1] /\ res' = [res EXCEPT ![c] = e[2]]
    <2>1. << link', v >>[1] = link' /\ << link', v >>[2] = v
      OBVIOUS
    <2>2. << link', v >> \in Wanted(Task[c], link)
      BY <1>1, Zenon
    <2> QED
      BY <2>1, <2>2, Zenon
  <1> QED
    BY <1>2, <1>3, <1>4 DEF Register!Take, Task, Working

LEMMA MapEnd ==
  ASSUME NEW c \in Client, Alone(c), link' = link, NEW r \in {None, res[c]},
         told' = [told EXCEPT ![c] = r], res' = [res EXCEPT ![c] = None]
  PROVE  Register!End(c)
  <1>1. Task' = [Task EXCEPT ![c] = Task'[c]]
    BY TaskTurns
  <1> QED
    BY <1>1 DEF Register!End, Register!Turn, Task, Working

LEMMA MapStutter ==
  ASSUME NEW c \in Client, Alone(c), Task'[c] = Task[c], UNCHANGED << link, res, told >>
  PROVE  UNCHANGED Register!vars
  <1>1. Task' = Task
    BY TaskStays
  <1> QED
    BY <1>1 DEF Register!vars, Task, Working

RegisterStep == [Register!Next]_(Register!vars)

LEMMA Steps ==
  ASSUME NEW c \in Client,
         Register!Start(c) \/ Register!Take(c) \/ Register!End(c) \/ UNCHANGED Register!vars
  PROVE  RegisterStep
  BY DEF RegisterStep, Register!Next

----------------------------------------------------------------------------
(* Every step of the library and the tools is one of the register.         *)

\* A return ends the exchange.
LEMMA ReturnsMap ==
  ASSUME TypeOK, NEW c \in Client, NEW r \in {None, res[c]}, Returns(c, r), link' = link
  PROVE  RegisterStep
  <1>1. Alone(c)
    BY ReturnsOnly DEF Alone
  <1>2. PICK t \in {None, res[c]} : told' = [told EXCEPT ![c] = t]
    BY ReturnsTold
  <1>3. res' = [res EXCEPT ![c] = None]
    BY DEF Returns
  <1> QED
    BY <1>1, <1>2, <1>3, MapEnd, Steps

\* A step to another label inside an exchange.
LEMMA GotoMap ==
  ASSUME TypeOK, NEW c \in Client, NEW to, Goto(c, to), UNCHANGED << link, call, step, res, told >>,
         Working(c),
         to \in InExchange \cup ToolLabels \cup {"open", "dead"}
  PROVE  RegisterStep
  <1>1. Alone(c) /\ pc'[c] = to
    BY DEF Goto, Alone, TypeOK, Shape
  <1>2. Working(c)'
    BY <1>1 DEF Working, Busy
  <1>3. Task'[c] = Task[c]
    BY <1>2, TaskOf
  <1> QED
    BY <1>1, <1>3, MapStutter, Steps

\* A request carried out.
LEMMA GrantMap ==
  ASSUME TypeOK, NEW c \in Client, NEW to \in {"ack", "tool ack"}, Goto(c, to), NEW rq, Grant(c, rq),
         Working(c), call[c] \in Call \cup Run, res[c] = None,
         << Applied(link, rq), 0 >> \in Wanted(<< call[c], step[c] >>, link)
  PROVE  RegisterStep
  <1>1. Alone(c) /\ pc'[c] = to /\ step[c] \in 1 .. 4
    BY DEF Goto, Grant, Alone, TypeOK, Shape
  <1>2. Working(c)'
    BY <1>1 DEF Working, Busy, InExchange, ToolLabels
  <1>3. /\ link' = Applied(link, rq) /\ res' = [res EXCEPT ![c] = 0] /\ told' = told
        /\ call'[c] = call[c] /\ step'[c] = step[c]
    BY DEF Grant
  <1>4. << link', 0 >> \in Wanted(<< call[c], step[c] >>, link)
    BY <1>3
  <1> QED
    BY <1>1, <1>2, <1>3, <1>4, MapTake, Steps

\* The message about the device: the value it holds then is what is read.
LEMMA MessageMap ==
  ASSUME IInv, NEW c \in Client, DeviceMessage(c)
  PROVE  RegisterStep
  <1>0. /\ TypeOK /\ pc[c] = "dump" /\ link' = link /\ link \in Link
        /\ Exchange(c).kind = "get" /\ res[c] = None
    BY DEF IInv, TypeOK, Shape, Place, InCall, InExchange, DeviceMessage, At
  <1>1. call[c] \in Call /\ step[c] \in 1 .. Len(Script(call[c])) /\ step[c] \in 1 .. 4 /\ Working(c)
    BY <1>0, InScript DEF InCall, InExchange, TypeOK, Shape, Working, Busy
  <1>2. CASE Finish(c, None)
    BY <1>0, <1>2, ReturnsMap DEF Finish
  <1>3. CASE ~Finish(c, None)
    <2> DEFINE a == Exchange(c).attr
    <2>1. /\ Goto(c, "rest") /\ UNCHANGED << call, step, told >>
          /\ \E v \in ParseAttr(a) : res' = [res EXCEPT ![c] = v]
      BY <1>3 DEF DeviceMessage
    <2>2. PICK v \in ParseAttr(a) : res' = [res EXCEPT ![c] = v]
      BY <2>1
    <2>3. Alone(c) /\ pc'[c] = "rest"
      BY <1>0, <2>1 DEF Goto, Alone, TypeOK, Shape
    <2>4. Working(c)' /\ call'[c] = call[c] /\ step'[c] = step[c]
      BY <2>1, <2>3 DEF Working
    <2>5. \/ v = None
          \/ v = Junk /\ a = IFLA_CAN_MAX /\ a \notin link.attrs
          \/ v = Reported(link, a) /\ ~(a = IFLA_CAN_MAX /\ a \notin link.attrs)
      BY <2>2 DEF ParseAttr
    <2>6. CASE v = None
      <3>1. res' = res
        BY <1>0, <2>2, <2>6 DEF TypeOK, Shape
      <3>2. Task'[c] = Task[c]
        BY <1>1, <2>4, TaskOf
      <3> QED
        BY <1>0, <2>1, <2>3, <3>1, <3>2, MapStutter, Steps
    <2>7. CASE v # None
      <3>1. << link, v >> \in Wanted(<< call[c], step[c] >>, link)
        BY <1>0, <1>1, <2>5, <2>7, GetWanted, Zenon DEF Exchange
      <3>2. << link', v >> \in Wanted(<< call[c], step[c] >>, link)
        BY <1>0, <3>1, Zenon
      <3> QED
        BY <1>0, <1>1, <2>1, <2>2, <2>3, <2>4, <3>2, MapTake, Steps
    <2> QED
      BY <2>6, <2>7
  <1> QED
    BY <1>2, <1>3

LEMMA LibraryMap ==
  ASSUME IInv, NEW c \in Client, ClientStep(c)
  PROVE  RegisterStep
  <1>0. /\ TypeOK /\ link \in Link
        /\ pc[c] \in {"index", "modify", "ack"} => Exchange(c).kind = "set"
        /\ pc[c] \notin {"ack", "rest", "tool ack"} => res[c] = None
        /\ pc[c] \in InExchange \cup {"open"} => Working(c)
    BY DEF IInv, TypeOK, Shape, Place, InCall, InExchange, Working, Busy
  <1>1. CASE OpenSock(c)
    <2>1. Goto(c, IF Exchange(c).kind = "get" THEN "dump" ELSE "index") /\ Working(c)
      BY <1>0, <1>1 DEF OpenSock, At
    <2>2. PICK to \in {"dump", "index"} : Goto(c, to)
      BY <2>1
    <2> QED
      BY <1>0, <1>1, <2>1, <2>2, GotoMap DEF OpenSock, InExchange
  <1>2. CASE \/ OpenFails(c) \/ OpenLeaks(c) \/ (Lookup(c) /\ Finish(c, None)) \/ SendFails(c)
             \/ Acknowledge(c) \/ DumpEnds(c) \/ DumpTruncated(c)
    <2>1. link' = link /\ (Returns(c, None) \/ Returns(c, res[c]))
      BY <1>2 DEF OpenFails, OpenLeaks, Lookup, SendFails, Acknowledge, DumpEnds, DumpTruncated, Finish
    <2> QED
      BY <1>0, <2>1, ReturnsMap
  <1>3. CASE Lookup(c) /\ ~Finish(c, None)
    <2>1. pc[c] = "index" /\ Goto(c, "modify") /\ UNCHANGED << link, call, step, res, told >>
      BY <1>3 DEF Lookup, At
    <2> QED
      BY <1>0, <2>1, GotoMap DEF InExchange
  <1>4. CASE Granted(c)
    <2>1. pc[c] = "modify" /\ Goto(c, "ack") /\ Grant(c, Request(Exchange(c))) /\ Accepts(link, Request(Exchange(c)))
      BY <1>4 DEF Granted, At, Grant
    <2>2. call[c] \in Call /\ step[c] \in 1 .. Len(Script(call[c])) /\ res[c] = None /\ Working(c)
          /\ Exchange(c).kind = "set"
      BY <1>0, <2>1, InScript DEF InCall, InExchange
    <2>3. << Applied(link, Request(Exchange(c))), 0 >> \in Wanted(<< call[c], step[c] >>, link)
      BY <1>0, <2>1, <2>2, SetWanted, Zenon DEF Exchange
    <2> QED
      BY <1>0, <2>1, <2>2, <2>3, GrantMap
  <1>5. CASE Refused(c)
    <2>1. pc[c] = "modify" /\ Goto(c, "ack") /\ UNCHANGED << link, call, step, res, told >>
      BY <1>5 DEF Refused, At
    <2> QED
      BY <1>0, <2>1, GotoMap DEF InExchange
  <1>6. CASE DeviceMessage(c)
    BY <1>6, MessageMap
  <1>7. CASE Crash(c)
    <2>1. pc[c] = "dump" /\ Goto(c, "dead") /\ UNCHANGED << link, call, step, res, told >>
      BY <1>7 DEF Crash, At
    <2> QED
      BY <1>0, <2>1, GotoMap DEF InExchange
  <1>8. CASE DumpRefused(c)
    <2>1. pc[c] = "dump" /\ Goto(c, "hung") /\ UNCHANGED << link, call, step, res, told >>
      BY <1>8 DEF DumpRefused, At
    <2> QED
      BY <1>0, <2>1, GotoMap DEF InExchange
  <1>9. CASE Sockets(c) \/ Write(c)
    <2>1. /\ pc[c] \in {"sockets", "write"} /\ UNCHANGED << link, call, step, res >>
          /\ told' = told \/ told' = [told EXCEPT ![c] = None]
      BY <1>9 DEF Sockets, Write, At
    <2>2. PICK to \in {"write", "read", "done"} : pc' = [pc EXCEPT ![c] = to]
      BY <1>9 DEF Sockets, Write, Goto
    <2>3. Alone(c) /\ pc'[c] = to
      BY <1>0, <2>1, <2>2 DEF Alone, TypeOK, Shape
    <2>4. ~Working(c) /\ ~Working(c)'
      BY <2>1, <2>3 DEF Working, Busy, InExchange, ToolLabels
    <2>5. CASE told' = told
      <3>1. Task'[c] = Task[c]
        BY <2>4, TaskOf
      <3> QED
        BY <2>1, <2>3, <2>5, <3>1, MapStutter, Steps
    <2>6. CASE told' = [told EXCEPT ![c] = None]
      <3>1. res' = [res EXCEPT ![c] = None]
        BY <1>0, <2>1 DEF TypeOK, Shape
      <3> QED
        BY <2>1, <2>3, <2>6, <3>1, MapEnd, Steps
    <2> QED
      BY <2>1, <2>5, <2>6
  <1>10. CASE Read(c)
    <2>1. Alone(c) /\ pc[c] = "read" /\ UNCHANGED << link, res, told >>
      BY <1>0, <1>10 DEF Read, At, Goto, Alone, TypeOK, Shape
    <2>2. ~Working(c)
      BY <2>1 DEF Working, Busy, InExchange, ToolLabels
    <2> QED
      BY <2>1, <2>2, MapStart, Steps
  <1> QED
    BY <1>1, <1>2, <1>3, <1>4, <1>5, <1>6, <1>7, <1>8, <1>9, <1>10 DEF ClientStep, Set, Get, Main

LEMMA ExitMap ==
  ASSUME TypeOK, NEW c \in Client, NEW r \in {None, res[c]}, Exit(c, r)
  PROVE  RegisterStep
  <1>1. /\ link' = link /\ told' = [told EXCEPT ![c] = r] /\ res' = [res EXCEPT ![c] = None]
    BY DEF Exit
  <1>2. Alone(c)
    BY DEF Exit, Goto, Alone, TypeOK, Shape
  <1> QED
    BY <1>1, <1>2, MapEnd, Steps

LEMMA ToolMap ==
  ASSUME IInv, NEW c \in Client, ToolStep(c)
  PROVE  RegisterStep
  <1>0. /\ TypeOK /\ link \in Link /\ pc[c] \in ToolLabels /\ Working(c)
        /\ call[c] \in Run /\ (pc[c] # "tool" => call[c].arg # 0)
        /\ pc[c] # "tool ack" => res[c] = None
    <2>1. pc[c] \in ToolLabels
      BY DEF ToolStep, SetupOpen, SetupLookup, SetupModify, SetupAck, MnlOpen, MnlSend, MnlAck, At, ToolLabels
    <2>2. TypeOK /\ link \in Link /\ Place(c)
      BY DEF IInv, TypeOK, Shape
    <2> QED
      BY <2>1, <2>2 DEF Place, Working, Busy, ToolLabels
  <1>1. CASE \E r \in {None, res[c]} : Exit(c, r)
    BY <1>0, <1>1, ExitMap
  <1>2. CASE UNCHANGED << link, call, step, res, told >>
    <2>1. \/ \E r \in {None, res[c]} : Exit(c, r)
          \/ \E to \in ToolLabels : Goto(c, to)
      BY DEF ToolStep, SetupOpen, SetupLookup, SetupModify, SetupAck, MnlOpen, MnlSend, MnlAck, Send, ToolLabels
    <2>2. CASE \E to \in ToolLabels : Goto(c, to)
      BY <1>0, <1>2, <2>2, GotoMap
    <2> QED
      BY <1>1, <2>1, <2>2
  <1>3. CASE (SetupModify(c) \/ MnlSend(c)) /\ Goto(c, "tool ack") /\ Grant(c, ToolRequest(call[c]))
    <2>1. pc[c] # "tool" /\ pc[c] # "tool ack"
      BY <1>3 DEF SetupModify, MnlSend, At
    <2>2. << Applied(link, ToolRequest(call[c])), 0 >> \in Wanted(<< call[c], step[c] >>, link)
      BY <1>0, <2>1, ToolWanted
    <2> QED
      BY <1>0, <1>3, <2>1, <2>2, GrantMap
  <1>4. \/ \E r \in {None, res[c]} : Exit(c, r)
        \/ UNCHANGED << link, call, step, res, told >>
        \/ (SetupModify(c) \/ MnlSend(c)) /\ Goto(c, "tool ack") /\ Grant(c, ToolRequest(call[c]))
    BY DEF ToolStep, SetupOpen, SetupLookup, SetupModify, SetupAck, MnlOpen, MnlSend, MnlAck, Send
  <1> QED
    BY <1>1, <1>2, <1>3, <1>4

LEMMA CallMap ==
  ASSUME IInv, NEW c \in Client,
         Leave(c) \/ (\E k \in Calls[c] : Begin(c, k)) \/ (\E k \in Runs[c] : RunTool(c, k))
  PROVE  RegisterStep
  <1>0. TypeOK /\ Place(c)
    BY DEF IInv, TypeOK
  <1>1. Alone(c) /\ pc[c] \in {"idle", "done"} /\ link' = link /\ res' = res
    BY <1>0 DEF Leave, Begin, RunTool, At, Goto, Alone, TypeOK, Shape
  <1>2. ~Working(c)
    BY <1>1 DEF Working, Busy, InExchange, ToolLabels
  <1>3. CASE told' = told
    BY <1>1, <1>2, <1>3, MapStart, Steps
  <1>4. CASE told' = [told EXCEPT ![c] = None]
    <2>1. res' = [res EXCEPT ![c] = None]
      BY <1>0, <1>1 DEF TypeOK, Shape, Place
    <2> QED
      BY <1>1, <1>4, <2>1, MapEnd, Steps
  <1> QED
    BY <1>3, <1>4 DEF Leave, Begin, RunTool

LEMMA DeviceMap ==
  ASSUME Device
  PROVE  RegisterStep
  <1>1. Register!Own
    BY DEF Device, Register!Own, Busy
  <1> QED
    BY <1>1 DEF RegisterStep, Register!Next

LEMMA StepMap == IInv /\ [SetupNext]_vars => RegisterStep
  <1> SUFFICES ASSUME IInv, [SetupNext]_vars PROVE RegisterStep
    OBVIOUS
  <1>1. CASE UNCHANGED vars
    BY <1>1 DEF vars, RegisterStep, Register!vars, Busy
  <1>2. CASE Device
    BY <1>2, DeviceMap
  <1>3. ASSUME NEW c \in Client, ClientStep(c) PROVE RegisterStep
    BY <1>3, LibraryMap
  <1>4. ASSUME NEW c \in Client, ToolStep(c) PROVE RegisterStep
    BY <1>4, ToolMap
  <1>5. ASSUME NEW c \in Client,
               Leave(c) \/ (\E k \in Calls[c] : Begin(c, k)) \/ (\E k \in Runs[c] : RunTool(c, k))
        PROVE  RegisterStep
    BY <1>5, CallMap
  <1> QED
    BY <1>1, <1>2, <1>3, <1>4, <1>5 DEF SetupNext, Next

LEMMA InitMap == Init => Register!Init
  <1> SUFFICES ASSUME Init PROVE Register!Init
    OBVIOUS
  <1>1. ASSUME NEW c \in Client PROVE ~(Busy(c) \/ pc[c] \in {"rest", "dead"})
    BY DEF Init, Busy, InExchange, ToolLabels
  <1>2. res = [c \in Client |-> None] /\ told = [c \in Client |-> None]
    BY DEF Init
  <1> QED
    BY <1>1, <1>2 DEF Register!Init

\* Every exchange of the library (483-657, 710-784, 871-903) and of the tools
\* is an operation of an atomic register: it takes effect once, between its
\* start and its end, and a result is that of this moment.
THEOREM SetupImplementsRegister == SetupSpec => ImplementsRegister
  <1>1. IInv /\ [SetupNext]_vars => [Register!Next]_(Register!vars)
    BY StepMap DEF RegisterStep
  <1> QED
    BY InitIInv, Inductive, InitMap, <1>1, PTL DEF SetupSpec, ImplementsRegister, Register!Spec

=============================================================================
