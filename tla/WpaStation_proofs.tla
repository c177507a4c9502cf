------------------------- MODULE WpaStation_proofs -------------------------
(***************************************************************************)
(* The station operations for every set of stations, every number of       *)
(* networks and ids and every number of requests given up: what an add     *)
(* reports, what remove_all leaves, what a disconnect disables and reports,*)
(* and that the socket follows WpaControl.                                 *)
(***************************************************************************)
EXTENDS WpaStation, FiniteSetTheorems, WellFoundedInduction, TLAPS

USE DEF IdAfter

Waiting == IF phase = "wait" THEN 1 ELSE 0

\* The requests nobody waits for are the first k.
DeadUpTo(k) ==
  /\ k \in 0 .. Len(requests)
  /\ \A i \in 1 .. Len(requests) : requests[i].live = (i > k)
  /\ k > 0 => Len(inbox) = 0

\* Requests of a closed session come first, and as long as one of them is
\* left the client has no reply.
QueueInv == \E k \in 0 .. Len(requests) : DeadUpTo(k)

\* A request belongs to an operation.
PhaseInv == phase \in {"drain", "send", "wait"} => at # 0

LagBounded == Owed <= late + Waiting

Quiet == Len(requests) = 0 /\ Len(inbox) = 0

----------------------------------------------------------------------------
(* station_add.                                                            *)

Fresh(n) == n \in DOMAIN nets /\ \A f \in Field : nets[n].cfg[f] = Unset

\* A network nobody has set up since its number was told is as it was made.
FreshInv ==
  \A i \in 1 .. Len(inbox) :
    /\ inbox[i].kind = "id"
    /\ \A j \in 1 .. Len(inbox) : j > i => inbox[j].kind # "OK"
    => Fresh(inbox[i].id)

\* The settings up to the k-th request are made.
Made(k) ==
  IdsFit =>
    /\ id \in DOMAIN nets
    /\ \A f \in Field :
         nets[id].cfg[f] = IF \E i \in 2 .. k : Steps(call)[i].field = f
                             THEN call.station ELSE Unset

IsAdd(r) == r.cmd = "ADD_NETWORK" /\ r.live
ToldAdd(r) == r.kind \in {"id", "FAIL"}

\* The last, and the first, that is owed to the client is for an ADD_NETWORK.
AddLast ==
  IF Len(requests) > 0 THEN IsAdd(requests[Len(requests)])
                       ELSE Len(inbox) > 0 /\ ToldAdd(inbox[Len(inbox)])
AddFirst ==
  IF Len(inbox) > 0 THEN ToldAdd(inbox[1])
                    ELSE Len(requests) > 0 /\ IsAdd(requests[1])

\* The id was that of an earlier call, and the own one is still to come.
OneBehind == Len(requests) + Len(inbox) = 1 /\ AddFirst

SetSent ==
  /\ Len(requests) = 1 /\ Len(inbox) = 0
  /\ requests[1] = [cmd |-> "SET_NETWORK", field |-> Steps(call)[at].field,
                    id |-> id, val |-> call.station, live |-> TRUE]
  /\ Made(at - 1)
SetTold ==
  /\ Len(requests) = 0 /\ Len(inbox) = 1
  /\ \/ inbox[1].kind = "FAIL"
     \/ inbox[1].kind = "OK" /\ Made(at)

AddInv ==
  call.op = "add" /\ late <= 1 =>
    /\ at = 1 /\ phase = "wait" => AddLast
    /\ at >= 2 /\ phase # "wait" => Made(at - 1) /\ (Quiet \/ (at = 2 /\ OneBehind))
    /\ at >= 2 /\ phase = "wait" => SetSent \/ SetTold \/ (at = 2 /\ AddFirst)
    /\ at = 0 /\ ret => Quiet /\ Made(Len(Steps(call)))

----------------------------------------------------------------------------
(* The ids given out, station_remove_all and station_disconnect.           *)

\* A switched on network has an id of the client, and no reply names one that
\* has not as long as there is none.
IdsInv ==
  /\ \A n \in DOMAIN nets : nets[n].on => n \in Id8
  /\ IdsFit => \A i \in 1 .. Len(inbox) : inbox[i].kind = "id" => inbox[i].id \in Id8

Removal(r, n) == r.cmd = "REMOVE_NETWORK" /\ r.id = n

\* The operation in progress does not work on what the caller owns.
Apart(o) ==
  /\ call.op = "add" /\ at >= 2 => id # o
  /\ call.op = "remove" /\ at >= 1 => id # o
  /\ call.op = "remove_all" => at = 0

\* What the caller was given stays its own.
OwnedInv ==
  IdsFit => \A o \in owned :
    /\ o \in DOMAIN nets
    /\ \A i \in 1 .. Len(requests) : ~Removal(requests[i], o)
    /\ \A i \in 1 .. Len(inbox) : inbox[i].kind = "id" => inbox[i].id # o
    /\ Apart(o)

NoAddBehind(p) == \A q \in 1 .. Len(requests) : q > p => requests[q].cmd # "ADD_NETWORK"

\* Network n is gone or going, and no request on the way brings it back.
Removed(n) ==
  \/ n \notin DOMAIN nets /\ NoAddBehind(0)
  \/ \E p \in 1 .. Len(requests) : Removal(requests[p], n) /\ NoAddBehind(p)

\* The ids remove_all has sent a request for.
Asked ==
  IF at = 0 THEN Id8 ELSE 0 .. IF phase = "wait" THEN at - 1 ELSE at - 2

RemoveInv == call.op = "remove_all" => \A n \in Asked \ unsent : Removed(n)

\* The status told, or the network it was about.
Told(c) == c \in seen /\ (conn = c \/ NoId \in seen)

StatusLast ==
  IF Len(requests) > 0
    THEN requests[Len(requests)].cmd = "STATUS" /\ requests[Len(requests)].live
    ELSE Len(inbox) = 1 /\ inbox[1].kind = "status" /\ Told(inbox[1].id)
DisableLast ==
  Len(requests) > 0 =>
    /\ requests[Len(requests)].cmd = "DISABLE_NETWORK"
    /\ requests[Len(requests)].live /\ requests[Len(requests)].id = id

\* What is connected has an id of the client.
SeenInv == seen \subseteq Id8 \cup {NoId}

DisconnectInv ==
  call.op = "disconnect" =>
    /\ at # 0 => conn \in seen
    /\ late = 0 =>
         /\ at = 1 /\ phase = "wait" => StatusLast
         /\ at = 2 => Told(id)
         /\ at = 2 /\ phase = "wait" => DisableLast /\ (Len(requests) = 0 => NoId \in seen)
         /\ at = 0 /\ ret /\ result = "own" => NoId \in seen

----------------------------------------------------------------------------
(* Sequences.                                                              *)

LEMMA TailIs ==
  ASSUME NEW S, NEW s \in Seq(S), Len(s) > 0
  PROVE  /\ Head(s) = s[1] /\ s[1] \in S
         /\ Tail(s) \in Seq(S) /\ Len(Tail(s)) = Len(s) - 1
         /\ \A i \in 1 .. Len(s) - 1 : Tail(s)[i] = s[i + 1]
  OBVIOUS

LEMMA AppendIs ==
  ASSUME NEW S, NEW s \in Seq(S), NEW x \in S
  PROVE  /\ Append(s, x) \in Seq(S) /\ Len(Append(s, x)) = Len(s) + 1
         /\ Append(s, x)[Len(s) + 1] = x
         /\ \A i \in 1 .. Len(s) : Append(s, x)[i] = s[i]
  OBVIOUS

LEMMA EmptyIs ==
  ASSUME NEW S, NEW s \in Seq(S)
  PROVE  /\ Len(s) \in Nat /\ DOMAIN s = 1 .. Len(s)
         /\ (s = << >>) = (Len(s) = 0)
         /\ \A i \in 1 .. Len(s) : s[i] \in S
         /\ << >> \in Seq(S) /\ Len(<< >>) = 0
  OBVIOUS

----------------------------------------------------------------------------
(* The steps of the operations.                                            *)

Step == [cmd : Command, field : Field \cup {"none"}]

LEMMA ConcatIs ==
  ASSUME NEW S, NEW s \in Seq(S), NEW t \in Seq(S)
  PROVE  /\ s \o t \in Seq(S) /\ Len(s \o t) = Len(s) + Len(t)
         /\ \A i \in 1 .. Len(s) : (s \o t)[i] = s[i]
         /\ \A i \in 1 .. Len(t) : (s \o t)[Len(s) + i] = t[i]
  OBVIOUS

LEMMA CmdIs ==
  ASSUME NEW c \in Command
  PROVE  Cmd(c) \in Step /\ Cmd(c).cmd = c
  BY DEF Cmd, Step

LEMMA SetIs ==
  ASSUME NEW f \in Field
  PROVE  Set(f) \in Step /\ Set(f).cmd = "SET_NETWORK" /\ Set(f).field = f
  <1>1. "SET_NETWORK" \in Command
    BY DEF Command
  <1> QED
    BY <1>1 DEF Set, Step

\* A sequence of settings.
Sets(s) == s \in Seq(Step) /\ \A i \in 1 .. Len(s) : s[i].cmd = "SET_NETWORK" /\ s[i].field \in Field

LEMMA SetsIf ==
  ASSUME NEW f \in Field, NEW b \in BOOLEAN
  PROVE  Sets(If(b, << Set(f) >>)) /\ Len(If(b, << Set(f) >>)) \in 0 .. 1
  <1>1. CASE b
    <2>1. If(b, << Set(f) >>) = << Set(f) >>
      BY <1>1 DEF If
    <2> QED
      <3> DEFINE t == << Set(f) >>
      <3>1. Set(f) \in Step /\ Set(f).cmd = "SET_NETWORK" /\ Set(f).field = f
        BY SetIs
      <3>2. t \in Seq(Step) /\ Len(t) = 1 /\ t[1] = Set(f)
        BY <3>1
      <3>3. \A i \in 1 .. 1 : i = 1
        OBVIOUS
      <3> HIDE DEF t
      <3>4. Sets(t)
        BY <3>1, <3>2, <3>3, Zenon DEF Sets
      <3>5. Len(t) \in 0 .. 1
        BY <3>2
      <3> QED
        BY <2>1, <3>4, <3>5 DEF t
  <1>2. CASE ~b
    <2>1. If(b, << Set(f) >>) = << >>
      BY <1>2 DEF If
    <2> QED
      BY <2>1 DEF Sets
  <1> QED
    BY <1>1, <1>2

LEMMA AddStepsAre ==
  ASSUME NEW s
  PROVE  /\ AddSteps(s) \in Seq(Step) /\ Len(AddSteps(s)) \in 5 .. 7
         /\ AddSteps(s)[1].cmd = "ADD_NETWORK"
         /\ \A i \in 2 .. Len(AddSteps(s)) :
              AddSteps(s)[i].cmd = "SET_NETWORK" /\ AddSteps(s)[i].field \in Field
  <1> DEFINE a == << Cmd("ADD_NETWORK"), Set("ssid") >>
             b == If(s \in Hidden, << Set("scan_ssid") >>)
             c == If(s \in Pinned, << Set("bssid") >>)
             d == << Set("psk"), Set("proto"), Set("priority") >>
  <1>0. "ADD_NETWORK" \in Command
    BY DEF Command
  <1>f. /\ "ssid" \in Field /\ "scan_ssid" \in Field /\ "bssid" \in Field
        /\ "psk" \in Field /\ "proto" \in Field /\ "priority" \in Field
    BY DEF Field
  <1>1. a \in Seq(Step) /\ Len(a) = 2 /\ a[1].cmd = "ADD_NETWORK" /\ a[2].cmd = "SET_NETWORK" /\ a[2].field \in Field
    <2>1. a[1] = Cmd("ADD_NETWORK") /\ a[2] = Set("ssid") /\ Len(a) = 2
      OBVIOUS
    <2>2. Cmd("ADD_NETWORK") \in Step /\ Cmd("ADD_NETWORK").cmd = "ADD_NETWORK"
      BY <1>0, CmdIs
    <2>3. Set("ssid") \in Step /\ Set("ssid").cmd = "SET_NETWORK" /\ Set("ssid").field = "ssid"
      BY <1>f, SetIs
    <2> QED
      BY <2>1, <2>2, <2>3, <1>f
  <1>2. Sets(b) /\ Len(b) \in 0 .. 1
    <2>1. (s \in Hidden) \in BOOLEAN
      OBVIOUS
    <2> QED
      BY <2>1, <1>f, SetsIf
  <1>3. Sets(c) /\ Len(c) \in 0 .. 1
    <2>1. (s \in Pinned) \in BOOLEAN
      OBVIOUS
    <2> QED
      BY <2>1, <1>f, SetsIf
  <1>4. Sets(d) /\ Len(d) = 3
    <2>1. d[1] = Set("psk") /\ d[2] = Set("proto") /\ d[3] = Set("priority") /\ Len(d) = 3
      OBVIOUS
    <2>2. Set("psk") \in Step /\ Set("psk").cmd = "SET_NETWORK" /\ Set("psk").field = "psk"
      BY <1>f, SetIs
    <2>3. Set("proto") \in Step /\ Set("proto").cmd = "SET_NETWORK" /\ Set("proto").field = "proto"
      BY <1>f, SetIs
    <2>4. Set("priority") \in Step /\ Set("priority").cmd = "SET_NETWORK" /\ Set("priority").field = "priority"
      BY <1>f, SetIs
    <2>5. d \in Seq(Step)
      BY <2>2, <2>3, <2>4
    <2>6. \A i \in 1 .. 3 : i = 1 \/ i = 2 \/ i = 3
      OBVIOUS
    <2>7. \A i \in 1 .. 3 : d[i].cmd = "SET_NETWORK" /\ d[i].field \in Field
      BY <2>1, <2>2, <2>3, <2>4, <2>6, <1>f, Zenon
    <2> QED
      BY <2>1, <2>5, <2>7 DEF Sets
  <1>5. AddSteps(s) = a \o b \o c \o d
    BY DEF AddSteps
  <1> HIDE DEF a, b, c, d
  <1> DEFINE ab == a \o b
             abc == ab \o c
             all == abc \o d
             Rest(t) == \A i \in 2 .. Len(t) : t[i].cmd = "SET_NETWORK" /\ t[i].field \in Field
  <1>6. ASSUME NEW t \in Seq(Step), NEW u, Sets(u), Rest(t), Len(t) >= 2
        PROVE  /\ t \o u \in Seq(Step) /\ Len(t \o u) = Len(t) + Len(u)
               /\ (t \o u)[1] = t[1] /\ Rest(t \o u)
    <2> u \in Seq(Step)
      BY <1>6 DEF Sets
    <2>1. /\ t \o u \in Seq(Step) /\ Len(t \o u) = Len(t) + Len(u)
          /\ \A i \in 1 .. Len(t) : (t \o u)[i] = t[i]
          /\ \A i \in 1 .. Len(u) : (t \o u)[Len(t) + i] = u[i]
      BY ConcatIs
    <2>2. ASSUME NEW i \in 2 .. Len(t \o u)
          PROVE  (t \o u)[i].cmd = "SET_NETWORK" /\ (t \o u)[i].field \in Field
      <3>0. Len(t) \in Nat /\ Len(u) \in Nat
        OBVIOUS
      <3>1. CASE i <= Len(t)
        <4>1. i \in 2 .. Len(t) /\ i \in 1 .. Len(t)
          BY <3>0, <3>1
        <4> QED
          BY <4>1, <2>1, <1>6, Zenon
      <3>2. CASE i > Len(t)
        <4> DEFINE j == i - Len(t)
        <4>1. j \in 1 .. Len(u) /\ i = Len(t) + j
          BY <3>0, <3>2, <2>1
        <4> HIDE DEF j
        <4> QED
          BY <4>1, <2>1, <1>6, Zenon DEF Sets
      <3> QED
        BY <3>0, <3>1, <3>2
    <2>3. (t \o u)[1] = t[1]
      BY <2>1, <1>6
    <2> QED
      BY <2>1, <2>2, <2>3, Zenon
  <1>7. Rest(a)
    <2>1. \A i \in 2 .. 2 : i = 2
      OBVIOUS
    <2> QED
      BY <1>1, <2>1
  <1> HIDE DEF Rest
  <1>8. ab \in Seq(Step) /\ Len(ab) = 2 + Len(b) /\ ab[1] = a[1] /\ Rest(ab)
    <2>1. Len(a) >= 2
      BY <1>1
    <2> QED
      BY <1>1, <1>2, <1>6, <1>7, <2>1, Zenon DEF ab
  <1>9. abc \in Seq(Step) /\ Len(abc) = 2 + Len(b) + Len(c) /\ abc[1] = a[1] /\ Rest(abc)
    <2>1. Len(ab) >= 2
      BY <1>8, <1>2
    <2>2. abc \in Seq(Step) /\ Len(abc) = Len(ab) + Len(c) /\ abc[1] = ab[1] /\ Rest(abc)
      BY <1>8, <1>3, <1>6, <2>1, Zenon DEF abc
    <2> QED
      BY <2>2, <1>8, Zenon
  <1>10. all \in Seq(Step) /\ Len(all) = 5 + Len(b) + Len(c) /\ all[1] = a[1] /\ Rest(all)
    <2>1. Len(abc) >= 2
      BY <1>9, <1>2, <1>3
    <2>2. all \in Seq(Step) /\ Len(all) = Len(abc) + Len(d) /\ all[1] = abc[1] /\ Rest(all)
      BY <1>9, <1>4, <1>6, <2>1, Zenon DEF all
    <2>3. Len(all) = 5 + Len(b) + Len(c)
      BY <2>2, <1>9, <1>4, <1>2, <1>3
    <2> QED
      BY <2>2, <2>3, <1>9, Zenon
  <1>11. all = AddSteps(s)
    BY <1>5 DEF all, abc, ab
  <1>12. Len(all) \in 5 .. 7
    <2>1. Len(b) \in 0 .. 1 /\ Len(c) \in 0 .. 1 /\ Len(all) = 5 + Len(b) + Len(c)
      BY <1>10, <1>2, <1>3, Zenon
    <2>2. \A x \in 0 .. 1, y \in 0 .. 1 : 5 + x + y \in 5 .. 7
      OBVIOUS
    <2> QED
      BY <2>1, <2>2, Zenon
  <1> QED
    BY <1>1, <1>10, <1>11, <1>12, Zenon DEF Rest

\* What is known of the requests of each operation.
LEMMA StepsAre ==
  ASSUME NEW c \in AnyCall
  PROVE  /\ Steps(c) \in Seq(Step) /\ Len(Steps(c)) >= 1
         /\ c.op = "add" => Steps(c) = AddSteps(c.station)
         /\ c.op = "remove" => Steps(c) = RemoveSteps
         /\ c.op = "remove_all" => Steps(c) = RemoveAllSteps
         /\ c.op = "disconnect" => Steps(c) = DisconnectSteps
  <1> USE DEF Command
  <1>0. c.op \in {"add", "remove", "update_priority", "connect", "remove_all", "disconnect", "ping", "scan"}
    BY DEF AnyCall
  <1>c. \A x \in Command : Cmd(x) \in Step
    BY CmdIs
  <1>1. CASE c.op = "add"
    <2>1. Steps(c) = AddSteps(c.station)
      BY <1>1 DEF Steps
    <2>2. AddSteps(c.station) \in Seq(Step) /\ Len(AddSteps(c.station)) \in 5 .. 7
      BY AddStepsAre
    <2>3. \A n \in 5 .. 7 : n >= 1
      OBVIOUS
    <2> QED
      BY <1>1, <2>1, <2>2, <2>3, Zenon
  <1>2. CASE c.op = "remove"
    <2>1. Steps(c) = RemoveSteps
      BY <1>2 DEF Steps
    <2>2. RemoveSteps \in Seq(Step) /\ Len(RemoveSteps) >= 1
      BY <1>c DEF RemoveSteps
    <2> QED
      BY <1>2, <2>1, <2>2, Zenon
  <1>3. CASE c.op = "remove_all"
    <2>1. Steps(c) = RemoveAllSteps
      BY <1>3 DEF Steps
    <2>2. RemoveAllSteps \in Seq(Step) /\ Len(RemoveAllSteps) >= 1
      BY <1>c, StationAssumption DEF RemoveAllSteps, StationAssumption
    <2> QED
      BY <1>3, <2>1, <2>2, Zenon
  <1>4. CASE c.op = "disconnect"
    <2>1. Steps(c) = DisconnectSteps
      BY <1>4 DEF Steps
    <2>2. DisconnectSteps \in Seq(Step) /\ Len(DisconnectSteps) >= 1
      BY <1>c DEF DisconnectSteps
    <2> QED
      BY <1>4, <2>1, <2>2, Zenon
  <1>5. CASE c.op = "connect"
    <2> DEFINE a == If(c.others, << Cmd("SELECT_NETWORK") >>)
               b == << Cmd("ENABLE_NETWORK") >>
    <2>1. Steps(c) = a \o b
      BY <1>5 DEF Steps, ConnectSteps
    <2>2. b \in Seq(Step) /\ Len(b) = 1
      BY <1>c
    <2>3. a \in Seq(Step) /\ Len(a) \in Nat
      BY <1>c DEF If
    <2> HIDE DEF a, b
    <2>4. a \o b \in Seq(Step) /\ Len(a \o b) = Len(a) + Len(b)
      BY <2>2, <2>3, ConcatIs
    <2>5. \A n \in Nat : n + 1 >= 1
      OBVIOUS
    <2> QED
      BY <1>5, <2>1, <2>2, <2>3, <2>4, <2>5, Zenon
  <1>6. CASE c.op = "update_priority"
    <2>1. Steps(c) = PrioritySteps
      BY <1>6 DEF Steps
    <2>2. "priority" \in Field
      BY DEF Field
    <2>3. PrioritySteps \in Seq(Step) /\ Len(PrioritySteps) >= 1
      BY <2>2, SetIs DEF PrioritySteps
    <2> QED
      BY <1>6, <2>1, <2>3, Zenon
  <1>7. CASE c.op = "ping"
    <2>1. Steps(c) = PingSteps
      BY <1>7 DEF Steps
    <2>2. PingSteps \in Seq(Step) /\ Len(PingSteps) >= 1
      BY <1>c DEF PingSteps
    <2> QED
      BY <1>7, <2>1, <2>2, Zenon
  <1>8. CASE c.op = "scan"
    <2>1. Steps(c) = ScanSteps
      BY <1>8 DEF Steps
    <2>2. ScanSteps \in Seq(Step) /\ Len(ScanSteps) >= 1
      BY <1>c DEF ScanSteps
    <2> QED
      BY <1>8, <2>1, <2>2, Zenon
  <1> QED
    BY <1>0, <1>1, <1>2, <1>3, <1>4, <1>5, <1>6, <1>7, <1>8, Zenon

LEMMA FewSteps ==
  /\ Len(RemoveSteps) = 2
  /\ RemoveSteps[1].cmd = "DISABLE_NETWORK" /\ RemoveSteps[2].cmd = "REMOVE_NETWORK"
  /\ Len(RemoveAllSteps) = IdRange
  /\ \A i \in 1 .. IdRange : RemoveAllSteps[i].cmd = "REMOVE_NETWORK"
  /\ Len(DisconnectSteps) = 2
  /\ DisconnectSteps[1].cmd = "STATUS" /\ DisconnectSteps[2].cmd = "DISABLE_NETWORK"
  <1>1. \A x : Cmd(x).cmd = x
    BY DEF Cmd
  <1>2. Len(RemoveSteps) = 2 /\ RemoveSteps[1] = Cmd("DISABLE_NETWORK") /\ RemoveSteps[2] = Cmd("REMOVE_NETWORK")
    BY DEF RemoveSteps
  <1>3. Len(DisconnectSteps) = 2 /\ DisconnectSteps[1] = Cmd("STATUS") /\ DisconnectSteps[2] = Cmd("DISABLE_NETWORK")
    BY DEF DisconnectSteps
  <1>4. Len(RemoveAllSteps) = IdRange /\ \A i \in 1 .. IdRange : RemoveAllSteps[i] = Cmd("REMOVE_NETWORK")
    BY StationAssumption DEF RemoveAllSteps, StationAssumption
  <1> QED
    BY <1>1, <1>2, <1>3, <1>4, Zenon

\* Only the removing operations remove.
LEMMA RemoversAre ==
  ASSUME NEW c \in AnyCall, NEW i \in 1 .. Len(Steps(c)), Steps(c)[i].cmd = "REMOVE_NETWORK"
  PROVE  c.op \in {"remove", "remove_all"}
  <1>0. c.op \in {"add", "remove", "update_priority", "connect", "remove_all", "disconnect", "ping", "scan"}
    BY DEF AnyCall
  <1>m. \A x : Cmd(x).cmd = x
    BY DEF Cmd
  <1>1. CASE c.op = "add"
    <2>1. i \in 1 .. Len(AddSteps(c.station)) /\ AddSteps(c.station)[i].cmd = "REMOVE_NETWORK"
      BY <1>1, StepsAre
    <2>2. \A n \in Nat : \A j \in 1 .. n : j = 1 \/ j \in 2 .. n
      OBVIOUS
    <2>3. Len(AddSteps(c.station)) \in Nat
      BY AddStepsAre
    <2> QED
      BY <2>1, <2>2, <2>3, AddStepsAre, Zenon
  <1>2. CASE c.op = "connect"
    <2> DEFINE a == If(c.others, << Cmd("SELECT_NETWORK") >>)
               b == << Cmd("ENABLE_NETWORK") >>
    <2>1. Steps(c) = a \o b
      BY <1>2 DEF Steps, ConnectSteps
    <2>2. a \in Seq(Step) /\ b \in Seq(Step) /\ Len(b) = 1
      BY CmdIs DEF If, Command
    <2>3. /\ \A j \in 1 .. Len(a) : a[j] = Cmd("SELECT_NETWORK")
          /\ b[1] = Cmd("ENABLE_NETWORK")
      BY DEF If
    <2> HIDE DEF a, b
    <2>4. /\ Len(a \o b) = Len(a) + 1
          /\ \A j \in 1 .. Len(a) : (a \o b)[j] = Cmd("SELECT_NETWORK")
          /\ (a \o b)[Len(a) + 1] = Cmd("ENABLE_NETWORK")
      <3>1. /\ Len(a \o b) = Len(a) + Len(b)
            /\ \A j \in 1 .. Len(a) : (a \o b)[j] = a[j]
            /\ \A j \in 1 .. Len(b) : (a \o b)[Len(a) + j] = b[j]
        BY <2>2, ConcatIs
      <3>2. 1 \in 1 .. Len(b)
        BY <2>2
      <3> QED
        BY <3>1, <3>2, <2>2, <2>3, Zenon
    <2>5. i \in 1 .. Len(a) \/ i = Len(a) + 1
      BY <2>1, <2>2, <2>4
    <2>6. Steps(c)[i].cmd = "SELECT_NETWORK" \/ Steps(c)[i].cmd = "ENABLE_NETWORK"
      BY <2>1, <2>4, <2>5, <1>m, Zenon
    <2> QED
      BY <2>6
  <1>3. CASE c.op = "disconnect"
    <2>1. i \in 1 .. 2 /\ DisconnectSteps[i].cmd = "REMOVE_NETWORK"
      BY <1>3, StepsAre, FewSteps
    <2>2. i = 1 \/ i = 2
      BY <2>1
    <2> QED
      BY <2>1, <2>2, FewSteps, Zenon
  <1>4. CASE c.op = "update_priority"
    <2>1. Steps(c) = << Set("priority") >>
      BY <1>4 DEF Steps, PrioritySteps
    <2>2. Steps(c)[i] = Set("priority")
      BY <2>1
    <2>3. Set("priority").cmd = "SET_NETWORK"
      BY DEF Set
    <2> QED
      BY <2>2, <2>3
  <1>5. CASE c.op = "ping"
    <2>1. Steps(c) = << Cmd("PING") >>
      BY <1>5 DEF Steps, PingSteps
    <2>2. Steps(c)[i] = Cmd("PING")
      BY <2>1
    <2> QED
      BY <2>2, <1>m, Zenon
  <1>6. CASE c.op = "scan"
    <2>1. Steps(c) = << Cmd("SCAN") >>
      BY <1>6 DEF Steps, ScanSteps
    <2>2. Steps(c)[i] = Cmd("SCAN")
      BY <2>1
    <2> QED
      BY <2>2, <1>m, Zenon
  <1> QED
    BY <1>0, <1>1, <1>2, <1>3, <1>4, <1>5, <1>6, Zenon

----------------------------------------------------------------------------
(* Types.                                                                  *)

Answered == [kind : {"id", "OK", "FAIL", "PONG", "status"}, id : NetId \cup {NoId}]

SocketOK == requests \in Seq(Request) /\ inbox \in Seq(Answered)

NetsOK ==
  /\ DOMAIN nets \subseteq NetId
  /\ \A n \in DOMAIN nets :
       nets[n] \in [cfg : [Field -> Station \cup {Unset, Updated}], on : BOOLEAN]
  /\ conn # NoId => conn \in DOMAIN nets /\ nets[conn].on
  /\ seen \subseteq NetId \cup {NoId}

ClientOK ==
  /\ phase \in {"closed", "idle", "drain", "send", "wait"}
  /\ late \in 0 .. MaxLate
  /\ result \in {"none", "own", "other", "fail"}
  /\ call \in AnyCall /\ at \in 0 .. Len(Steps(call))
  /\ at = 0 \/ phase # "closed"
  /\ id \in Id8 /\ ret \in BOOLEAN
  /\ owned \subseteq Id8 /\ unsent \subseteq Id8

LEMMA TypeParts ==
  /\ TypeOK <=> SocketOK /\ NetsOK /\ ClientOK
  /\ TypeOK' <=> SocketOK' /\ NetsOK' /\ ClientOK'
  BY DEF TypeOK, SocketOK, NetsOK, ClientOK, Answered

LEMMA StepHere ==
  ASSUME ClientOK, at # 0
  PROVE  /\ at \in 1 .. Len(Steps(call)) /\ at \in Nat
         /\ Steps(call)[at] \in Step /\ Steps(call)[at].cmd \in Command
         /\ Steps(call) \in Seq(Step) /\ Len(Steps(call)) \in Nat
  <1>1. Steps(call) \in Seq(Step)
    BY StepsAre DEF ClientOK
  <1>2. at \in 1 .. Len(Steps(call)) /\ at \in Nat /\ Len(Steps(call)) \in Nat
    BY <1>1 DEF ClientOK
  <1>3. Steps(call)[at] \in Step
    BY <1>1, <1>2
  <1> QED
    BY <1>1, <1>2, <1>3 DEF Step

\* Where an operation is after a request that has ended.
LEMMA ProceedType ==
  ASSUME ClientOK, at # 0, NEW good \in BOOLEAN, Proceed(good), id' \in Id8
  PROVE  /\ at' \in 0 .. Len(Steps(call)) /\ ret' \in BOOLEAN /\ owned' \subseteq Id8
         /\ at' = 0 \/ at' = at + 1
         /\ at' = 0 => ret' = Verdict(good)
         /\ at' # 0 => UNCHANGED << ret, owned >>
  <1>1. at \in 1 .. Len(Steps(call)) /\ Len(Steps(call)) \in Nat
    BY StepHere
  <1>2. Verdict(good) \in BOOLEAN
    BY DEF Verdict
  <1>3. CASE at < Len(Steps(call)) /\ (good \/ call.op = "remove_all")
    <2>1. at' = at + 1 /\ UNCHANGED << ret, owned >>
      BY <1>3 DEF Proceed
    <2>2. \A n \in Nat : \A i \in 1 .. n : i < n => i + 1 \in 0 .. n /\ i + 1 # 0
      OBVIOUS
    <2> QED
      BY <1>1, <1>3, <2>1, <2>2, Zenon DEF ClientOK
  <1>4. CASE ~(at < Len(Steps(call)) /\ (good \/ call.op = "remove_all"))
    <2>1. /\ at' = 0 /\ ret' = Verdict(good)
          /\ (owned' = owned \cup {id'}) \/ (owned' = owned)
      BY <1>4, Zenon DEF Proceed
    <2>2. 0 \in 0 .. Len(Steps(call))
      BY <1>1
    <2> QED
      BY <1>2, <2>1, <2>2, Zenon DEF ClientOK
  <1> QED
    BY <1>3, <1>4, Zenon

LEMMA PingCall == [op |-> "ping"] \in AnyCall /\ 0 \in Id8 /\ NoId \notin NetId
  BY StationAssumption DEF StationAssumption, AnyCall, Id8, NoId, NetId

LEMMA InitType == Init => TypeOK
  <1> SUFFICES ASSUME Init PROVE SocketOK /\ NetsOK /\ ClientOK
    BY TypeParts
  <1>1. SocketOK
    BY DEF Init, SocketOK
  <1>2. NetsOK
    BY DEF Init, NetsOK, NoId
  <1>3. ClientOK
    <2>1. [op |-> "ping"] \in AnyCall /\ 0 \in Id8
      BY PingCall
    <2>2. 0 \in 0 .. MaxLate
      BY StationAssumption DEF StationAssumption
    <2>3. 0 \in 0 .. Len(Steps(call))
      BY <2>1, StepsAre DEF Init
    <2> QED
      BY <2>1, <2>2, <2>3 DEF Init, ClientOK
  <1> QED
    BY <1>1, <1>2, <1>3

LEMMA DeadIs ==
  ASSUME SocketOK
  PROVE  /\ Dead(requests) \in Seq(Request) /\ Len(Dead(requests)) = Len(requests)
         /\ \A i \in 1 .. Len(requests) :
              /\ Dead(requests)[i].live = FALSE
              /\ Dead(requests)[i].cmd = requests[i].cmd /\ Dead(requests)[i].id = requests[i].id
  <1>1. requests \in Seq(Request) /\ DOMAIN requests = 1 .. Len(requests) /\ Len(requests) \in Nat
    BY DEF SocketOK
  <1>2. \A i \in 1 .. Len(requests) : requests[i] \in Request
    BY <1>1
  <1>3. \A r \in Request : /\ [r EXCEPT !.live = FALSE] \in Request
                           /\ [r EXCEPT !.live = FALSE].live = FALSE
                           /\ [r EXCEPT !.live = FALSE].cmd = r.cmd
                           /\ [r EXCEPT !.live = FALSE].id = r.id
    BY DEF Request
  <1> DEFINE d == [i \in 1 .. Len(requests) |-> [requests[i] EXCEPT !.live = FALSE]]
  <1>4. Dead(requests) = d
    BY <1>1 DEF Dead
  <1>5. \A i \in 1 .. Len(requests) : d[i] = [requests[i] EXCEPT !.live = FALSE]
    OBVIOUS
  <1>6. \A i \in 1 .. Len(requests) : [requests[i] EXCEPT !.live = FALSE] \in Request
    BY <1>2, <1>3, Zenon
  <1>7. d \in Seq(Request) /\ Len(d) = Len(requests)
    BY <1>1, <1>6
  <1> HIDE DEF d
  <1>8. ASSUME NEW i \in 1 .. Len(requests)
        PROVE  d[i].live = FALSE /\ d[i].cmd = requests[i].cmd /\ d[i].id = requests[i].id
    <2>1. requests[i] \in Request /\ d[i] = [requests[i] EXCEPT !.live = FALSE]
      BY <1>2, <1>5
    <2> QED
      BY <2>1, <1>3
  <1> QED
    BY <1>4, <1>7, <1>8

LEMMA CountIs ==
  ASSUME NEW rs \in Seq(Request), NEW k \in 0 .. Len(rs),
         \A i \in 1 .. Len(rs) : rs[i].live = (i > k)
  PROVE  Cardinality({i \in DOMAIN rs : rs[i].live}) = Len(rs) - k
  <1>1. DOMAIN rs = 1 .. Len(rs) /\ Len(rs) \in Nat
    OBVIOUS
  <1>2. {i \in DOMAIN rs : rs[i].live} = k + 1 .. Len(rs)
    <2>2. {i \in DOMAIN rs : rs[i].live} = {i \in 1 .. Len(rs) : i > k}
      BY <1>1, Zenon
    <2>3. {i \in 1 .. Len(rs) : i > k} = k + 1 .. Len(rs)
      BY <1>1
    <2> QED
      BY <2>2, <2>3
  <1>3. Cardinality(k + 1 .. Len(rs)) = Len(rs) - k
    <2>1. k + 1 \in Int /\ Len(rs) \in Int
      BY <1>1
    <2>2. Cardinality(k + 1 .. Len(rs)) =
            IF k + 1 > Len(rs) THEN 0 ELSE Len(rs) - (k + 1) + 1
      BY <2>1, FS_Interval
    <2> QED
      BY <2>2, <1>1
  <1> QED
    BY <1>2, <1>3

LEMMA OwedIs ==
  ASSUME SocketOK, NEW k, DeadUpTo(k)
  PROVE  Owed = Len(inbox) + (Len(requests) - k) /\ Owed \in Nat
  <1>1. requests \in Seq(Request) /\ Len(requests) \in Nat /\ Len(inbox) \in Nat /\ k \in 0 .. Len(requests)
    BY DEF SocketOK, DeadUpTo
  <1>2. Cardinality({i \in DOMAIN requests : requests[i].live}) = Len(requests) - k
    BY <1>1, CountIs DEF DeadUpTo
  <1> QED
    BY <1>1, <1>2 DEF Owed

LEMMA OwedIsNext ==
  ASSUME SocketOK', NEW k, DeadUpTo(k)'
  PROVE  Owed' = Len(inbox') + (Len(requests') - k) /\ Owed' \in Nat
  <1>1. requests' \in Seq(Request) /\ Len(requests') \in Nat /\ Len(inbox') \in Nat /\ k \in 0 .. Len(requests')
    BY DEF SocketOK, DeadUpTo
  <1>2. Cardinality({i \in DOMAIN requests' : requests'[i].live}) = Len(requests') - k
    BY <1>1, CountIs DEF DeadUpTo
  <1> QED
    BY <1>1, <1>2 DEF Owed

LEMMA SessionType ==
  ASSUME TypeOK, Open \/ Close
  PROVE  TypeOK'
  <1>0. SocketOK /\ NetsOK /\ ClientOK /\ at = 0
    BY TypeParts DEF Open, Close
  <1>1. /\ requests' = Dead(requests) /\ inbox' = << >> /\ nets' = nets /\ conn' = conn
        /\ at' = at /\ owned' = owned /\ late' = 0 /\ result' = "none"
        /\ call' = [op |-> "ping"] /\ id' = 0 /\ ret' = FALSE /\ seen' = {} /\ unsent' = {}
        /\ phase' \in {"idle", "closed"}
    BY DEF Open, Close, FreshSocket, NoCallYet
  <1>2. SocketOK'
    BY <1>0, <1>1, DeadIs DEF SocketOK
  <1>3. NetsOK'
    BY <1>0, <1>1 DEF NetsOK
  <1>4. ClientOK'
    <2>1. [op |-> "ping"] \in AnyCall /\ 0 \in Id8
      BY PingCall
    <2>2. 0 \in 0 .. MaxLate
      BY StationAssumption DEF StationAssumption
    <2>3. 0 \in 0 .. Len(Steps(call'))
      BY <1>1, <2>1, StepsAre
    <2> QED
      BY <1>0, <1>1, <2>1, <2>2, <2>3 DEF ClientOK
  <1> QED
    BY <1>2, <1>3, <1>4, TypeParts

LEMMA CallId ==
  ASSUME NEW c \in AnyCall
  PROVE  (IF "id" \in DOMAIN c THEN c.id ELSE 0) \in Id8
  <1>1. CASE c.op \in {"remove", "update_priority", "connect"}
    <2>1. c.id \in Id8
      BY <1>1 DEF AnyCall
    <2> QED
      BY <2>1, PingCall
  <1>2. CASE c.op \notin {"remove", "update_priority", "connect"}
    <2>1. "id" \notin DOMAIN c
      BY <1>2 DEF AnyCall
    <2> QED
      BY <2>1, PingCall
  <1> QED
    BY <1>1, <1>2, Zenon

LEMMA CallType ==
  ASSUME TypeOK, NEW c \in Call, CallClosed(c) \/ StartCall(c)
  PROVE  TypeOK'
  <1>0. SocketOK /\ NetsOK /\ ClientOK /\ c \in AnyCall
    BY TypeParts DEF Call
  <1>1. UNCHANGED << requests, inbox, nets, conn, late >> /\ call' = c /\ ret' = FALSE
    BY DEF CallClosed, StartCall, svars
  <1>2. SocketOK'
    BY <1>0, <1>1 DEF SocketOK
  <1>3. NetsOK'
    <2>1. seen' = seen \/ seen' = {} \/ seen' = {conn}
      BY Zenon DEF CallClosed, StartCall
    <2>2. conn \in NetId \cup {NoId}
      BY <1>0 DEF NetsOK
    <2> QED
      BY <1>0, <1>1, <2>1, <2>2 DEF NetsOK
  <1>4. ClientOK'
    <2>1. Steps(c) \in Seq(Step) /\ Len(Steps(c)) >= 1
      BY <1>0, StepsAre
    <2>2. 0 \in 0 .. Len(Steps(c)) /\ 1 \in 0 .. Len(Steps(c))
      BY <2>1
    <2>3. CASE CallClosed(c)
      <3>1. /\ UNCHANGED << phase, result, at, id, owned >>
            /\ unsent' = (IF c.op = "remove_all" THEN Id8 ELSE {}) /\ phase = "closed"
        BY <2>3 DEF CallClosed
      <3>2. at = 0
        BY <1>0, <3>1 DEF ClientOK
      <3>3. unsent' \subseteq Id8
        BY <3>1
      <3> QED
        BY <1>0, <1>1, <2>2, <3>1, <3>2, <3>3, Zenon DEF ClientOK
    <2>4. CASE StartCall(c)
      <3>1. /\ phase' = "drain" /\ result' = "none" /\ unsent' = {} /\ at' = 1
            /\ id' = IF "id" \in DOMAIN c THEN c.id ELSE 0
        BY <2>4 DEF StartCall
      <3>2. owned' \subseteq owned
        <4>1. CASE c.op = "remove"
          BY <4>1, <2>4 DEF StartCall
        <4>2. CASE c.op = "remove_all"
          BY <4>2, <2>4 DEF StartCall
        <4>3. CASE c.op # "remove" /\ c.op # "remove_all"
          BY <4>3, <2>4 DEF StartCall
        <4> QED
          BY <4>1, <4>2, <4>3, Zenon
      <3>3. id' \in Id8
        BY <1>0, <3>1, CallId
      <3> QED
        BY <1>0, <1>1, <2>2, <3>1, <3>2, <3>3 DEF ClientOK
    <2> QED
      BY <2>3, <2>4
  <1> QED
    BY <1>2, <1>3, <1>4, TypeParts

LEMMA ModIs ==
  ASSUME NEW n \in NetId \cup {NoId}
  PROVE  n % IdRange \in Id8 /\ (n \in Id8 => n % IdRange = n)
  <1>1. n \in Int /\ IdRange \in Nat /\ IdRange > 0
    BY StationAssumption DEF StationAssumption, NetId, NoId
  <1>2. \A a \in Int, b \in Nat : b > 0 => a % b \in 0 .. b - 1
    OBVIOUS
  <1>3. \A a \in Int, b \in Nat : b > 0 /\ a \in 0 .. b - 1 => a % b = a
    OBVIOUS
  <1> QED
    BY <1>1, <1>2, <1>3, Zenon DEF Id8

\* What the client's own part of a request does not touch.
LEMMA ClientStep ==
  ASSUME NetsOK, ClientOK', UNCHANGED << nets, conn, seen >>, SocketOK'
  PROVE  TypeOK'
  <1>1. NetsOK'
    BY DEF NetsOK
  <1> QED
    BY <1>1, TypeParts

LEMMA NextRequestType ==
  ASSUME TypeOK, NextRequest
  PROVE  TypeOK'
  <1>0. SocketOK /\ NetsOK /\ ClientOK
    BY TypeParts
  <1>1. /\ UNCHANGED << late, requests, inbox, nets, conn, call, at, id, ret, owned, unsent, seen >>
        /\ phase' = "drain" /\ result' = "none"
    BY DEF NextRequest, svars, hvars
  <1>2. SocketOK'
    BY <1>0, <1>1 DEF SocketOK
  <1>3. ClientOK'
    BY <1>0, <1>1 DEF ClientOK
  <1> QED
    BY <1>0, <1>1, <1>2, <1>3, ClientStep

LEMMA DrainType ==
  ASSUME TypeOK, Drain
  PROVE  TypeOK'
  <1>0. SocketOK /\ NetsOK /\ ClientOK
    BY TypeParts
  <1>1. /\ UNCHANGED << late, result, requests, nets, conn, call, at, id, ret, owned, unsent, seen >>
        /\ phase' = "send" /\ inbox' = IF inbox = << >> THEN inbox ELSE Tail(inbox)
        /\ phase = "drain"
    BY DEF Drain, hvars
  <1>2. SocketOK'
    <2>1. inbox' \in Seq(Answered)
      BY <1>0, <1>1 DEF SocketOK
    <2> QED
      BY <2>1, <1>0, <1>1 DEF SocketOK
  <1>3. ClientOK'
    BY <1>0, <1>1 DEF ClientOK
  <1> QED
    BY <1>0, <1>1, <1>2, <1>3, ClientStep

\* The request an operation sends.
Own == [cmd |-> Steps(call)[at].cmd, field |-> Steps(call)[at].field, id |-> CmdId,
        val |-> Value, live |-> TRUE]

LEMMA CmdIdType ==
  ASSUME ClientOK, at # 0
  PROVE  CmdId \in Id8
  <1>1. CASE call.op = "remove_all"
    <2>1. Len(Steps(call)) = IdRange
      BY <1>1, StepsAre, FewSteps DEF ClientOK
    <2>2. at \in 1 .. IdRange
      BY <2>1, StepHere
    <2>3. IdRange \in Nat
      BY StationAssumption DEF StationAssumption
    <2>4. at - 1 \in 0 .. IdRange - 1
      BY <2>2, <2>3
    <2> QED
      BY <1>1, <2>4 DEF CmdId, Id8
  <1>2. CASE call.op # "remove_all"
    BY <1>2 DEF CmdId, ClientOK
  <1> QED
    BY <1>1, <1>2

LEMMA OwnIs ==
  ASSUME ClientOK, at # 0
  PROVE  /\ Own \in Request /\ Own.live = TRUE /\ Own.cmd = Steps(call)[at].cmd
         /\ Own.field = Steps(call)[at].field /\ Own.id = CmdId /\ Own.val = Value
  <1>1. Steps(call)[at].cmd \in Command /\ Steps(call)[at].field \in Field \cup {"none"}
    BY StepHere DEF Step
  <1>2. CmdId \in Id8
    BY CmdIdType
  <1>3. Value \in Station \cup {Updated}
    BY DEF Value, ClientOK, AnyCall
  <1> QED
    BY <1>1, <1>2, <1>3 DEF Own, Request

LEMMA SendIs ==
  ASSUME Send
  PROVE  /\ requests' = Append(requests, Own)
         /\ UNCHANGED << late, result, inbox, nets, conn, call, at, id, ret, owned, unsent, seen >>
         /\ phase = "send" /\ phase' = "wait"
  BY DEF Send, Own, hvars

LEMMA SendType ==
  ASSUME TypeOK, Send, at # 0
  PROVE  TypeOK'
  <1>0. SocketOK /\ NetsOK /\ ClientOK
    BY TypeParts
  <1>1. SocketOK'
    BY <1>0, SendIs, OwnIs DEF SocketOK
  <1>3. ClientOK'
    BY <1>0, SendIs DEF ClientOK
  <1> QED
    BY <1>0, <1>1, <1>3, ClientStep, SendIs

LEMMA GoOnType ==
  ASSUME TypeOK, at # 0, NEW good \in BOOLEAN, Proceed(good),
         phase' = "idle", result' \in {"own", "other", "fail"},
         late' \in 0 .. MaxLate, id' \in Id8, unsent' \subseteq Id8, inbox' \in Seq(Answered),
         UNCHANGED << requests, nets, conn, call, seen >>
  PROVE  TypeOK'
  <1>0. SocketOK /\ NetsOK /\ ClientOK
    BY TypeParts
  <1>1. SocketOK'
    BY <1>0 DEF SocketOK
  <1>2. at' \in 0 .. Len(Steps(call)) /\ ret' \in BOOLEAN /\ owned' \subseteq Id8
    BY <1>0, ProceedType
  <1>3. ClientOK'
    BY <1>0, <1>2 DEF ClientOK
  <1> QED
    BY <1>0, <1>1, <1>3, ClientStep

LEMMA WantedType ==
  ASSUME NEW r
  PROVE  Wanted(r) \in BOOLEAN
  BY DEF Wanted, IsConnected

LEMMA SendFailsIs ==
  ASSUME SendFails
  PROVE  /\ UNCHANGED << late, requests, inbox, nets, conn, call, id, seen >>
         /\ phase = "send" /\ phase' = "idle" /\ result' = "fail"
         /\ unsent' = IF call.op = "remove_all" THEN unsent \cup {CmdId} ELSE {}
         /\ Proceed(FALSE)
  BY DEF SendFails, svars

LEMMA SendFailsType ==
  ASSUME TypeOK, SendFails, at # 0
  PROVE  TypeOK'
  <1>0. SocketOK /\ NetsOK /\ ClientOK
    BY TypeParts
  <1>1. inbox' \in Seq(Answered) /\ late' \in 0 .. MaxLate /\ id' \in Id8
    BY <1>0, SendFailsIs DEF SocketOK, ClientOK
  <1>2. unsent' \subseteq Id8
    <2>1. CASE call.op = "remove_all"
      <3>1. CmdId \in Id8
        BY <1>0, CmdIdType
      <3> QED
        BY <1>0, <2>1, <3>1, SendFailsIs DEF ClientOK
    <2> QED
      BY <2>1, SendFailsIs
  <1> QED
    BY <1>1, <1>2, SendFailsIs, GoOnType

LEMMA ReceiveIs ==
  ASSUME Receive, SocketOK, ClientOK
  PROVE  /\ UNCHANGED << late, requests, nets, conn, call, seen, unsent >>
         /\ phase = "wait" /\ phase' = "idle" /\ result' = IF Owed = 1 THEN "own" ELSE "other"
         /\ Len(inbox) > 0 /\ inbox' = Tail(inbox) /\ inbox[1] \in Answered /\ Head(inbox) = inbox[1]
         /\ id' = IF Steps(call)[at].cmd \in {"ADD_NETWORK", "STATUS"} /\ Wanted(inbox[1])
                    THEN inbox[1].id % IdRange ELSE id
         /\ id' \in Id8
         /\ Proceed(Wanted(inbox[1]))
  <1>1. inbox \in Seq(Answered) /\ inbox # << >>
    BY DEF Receive, SocketOK
  <1>2. Len(inbox) > 0 /\ Head(inbox) = inbox[1] /\ inbox[1] \in Answered
    BY <1>1
  <1>3. id' = IF Steps(call)[at].cmd \in {"ADD_NETWORK", "STATUS"} /\ Wanted(inbox[1])
                THEN inbox[1].id % IdRange ELSE id
    BY <1>2, Zenon DEF Receive
  <1>4. inbox[1].id % IdRange \in Id8
    BY <1>2, ModIs DEF Answered
  <1>5. id' \in Id8
    BY <1>3, <1>4, Zenon DEF ClientOK
  <1>6. Proceed(Wanted(inbox[1]))
    BY <1>2, Zenon DEF Receive
  <1> QED
    BY <1>2, <1>3, <1>5, <1>6, Zenon DEF Receive

LEMMA ReceiveType ==
  ASSUME TypeOK, Receive, at # 0
  PROVE  TypeOK'
  <1>0. SocketOK /\ NetsOK /\ ClientOK
    BY TypeParts
  <1>1. inbox' \in Seq(Answered)
    BY <1>0, ReceiveIs DEF SocketOK
  <1>2. late' \in 0 .. MaxLate /\ unsent' \subseteq Id8
    BY <1>0, ReceiveIs DEF ClientOK
  <1>3. result' \in {"own", "other", "fail"}
    BY <1>0, ReceiveIs
  <1>4. id' \in Id8 /\ phase' = "idle" /\ Proceed(Wanted(inbox[1])) /\ UNCHANGED << requests, nets, conn, call, seen >>
    BY <1>0, ReceiveIs, Zenon
  <1>5. Wanted(inbox[1]) \in BOOLEAN
    BY WantedType
  <1> QED
    BY <1>1, <1>2, <1>3, <1>4, <1>5, GoOnType

LEMMA TimeoutIs ==
  ASSUME Timeout, SocketOK, ClientOK, QueueInv
  PROVE  /\ UNCHANGED << requests, inbox, nets, conn, call, id, seen, unsent >>
         /\ phase = "wait" /\ phase' = "idle" /\ result' = "fail" /\ Proceed(FALSE)
         /\ late' = late + 1 /\ late < MaxLate /\ Len(inbox) = 0
  <1>1. PICK k \in 0 .. Len(requests) : DeadUpTo(k)
    BY DEF QueueInv
  <1>2. Len(requests) \in Nat /\ Len(inbox) = 0 /\ late \in Nat
    BY StationAssumption DEF SocketOK, ClientOK, Timeout, StationAssumption
  <1>3. Owed = Len(inbox) + (Len(requests) - k)
    BY <1>1, OwedIs
  <1>4. late + Len(requests) - Owed < MaxLate
    BY DEF Timeout
  <1>5. late < MaxLate
    BY <1>1, <1>2, <1>3, <1>4, StationAssumption DEF StationAssumption
  <1> QED
    BY <1>2, <1>5 DEF Timeout, svars

LEMMA TimeoutType ==
  ASSUME TypeOK, QueueInv, Timeout, at # 0
  PROVE  TypeOK'
  <1>0. SocketOK /\ NetsOK /\ ClientOK
    BY TypeParts
  <1>1. inbox' \in Seq(Answered) /\ id' \in Id8 /\ unsent' \subseteq Id8
    BY <1>0, TimeoutIs DEF SocketOK, ClientOK
  <1>2. late' \in 0 .. MaxLate
    <2>1. late' = late + 1 /\ late < MaxLate /\ late \in 0 .. MaxLate
      BY <1>0, TimeoutIs DEF ClientOK
    <2> QED
      BY <2>1, StationAssumption DEF StationAssumption
  <1> QED
    BY <1>0, <1>1, <1>2, TimeoutIs, GoOnType

----------------------------------------------------------------------------
(* The supplicant.                                                         *)

\* It serves its first request with the answer a.
Took(a) ==
  /\ Len(requests) > 0 /\ a \in Answered
  /\ requests' = Tail(requests)
  /\ inbox' = IF requests[1].live THEN Append(inbox, a) ELSE inbox
  /\ UNCHANGED << phase, late, result, call, at, id, ret, owned, unsent >>

LEMMA TookIs ==
  ASSUME SocketOK, NEW a, Took(a)
  PROVE  /\ requests[1] \in Request /\ Len(requests) \in Nat /\ Len(requests) > 0 /\ Len(inbox) \in Nat
         /\ requests' \in Seq(Request) /\ Len(requests') = Len(requests) - 1
         /\ \A i \in 1 .. Len(requests) - 1 : requests'[i] = requests[i + 1]
         /\ inbox' \in Seq(Answered)
         /\ \A i \in 1 .. Len(inbox) : inbox'[i] = inbox[i]
         /\ requests[1].live => Len(inbox') = Len(inbox) + 1 /\ inbox'[Len(inbox) + 1] = a
         /\ ~requests[1].live => inbox' = inbox
  <1>1. requests \in Seq(Request) /\ Len(requests) > 0 /\ inbox \in Seq(Answered) /\ a \in Answered
    BY DEF SocketOK, Took
  <1>2. /\ requests[1] \in Request /\ Len(requests) \in Nat /\ Len(inbox) \in Nat
        /\ requests' \in Seq(Request) /\ Len(requests') = Len(requests) - 1
        /\ \A i \in 1 .. Len(requests) - 1 : requests'[i] = requests[i + 1]
    BY <1>1, TailIs, EmptyIs DEF Took
  <1>3. CASE requests[1].live
    <2>1. inbox' = Append(inbox, a)
      BY <1>3 DEF Took
    <2>2. /\ inbox' \in Seq(Answered) /\ Len(inbox') = Len(inbox) + 1
          /\ inbox'[Len(inbox) + 1] = a
          /\ \A i \in 1 .. Len(inbox) : inbox'[i] = inbox[i]
      BY <1>1, <2>1, AppendIs
    <2> QED
      BY <1>1, <1>2, <1>3, <2>2
  <1>4. CASE ~requests[1].live
    <2>1. inbox' = inbox
      BY <1>4 DEF Took
    <2> QED
      BY <1>1, <1>2, <1>4, <2>1, Zenon
  <1> QED
    BY <1>3, <1>4, Zenon

LEMMA TookParts ==
  ASSUME SocketOK, ClientOK, NEW a, Took(a)
  PROVE  SocketOK' /\ ClientOK'
  <1>1. SocketOK'
    BY TookIs DEF SocketOK
  <1>2. ClientOK'
    BY DEF ClientOK, Took
  <1> QED
    BY <1>1, <1>2

LEMMA HeadIs ==
  ASSUME SocketOK, NEW cmd, Take(cmd), NEW a \in Answered, Answer(a), UNCHANGED client
  PROVE  Took(a) /\ Head(requests) = requests[1] /\ requests[1] \in Request /\ requests[1].cmd \in cmd
  <1>1. requests \in Seq(Request) /\ requests # << >> /\ requests' = Tail(requests)
    BY DEF SocketOK, Take
  <1>2. Len(requests) > 0 /\ Head(requests) = requests[1] /\ requests[1] \in Request
    BY <1>1
  <1>3. UNCHANGED << phase, late, result, call, at, id, ret, owned, unsent >>
    BY DEF client, hvars
  <1> QED
    BY <1>1, <1>2, <1>3, Zenon DEF Took, Answer, Take

LEMMA ReplyIs ==
  /\ Reply("OK") \in Answered /\ Reply("FAIL") \in Answered /\ Reply("PONG") \in Answered
  /\ \A k : Reply(k).kind = k
  BY DEF Reply, Answered, NoId

NewNetAdded == nets' = [n \in DOMAIN nets \cup {NewId} |-> IF n = NewId THEN NewNet ELSE nets[n]]

LEMMA ServeAddIs ==
  ASSUME SocketOK, ServeAdd
  PROVE  /\ requests[1].cmd = "ADD_NETWORK" /\ UNCHANGED << conn, seen >>
         /\ \/ /\ NewId \in NetId /\ NewNetAdded
               /\ Took([kind |-> "id", id |-> NewId])
            \/ UNCHANGED nets /\ Took(Reply("FAIL"))
  <1>1. CASE NewId \in NetId
    <2>1. Take({"ADD_NETWORK"}) /\ Answer([kind |-> "id", id |-> NewId]) /\ UNCHANGED << client, conn, seen >> /\ NewNetAdded
      BY <1>1, Zenon DEF ServeAdd, NewNetAdded
    <2>2. [kind |-> "id", id |-> NewId] \in Answered
      BY <1>1 DEF Answered
    <2> QED
      BY <1>1, <2>1, <2>2, HeadIs
  <1>2. CASE NewId \notin NetId
    <2>1. Take({"ADD_NETWORK"}) /\ Answer(Reply("FAIL")) /\ UNCHANGED << client, conn, seen, nets >>
      BY <1>2, Zenon DEF ServeAdd
    <2> QED
      BY <2>1, ReplyIs, HeadIs
  <1> QED
    BY <1>1, <1>2

LEMMA ServeSetIs ==
  ASSUME SocketOK, ServeSet
  PROVE  /\ requests[1].cmd = "SET_NETWORK" /\ UNCHANGED << conn, seen >>
         /\ \/ /\ requests[1].id \in DOMAIN nets
               /\ nets' = [nets EXCEPT ![requests[1].id].cfg[requests[1].field] = requests[1].val]
               /\ Took(Reply("OK"))
            \/ UNCHANGED nets /\ Took(Reply("FAIL"))
  <1>1. Take({"SET_NETWORK"}) /\ UNCHANGED << client, conn, seen >>
    BY DEF ServeSet
  <1>2. CASE /\ Head(requests).id \in DOMAIN nets
             /\ nets' = [nets EXCEPT ![Head(requests).id].cfg[Head(requests).field] = Head(requests).val]
             /\ Answer(Reply("OK"))
    <2>1. Took(Reply("OK")) /\ Head(requests) = requests[1] /\ requests[1].cmd = "SET_NETWORK"
      BY <1>1, <1>2, ReplyIs, HeadIs
    <2> QED
      BY <1>1, <1>2, <2>1
  <1>3. CASE UNCHANGED nets /\ Answer(Reply("FAIL"))
    <2>1. Took(Reply("FAIL")) /\ requests[1].cmd = "SET_NETWORK"
      BY <1>1, <1>3, ReplyIs, HeadIs
    <2> QED
      BY <1>1, <1>3, <2>1
  <1> QED
    BY <1>2, <1>3 DEF ServeSet

Switched(r) ==
  CASE r.cmd = "REMOVE_NETWORK" -> [n \in DOMAIN nets \ {r.id} |-> nets[n]]
    [] r.cmd = "ENABLE_NETWORK" -> [nets EXCEPT ![r.id].on = TRUE]
    [] r.cmd = "DISABLE_NETWORK" -> [nets EXCEPT ![r.id].on = FALSE]
    [] r.cmd = "SELECT_NETWORK" -> [n \in DOMAIN nets |-> [nets[n] EXCEPT !.on = n = r.id]]

LEMMA ServeSwitchIs ==
  ASSUME SocketOK, ServeSwitch
  PROVE  /\ requests[1].cmd \in {"ENABLE_NETWORK", "SELECT_NETWORK", "DISABLE_NETWORK", "REMOVE_NETWORK"}
         /\ \/ /\ requests[1].id \in DOMAIN nets
               /\ nets' = Switched(requests[1])
               /\ Connected(IF conn \in DOMAIN nets' /\ nets'[conn].on THEN conn ELSE NoId)
               /\ Took(Reply("OK"))
            \/ /\ requests[1].id \notin DOMAIN nets
               /\ UNCHANGED << nets, conn, seen >> /\ Took(Reply("FAIL"))
  <1> DEFINE cmds == {"ENABLE_NETWORK", "SELECT_NETWORK", "DISABLE_NETWORK", "REMOVE_NETWORK"}
  <1>1. Take(cmds) /\ UNCHANGED client
    BY DEF ServeSwitch
  <1> HIDE DEF cmds
  <1>2. CASE Head(requests).id \notin DOMAIN nets
    <2>1. UNCHANGED << nets, conn, seen >> /\ Answer(Reply("FAIL"))
      BY <1>2, Zenon DEF ServeSwitch
    <2>2. Took(Reply("FAIL")) /\ Head(requests) = requests[1] /\ requests[1].cmd \in cmds
      BY <1>1, <2>1, ReplyIs, HeadIs, Zenon
    <2> QED
      BY <1>2, <2>1, <2>2, Zenon DEF cmds
  <1>3. CASE Head(requests).id \in DOMAIN nets
    <2>1. /\ nets' = Switched(Head(requests)) /\ Answer(Reply("OK"))
          /\ Connected(IF conn \in DOMAIN nets' /\ nets'[conn].on THEN conn ELSE NoId)
      BY <1>3, Zenon DEF ServeSwitch, Switched
    <2>2. Took(Reply("OK")) /\ Head(requests) = requests[1] /\ requests[1].cmd \in cmds
      BY <1>1, <2>1, ReplyIs, HeadIs, Zenon
    <2> QED
      BY <1>3, <2>1, <2>2, Zenon DEF cmds
  <1> QED
    BY <1>2, <1>3

LEMMA ServeQueryIs ==
  ASSUME SocketOK, NetsOK, ServeQuery
  PROVE  /\ UNCHANGED << nets, conn, seen >>
         /\ \/ requests[1].cmd = "STATUS" /\ Took([kind |-> "status", id |-> conn])
            \/ requests[1].cmd = "PING" /\ Took(Reply("PONG"))
            \/ requests[1].cmd = "SCAN" /\ Took(Reply("OK"))
  <1>1. Take({"STATUS", "PING", "SCAN"}) /\ UNCHANGED << client, nets, conn, seen >>
    BY DEF ServeQuery
  <1>2. Head(requests).cmd \in {"STATUS", "PING", "SCAN"}
    BY <1>1 DEF Take
  <1>3. CASE Head(requests).cmd = "STATUS"
    <2>1. Answer([kind |-> "status", id |-> conn])
      BY <1>3 DEF ServeQuery
    <2>2. [kind |-> "status", id |-> conn] \in Answered
      BY DEF Answered, NetsOK
    <2> QED
      BY <1>1, <1>3, <2>1, <2>2, HeadIs
  <1>4. CASE Head(requests).cmd = "PING"
    <2>1. Answer(Reply("PONG"))
      BY <1>4 DEF ServeQuery
    <2> QED
      BY <1>1, <1>4, <2>1, ReplyIs, HeadIs
  <1>5. CASE Head(requests).cmd = "SCAN"
    <2>1. Answer(Reply("OK"))
      BY <1>5 DEF ServeQuery
    <2> QED
      BY <1>1, <1>5, <2>1, ReplyIs, HeadIs
  <1> QED
    BY <1>2, <1>3, <1>4, <1>5

NetType == [cfg : [Field -> Station \cup {Unset, Updated}], on : BOOLEAN]

LEMMA NetEdits ==
  ASSUME NEW m \in NetType
  PROVE  /\ \A b \in BOOLEAN : /\ [m EXCEPT !.on = b] \in NetType /\ [m EXCEPT !.on = b].on = b
                               /\ [m EXCEPT !.on = b].cfg = m.cfg
  BY DEF NetType

LEMMA NewNetIs ==
  NewNet \in NetType /\ NewNet.on = FALSE /\ \A f \in Field : NewNet.cfg[f] = Unset
  BY DEF NewNet, NetType

LEMMA NetAddedIs ==
  ASSUME NewNetAdded
  PROVE  /\ DOMAIN nets' = DOMAIN nets \cup {NewId} /\ nets'[NewId] = NewNet
         /\ \A n \in DOMAIN nets : nets'[n] = nets[n] \/ nets'[n] = NewNet
         /\ \A n \in DOMAIN nets : n # NewId => nets'[n] = nets[n]
  BY DEF NewNetAdded

LEMMA NetsParts ==
  ASSUME NetsOK
  PROVE  \A n \in DOMAIN nets : nets[n] \in NetType
  BY DEF NetsOK, NetType

LEMMA MaxIs ==
  ASSUME NEW S, S \subseteq NetId, S # {}
  PROVE  Max(S) \in S /\ \A n \in S : n <= Max(S)
  <1>0. MaxNets \in Nat /\ \A n \in S : n \in Nat /\ n < MaxNets
    BY StationAssumption DEF StationAssumption, NetId
  <1> DEFINE T == {m \in Nat : \E n \in S : m = MaxNets - n}
  <1>1. T \subseteq Nat /\ T # {}
    <2>1. PICK n \in S : TRUE
      OBVIOUS
    <2>2. MaxNets - n \in T
      BY <1>0
    <2> QED
      BY <2>2
  <1>2. PICK m \in T : \A y \in T : ~(<< y, m >> \in OpToRel(<, Nat))
    BY <1>1, NatLessThanWellFounded, WFMin
  <1>3. PICK n \in S : m = MaxNets - n
    OBVIOUS
  <1>4. \A y \in S : n >= y
    <2> TAKE y \in S
    <2>1. MaxNets - y \in T /\ MaxNets - y \in Nat /\ m \in Nat
      BY <1>0
    <2>2. ~(MaxNets - y < m)
      BY <1>2, <2>1 DEF OpToRel
    <2> QED
      BY <1>0, <1>3, <2>2
  <1>5. \E x \in S : \A y \in S : x >= y
    BY <1>4
  <1>6. Max(S) \in S /\ \A y \in S : Max(S) >= y
    BY <1>5, Zenon DEF Max
  <1> QED
    BY <1>0, <1>6

\* A new network gets a number no network has.
LEMMA NewIdIsNew ==
  ASSUME NetsOK
  PROVE  NewId \notin DOMAIN nets
  <1>1. CASE DOMAIN nets = {}
    BY <1>1
  <1>2. CASE DOMAIN nets # {}
    <2>1. nets # << >>
      BY <1>2
    <2>2. NewId = Max(DOMAIN nets) + 1
      BY <2>1 DEF NewId
    <2>3. Max(DOMAIN nets) \in DOMAIN nets /\ \A n \in DOMAIN nets : n <= Max(DOMAIN nets)
      BY <1>2, MaxIs DEF NetsOK
    <2>4. \A n \in DOMAIN nets : n \in Int
      BY DEF NetsOK, NetId
    <2>5. \A n \in Int : ~(n + 1 <= n)
      OBVIOUS
    <2> QED
      BY <2>2, <2>3, <2>4, <2>5, Zenon
  <1> QED
    BY <1>1, <1>2

LEMMA SetEdits ==
  ASSUME NEW r \in Request, r.id \in DOMAIN nets,
         \A n \in DOMAIN nets : nets[n] \in NetType,
         nets' = [nets EXCEPT ![r.id].cfg[r.field] = r.val]
  PROVE  /\ DOMAIN nets' = DOMAIN nets
         /\ \A n \in DOMAIN nets : nets'[n] \in NetType /\ nets'[n].on = nets[n].on
         /\ \A n \in DOMAIN nets : n # r.id => nets'[n] = nets[n]
         /\ \A f \in Field : nets'[r.id].cfg[f] = IF f = r.field THEN r.val ELSE nets[r.id].cfg[f]
  <1>1. r.val \in Station \cup {Updated}
    BY DEF Request
  <1>2. /\ DOMAIN nets' = DOMAIN nets
        /\ \A n \in DOMAIN nets : n # r.id => nets'[n] = nets[n]
        /\ nets'[r.id] = [nets[r.id] EXCEPT !.cfg[r.field] = r.val]
    OBVIOUS
  <1>3. nets[r.id] \in NetType
    OBVIOUS
  <1>4. /\ nets'[r.id] \in NetType /\ nets'[r.id].on = nets[r.id].on
        /\ \A f \in Field : nets'[r.id].cfg[f] = IF f = r.field THEN r.val ELSE nets[r.id].cfg[f]
    <2> DEFINE e == nets'[r.id]
               m == nets[r.id]
               v == r.val
               g == r.field
    <2>1. e = [m EXCEPT !.cfg[g] = v] /\ m \in NetType /\ v \in Station \cup {Updated}
      BY <1>1, <1>2, <1>3
    <2> HIDE DEF e, m, v, g
    <2>2. /\ e \in NetType /\ e.on = m.on
          /\ \A f \in Field : e.cfg[f] = IF f = g THEN v ELSE m.cfg[f]
      BY <2>1 DEF NetType
    <2> QED
      BY <2>2 DEF e, m, v, g
  <1> QED
    BY <1>2, <1>4, Zenon

\* What holds of the networks when a request has switched one.
LEMMA SwitchedIs ==
  ASSUME NetsOK, NEW r \in Request, r.id \in DOMAIN nets,
         r.cmd \in {"ENABLE_NETWORK", "SELECT_NETWORK", "DISABLE_NETWORK", "REMOVE_NETWORK"},
         nets' = Switched(r)
  PROVE  /\ DOMAIN nets' = IF r.cmd = "REMOVE_NETWORK" THEN DOMAIN nets \ {r.id} ELSE DOMAIN nets
         /\ \A n \in DOMAIN nets' : /\ nets'[n] \in NetType /\ nets'[n].cfg = nets[n].cfg
                                    /\ nets'[n].on => nets[n].on \/ n = r.id
         /\ r.cmd = "DISABLE_NETWORK" => r.id \in DOMAIN nets' /\ ~nets'[r.id].on
  <1>0. \A n \in DOMAIN nets : nets[n] \in NetType /\ nets[n].on \in BOOLEAN
    BY NetsParts DEF NetType
  <1>1. CASE r.cmd = "REMOVE_NETWORK"
    <2>1. nets' = [n \in DOMAIN nets \ {r.id} |-> nets[n]]
      BY <1>1 DEF Switched
    <2> QED
      BY <1>0, <1>1, <2>1
  <1>2. CASE r.cmd = "ENABLE_NETWORK"
    <2>1. nets' = [nets EXCEPT ![r.id].on = TRUE]
      BY <1>2 DEF Switched
    <2>2. /\ DOMAIN nets' = DOMAIN nets
          /\ \A n \in DOMAIN nets : nets'[n] = IF n = r.id THEN [nets[n] EXCEPT !.on = TRUE] ELSE nets[n]
      BY <2>1
    <2>3. \A n \in DOMAIN nets : /\ [nets[n] EXCEPT !.on = TRUE] \in NetType
                                 /\ [nets[n] EXCEPT !.on = TRUE].cfg = nets[n].cfg
      BY <1>0, NetEdits, Zenon
    <2>4. \A n \in DOMAIN nets : nets'[n].on => nets[n].on \/ n = r.id
      BY <2>2, Zenon
    <2>5. \A n \in DOMAIN nets : nets'[n] \in NetType /\ nets'[n].cfg = nets[n].cfg
      BY <1>0, <2>2, <2>3, Zenon
    <2>6. r.cmd # "REMOVE_NETWORK" /\ r.cmd # "DISABLE_NETWORK"
      BY <1>2
    <2> QED
      BY <2>2, <2>4, <2>5, <2>6, Zenon
  <1>3. CASE r.cmd = "DISABLE_NETWORK"
    <2>1. nets' = [nets EXCEPT ![r.id].on = FALSE]
      BY <1>3 DEF Switched
    <2>2. /\ DOMAIN nets' = DOMAIN nets
          /\ \A n \in DOMAIN nets : nets'[n] = IF n = r.id THEN [nets[n] EXCEPT !.on = FALSE] ELSE nets[n]
      BY <2>1
    <2>3. \A n \in DOMAIN nets : /\ [nets[n] EXCEPT !.on = FALSE] \in NetType
                                 /\ [nets[n] EXCEPT !.on = FALSE].cfg = nets[n].cfg
                                 /\ [nets[n] EXCEPT !.on = FALSE].on = FALSE
      BY <1>0, NetEdits, Zenon
    <2> QED
      BY <1>0, <1>3, <2>2, <2>3
  <1>4. CASE r.cmd = "SELECT_NETWORK"
    <2>1. nets' = [n \in DOMAIN nets |-> [nets[n] EXCEPT !.on = (n = r.id)]]
      BY <1>4 DEF Switched
    <2>2. /\ DOMAIN nets' = DOMAIN nets
          /\ \A n \in DOMAIN nets : nets'[n] = [nets[n] EXCEPT !.on = (n = r.id)]
      BY <2>1, Zenon
    <2>3. ASSUME NEW n \in DOMAIN nets
          PROVE  /\ nets'[n] \in NetType /\ nets'[n].cfg = nets[n].cfg
                 /\ nets'[n].on => n = r.id
      <3>1. nets[n] \in NetType
        BY <1>0
      <3>2. (n = r.id) \in BOOLEAN
        OBVIOUS
      <3>3. /\ [nets[n] EXCEPT !.on = (n = r.id)] \in NetType
            /\ [nets[n] EXCEPT !.on = (n = r.id)].on = (n = r.id)
            /\ [nets[n] EXCEPT !.on = (n = r.id)].cfg = nets[n].cfg
        BY <3>1, <3>2, NetEdits, Zenon
      <3>4. nets'[n] = [nets[n] EXCEPT !.on = (n = r.id)]
        BY <2>2
      <3> QED
        BY <3>3, <3>4, Zenon
    <2> QED
      BY <1>4, <2>2, <2>3
  <1> QED
    BY <1>1, <1>2, <1>3, <1>4

LEMMA ConnectedIs ==
  ASSUME NEW c, Connected(c)
  PROVE  /\ conn' = c /\ seen' \subseteq seen \cup {c} /\ seen \subseteq seen'
         /\ call.op = "disconnect" /\ at # 0 => c \in seen'
  BY Zenon DEF Connected

LEMMA RoamIs ==
  ASSUME Roam
  PROVE  /\ UNCHANGED << phase, late, result, call, at, id, ret, owned, unsent, requests, inbox, nets >>
         /\ \/ conn = NoId /\ \E n \in DOMAIN nets : nets[n].on /\ Connected(n)
            \/ conn # NoId /\ Connected(NoId)
  BY Zenon DEF Roam, client, hvars

LEMMA ServeType ==
  ASSUME TypeOK, ServeAdd \/ ServeSet \/ ServeSwitch \/ ServeQuery \/ Roam
  PROVE  TypeOK'
  <1>0. SocketOK /\ NetsOK /\ ClientOK
    BY TypeParts
  <1>n. \A n \in DOMAIN nets : nets[n] \in NetType
    BY <1>0, NetsParts
  <1>1. CASE ServeAdd
    <2>1. SocketOK' /\ ClientOK'
      BY <1>0, <1>1, ServeAddIs, TookParts
    <2>2. UNCHANGED << conn, seen >>
      BY <1>0, <1>1, ServeAddIs
    <2>3. CASE UNCHANGED nets
      BY <1>0, <2>1, <2>2, <2>3, TypeParts DEF NetsOK
    <2>4. CASE NewId \in NetId /\ NewNetAdded
      <3>1. /\ DOMAIN nets' \subseteq NetId
            /\ \A n \in DOMAIN nets' : nets'[n] \in NetType
            /\ \A n \in DOMAIN nets : nets'[n] = nets[n] \/ nets'[n] = NewNet
        BY <1>0, <1>n, <2>4, NetAddedIs, NewNetIs DEF NetsOK
      <3>2. conn # NoId => conn \in DOMAIN nets' /\ nets'[conn].on
        <4>1. CASE UNCHANGED nets
          BY <4>1, <2>2, <1>0 DEF NetsOK
        <4>2. ASSUME conn # NoId, conn = NewId
              PROVE  FALSE
          <5>1. conn \in DOMAIN nets
            BY <4>2, <1>0 DEF NetsOK
          <5> QED
            BY <4>2, <5>1, <1>0, NewIdIsNew
        <4>3. conn # NoId => conn \in DOMAIN nets /\ nets[conn].on
          BY <1>0 DEF NetsOK
        <4> QED
          BY <4>2, <4>3, <2>4, NetAddedIs
      <3>3. NetsOK'
        BY <1>0, <2>2, <3>1, <3>2 DEF NetsOK, NetType
      <3> QED
        BY <2>1, <3>3, TypeParts
    <2> QED
      BY <1>0, <1>1, <2>3, <2>4, ServeAddIs
  <1>2. CASE ServeSet
    <2>1. SocketOK' /\ ClientOK'
      BY <1>0, <1>2, ServeSetIs, TookParts
    <2>2. UNCHANGED << conn, seen >>
      BY <1>0, <1>2, ServeSetIs
    <2>3. CASE UNCHANGED nets
      BY <1>0, <2>1, <2>2, <2>3, TypeParts DEF NetsOK
    <2>4. CASE /\ requests[1].id \in DOMAIN nets /\ requests[1] \in Request
               /\ nets' = [nets EXCEPT ![requests[1].id].cfg[requests[1].field] = requests[1].val]
      <3>1. /\ DOMAIN nets' = DOMAIN nets
            /\ \A n \in DOMAIN nets' : nets'[n] \in NetType /\ nets'[n].on = nets[n].on
        BY <2>4, <1>n, SetEdits
      <3>3. NetsOK'
        BY <1>0, <2>2, <3>1 DEF NetsOK, NetType
      <3> QED
        BY <2>1, <3>3, TypeParts
    <2>5. requests[1] \in Request
      BY <1>0, <1>2, ServeSetIs, TookIs
    <2> QED
      BY <1>0, <1>2, <2>3, <2>4, <2>5, ServeSetIs
  <1>3. CASE ServeSwitch
    <2>1. SocketOK' /\ ClientOK'
      BY <1>0, <1>3, ServeSwitchIs, TookParts
    <2>3. CASE UNCHANGED << nets, conn, seen >>
      BY <1>0, <2>1, <2>3, TypeParts DEF NetsOK
    <2>4. CASE /\ requests[1].id \in DOMAIN nets /\ requests[1] \in Request
               /\ nets' = Switched(requests[1])
               /\ Connected(IF conn \in DOMAIN nets' /\ nets'[conn].on THEN conn ELSE NoId)
      <3>0. requests[1].cmd \in {"ENABLE_NETWORK", "SELECT_NETWORK", "DISABLE_NETWORK", "REMOVE_NETWORK"}
        BY <1>0, <1>3, ServeSwitchIs
      <3>1. DOMAIN nets' \subseteq DOMAIN nets /\ \A n \in DOMAIN nets' : nets'[n] \in NetType
        BY <1>0, <2>4, <3>0, SwitchedIs
      <3>2. conn' = (IF conn \in DOMAIN nets' /\ nets'[conn].on THEN conn ELSE NoId) /\ seen' \subseteq seen \cup {conn'}
        BY <2>4, ConnectedIs
      <3>3. conn' # NoId => conn' \in DOMAIN nets' /\ nets'[conn'].on
        BY <3>2
      <3>4. conn' \in NetId \cup {NoId}
        BY <3>1, <3>3, <1>0 DEF NetsOK
      <3>5. NetsOK'
        BY <1>0, <3>1, <3>2, <3>3, <3>4 DEF NetsOK, NetType
      <3> QED
        BY <2>1, <3>5, TypeParts
    <2>5. requests[1] \in Request
      BY <1>0, <1>3, ServeSwitchIs, TookIs
    <2> QED
      BY <1>0, <1>3, <2>3, <2>4, <2>5, ServeSwitchIs
  <1>4. CASE ServeQuery
    <2>1. SocketOK' /\ ClientOK' /\ UNCHANGED << nets, conn, seen >>
      BY <1>0, <1>4, ServeQueryIs, TookParts
    <2> QED
      BY <1>0, <2>1, TypeParts DEF NetsOK
  <1>5. CASE Roam
    <2>1. SocketOK'
      BY <1>0, <1>5, RoamIs DEF SocketOK
    <2>2. ClientOK'
      BY <1>0, <1>5, RoamIs DEF ClientOK
    <2>3. PICK c : Connected(c) /\ (c = NoId \/ (c \in DOMAIN nets /\ nets[c].on))
      BY <1>5, RoamIs
    <2>4. conn' = c /\ seen' \subseteq seen \cup {c} /\ nets' = nets
      BY <1>5, <2>3, ConnectedIs, RoamIs
    <2>5. NetsOK'
      BY <1>0, <2>3, <2>4 DEF NetsOK
    <2> QED
      BY <2>1, <2>2, <2>5, TypeParts
  <1> QED
    BY <1>1, <1>2, <1>3, <1>4, <1>5

----------------------------------------------------------------------------
(* What is owed to the client.                                             *)

LEMMA OwedNat ==
  ASSUME SocketOK, QueueInv
  PROVE  Owed \in Nat /\ Len(inbox) \in Nat /\ Len(inbox) <= Owed
  <1>1. PICK k \in 0 .. Len(requests) : DeadUpTo(k)
    BY DEF QueueInv
  <1>2. Owed = Len(inbox) + (Len(requests) - k) /\ Owed \in Nat
    BY <1>1, OwedIs
  <1> QED
    BY <1>1, <1>2 DEF SocketOK

LEMMA QueueWitness ==
  ASSUME SocketOK', NEW k, DeadUpTo(k)'
  PROVE  QueueInv'
  BY DEF QueueInv, DeadUpTo, SocketOK

LEMMA QueueSame ==
  ASSUME SocketOK, QueueInv, UNCHANGED << requests, inbox >>
  PROVE  QueueInv' /\ Owed' = Owed
  BY DEF QueueInv, DeadUpTo, Owed

LEMMA QueueInit == Init => QueueInv /\ Owed = 0
  <1> SUFFICES ASSUME Init PROVE QueueInv /\ Owed = 0
    OBVIOUS
  <1>1. SocketOK
    BY InitType, TypeParts
  <1>2. requests = << >> /\ inbox = << >>
    BY DEF Init
  <1>3. DeadUpTo(0)
    BY <1>2 DEF DeadUpTo
  <1>4. QueueInv
    BY <1>2, <1>3 DEF QueueInv
  <1> QED
    BY <1>1, <1>2, <1>3, <1>4, OwedIs

LEMMA QueueFresh ==
  ASSUME SocketOK, SocketOK', requests' = Dead(requests), inbox' = << >>
  PROVE  QueueInv' /\ Owed' = 0 /\ Len(inbox') = 0
  <1>1. PICK n : n = Len(requests)
    OBVIOUS
  <1>2. n \in Nat /\ Len(requests') = n /\ Len(inbox') = 0
    BY <1>1, DeadIs DEF SocketOK
  <1>3. \A i \in 1 .. Len(requests') : requests'[i].live = FALSE
    BY <1>1, <1>2, DeadIs, Zenon
  <1>4. n \in 0 .. n /\ \A i \in 1 .. n : (i > n) = FALSE
    BY <1>2
  <1>5. DeadUpTo(n)'
    BY <1>2, <1>3, <1>4, Zenon DEF DeadUpTo
  <1>6. Owed' = Len(inbox') + (Len(requests') - n)
    BY <1>5, OwedIsNext
  <1> QED
    BY <1>2, <1>5, <1>6, QueueWitness

\* A reply is read.
LEMMA QueueRead ==
  ASSUME SocketOK, SocketOK', QueueInv, requests' = requests, inbox' = Tail(inbox), Len(inbox) > 0
  PROVE  QueueInv' /\ Owed' = Owed - 1 /\ Len(inbox') = Len(inbox) - 1
         /\ DeadUpTo(0) /\ DeadUpTo(0)' /\ Owed = Len(inbox) + Len(requests)
  <1>0. Len(requests) \in Nat /\ Len(inbox) \in Nat /\ Len(inbox') = Len(inbox) - 1
    BY DEF SocketOK
  <1>1. PICK k \in 0 .. Len(requests) : DeadUpTo(k)
    BY DEF QueueInv
  <1>2. k = 0
    BY <1>0, <1>1 DEF DeadUpTo
  <1>3. DeadUpTo(0) /\ DeadUpTo(0)'
    BY <1>1, <1>2 DEF DeadUpTo
  <1>4. Owed = Len(inbox) + (Len(requests) - 0) /\ Owed' = Len(inbox') + (Len(requests') - 0)
    BY <1>3, OwedIs, OwedIsNext
  <1>5. QueueInv'
    BY <1>3, QueueWitness
  <1> QED
    BY <1>0, <1>3, <1>4, <1>5

LEMMA QueueSend ==
  ASSUME SocketOK, SocketOK', QueueInv, NEW r \in Request, r.live = TRUE,
         requests' = Append(requests, r), inbox' = inbox
  PROVE  QueueInv' /\ Owed' = Owed + 1
  <1>1. PICK k \in 0 .. Len(requests) : DeadUpTo(k)
    BY DEF QueueInv
  <1>2. /\ Len(requests) \in Nat /\ Len(inbox) \in Nat /\ Len(requests') = Len(requests) + 1
        /\ requests'[Len(requests) + 1] = r
        /\ \A i \in 1 .. Len(requests) : requests'[i] = requests[i]
    BY AppendIs DEF SocketOK
  <1>3. DeadUpTo(k)'
    <2>1. ASSUME NEW i \in 1 .. Len(requests')
          PROVE  requests'[i].live = (i > k)
      <3>1. CASE i \in 1 .. Len(requests)
        BY <1>1, <1>2, <3>1, Zenon DEF DeadUpTo
      <3>2. CASE i = Len(requests) + 1
        <4>1. (i > k) = TRUE
          BY <1>1, <1>2, <3>2
        <4> QED
          BY <1>2, <3>2, <4>1, Zenon
      <3> QED
        BY <1>2, <3>1, <3>2
    <2>2. k \in 0 .. Len(requests')
      BY <1>1, <1>2
    <2>3. k > 0 => Len(inbox') = 0
      BY <1>1 DEF DeadUpTo
    <2> QED
      BY <2>1, <2>2, <2>3, Zenon DEF DeadUpTo
  <1>4. Owed = Len(inbox) + (Len(requests) - k) /\ Owed' = Len(inbox') + (Len(requests') - k)
    BY <1>1, <1>3, OwedIs, OwedIsNext
  <1> QED
    BY <1>1, <1>2, <1>3, <1>4, QueueWitness

\* The supplicant answers: nothing changes in what is owed.
LEMMA QueueTook ==
  ASSUME SocketOK, SocketOK', QueueInv, NEW a, Took(a)
  PROVE  /\ QueueInv' /\ Owed' = Owed
         /\ requests[1].live => DeadUpTo(0) /\ DeadUpTo(0)' /\ Len(inbox) < Owed
         /\ ~requests[1].live => Len(inbox) = 0
  <1>1. PICK k \in 0 .. Len(requests) : DeadUpTo(k)
    BY DEF QueueInv
  <1>2. /\ Len(requests) \in Nat /\ Len(requests) > 0 /\ Len(inbox) \in Nat
        /\ Len(requests') = Len(requests) - 1
        /\ \A i \in 1 .. Len(requests) - 1 : requests'[i] = requests[i + 1]
        /\ requests[1].live => Len(inbox') = Len(inbox) + 1
        /\ ~requests[1].live => inbox' = inbox
    BY TookIs
  <1>3. requests[1].live = (1 > k) /\ \A i \in 1 .. Len(requests) : requests[i].live = (i > k)
    BY <1>1, <1>2 DEF DeadUpTo
  <1>4. CASE k = 0
    <2>1. requests[1].live /\ Len(inbox') = Len(inbox) + 1
      <3>1. (1 > k) = TRUE
        BY <1>4
      <3> QED
        BY <1>2, <1>3, <3>1, Zenon
    <2>2. DeadUpTo(0)'
      <3>1. ASSUME NEW i \in 1 .. Len(requests')
            PROVE  requests'[i].live = (i > 0)
        <4>1. i \in 1 .. Len(requests) - 1 /\ i + 1 \in 1 .. Len(requests) /\ (i + 1 > k) = TRUE /\ (i > 0) = TRUE
          BY <1>2, <1>4
        <4> QED
          BY <1>2, <1>3, <4>1, Zenon
      <3>2. 0 \in 0 .. Len(requests') /\ ~(0 > 0)
        BY <1>2
      <3> QED
        BY <3>1, <3>2, Zenon DEF DeadUpTo
    <2>3. Owed = Len(inbox) + (Len(requests) - 0) /\ Owed' = Len(inbox') + (Len(requests') - 0)
      BY <1>1, <1>4, <2>2, OwedIs, OwedIsNext
    <2>4. Owed' = Owed /\ Len(inbox) < Owed
      BY <1>2, <2>1, <2>3
    <2> QED
      BY <1>1, <1>4, <2>1, <2>2, <2>4, QueueWitness
  <1>5. CASE k > 0
    <2>1. ~requests[1].live /\ inbox' = inbox
      <3>1. (1 > k) = FALSE
        BY <1>1, <1>5
      <3> QED
        BY <1>2, <1>3, <3>1, Zenon
    <2>0. Len(inbox) = 0
      BY <1>1, <1>5 DEF DeadUpTo
    <2>2. DeadUpTo(k - 1)'
      <3>1. ASSUME NEW i \in 1 .. Len(requests')
            PROVE  requests'[i].live = (i > k - 1)
        <4>1. i \in 1 .. Len(requests) - 1 /\ i + 1 \in 1 .. Len(requests) /\ (i + 1 > k) = (i > k - 1)
          BY <1>1, <1>2, <1>5
        <4> QED
          BY <1>2, <1>3, <4>1, Zenon
      <3>2. k - 1 \in 0 .. Len(requests')
        BY <1>1, <1>2, <1>5
      <3>3. Len(inbox') = 0
        BY <2>0, <2>1
      <3> QED
        BY <3>1, <3>2, <3>3, Zenon DEF DeadUpTo
    <2>3. Owed = Len(inbox) + (Len(requests) - k) /\ Owed' = Len(inbox') + (Len(requests') - (k - 1))
      BY <1>1, <2>2, OwedIs, OwedIsNext
    <2>4. Owed' = Owed
      BY <1>1, <1>2, <2>1, <2>3
    <2> QED
      BY <2>0, <2>1, <2>2, <2>4, QueueWitness
  <1> QED
    BY <1>1, <1>2, <1>4, <1>5

----------------------------------------------------------------------------
(* The socket follows WpaControl, and the client is never further behind   *)
(* than the requests it gave up.                                           *)

SocketInv == TypeOK /\ PhaseInv /\ QueueInv /\ LagBounded

ControlStep == Control!Next \/ UNCHANGED Control!vars

LEMMA SocketParts ==
  ASSUME SocketInv
  PROVE  /\ TypeOK /\ SocketOK /\ NetsOK /\ ClientOK /\ PhaseInv /\ QueueInv /\ LagBounded
         /\ Owed \in Nat /\ Len(inbox) \in Nat /\ Len(inbox) <= Owed /\ late \in Nat
  BY TypeParts, OwedNat DEF SocketInv, ClientOK

LEMMA SocketInit == Init => SocketInv /\ Control!Init
  <1> SUFFICES ASSUME Init PROVE SocketInv /\ Control!Init
    OBVIOUS
  <1>1. TypeOK /\ QueueInv /\ Owed = 0
    BY InitType, QueueInit
  <1>2. phase = "closed" /\ late = 0 /\ result = "none" /\ Len(inbox) = 0
    BY DEF Init
  <1>3. SocketInv
    BY <1>1, <1>2 DEF SocketInv, PhaseInv, LagBounded, Waiting
  <1>4. Control!Init
    BY <1>1, <1>2 DEF Control!Init
  <1> QED
    BY <1>3, <1>4

LEMMA SessionSocket ==
  ASSUME SocketInv, Open \/ Close
  PROVE  SocketInv' /\ ControlStep
  <1>0. TypeOK /\ SocketOK /\ QueueInv /\ TypeOK' /\ SocketOK'
    BY SocketParts, SessionType, TypeParts
  <1>1. /\ requests' = Dead(requests) /\ inbox' = << >> /\ late' = 0 /\ result' = "none"
    BY DEF Open, Close, FreshSocket, NoCallYet
  <1>2. QueueInv' /\ Owed' = 0 /\ Len(inbox') = 0
    BY <1>0, <1>1, QueueFresh
  <1>3. phase' \in {"idle", "closed"} /\ phase \in {"closed", "idle"}
    BY DEF Open, Close
  <1>4. SocketInv'
    BY <1>0, <1>1, <1>2, <1>3 DEF SocketInv, PhaseInv, LagBounded, Waiting
  <1>5. Control!FreshSocket
    BY <1>1, <1>2 DEF Control!FreshSocket
  <1>6. Control!Open \/ Control!OpenFails
    BY <1>3, <1>5 DEF Control!Open, Control!OpenFails, Control!MayOpen
  <1> QED
    BY <1>4, <1>6 DEF ControlStep, Control!Next

\* The phases between the steps that touch the socket.
LEMMA CallSocket ==
  ASSUME SocketInv, NEW c \in Call, CallClosed(c) \/ StartCall(c)
  PROVE  SocketInv' /\ ControlStep
  <1>0. TypeOK /\ SocketOK /\ QueueInv /\ LagBounded /\ PhaseInv /\ TypeOK'
    BY SocketParts, CallType
  <1>1. UNCHANGED << requests, inbox, late >>
    BY DEF CallClosed, StartCall, svars
  <1>2. QueueInv' /\ Owed' = Owed
    BY <1>0, <1>1, QueueSame
  <1>3. CASE CallClosed(c)
    <2>1. UNCHANGED << phase, result, at >>
      BY <1>3 DEF CallClosed
    <2>2. SocketInv'
      BY <1>0, <1>1, <1>2, <2>1 DEF SocketInv, PhaseInv, LagBounded, Waiting
    <2> QED
      BY <1>1, <1>2, <2>1, <2>2 DEF ControlStep, Control!vars
  <1>4. CASE StartCall(c)
    <2>1. phase = "idle" /\ phase' = "drain" /\ at' = 1 /\ result' = "none"
      BY <1>4 DEF StartCall
    <2>2. SocketInv'
      BY <1>0, <1>1, <1>2, <2>1 DEF SocketInv, PhaseInv, LagBounded, Waiting
    <2>3. Control!Request
      BY <1>1, <1>2, <2>1 DEF Control!Request
    <2> QED
      BY <2>2, <2>3 DEF ControlStep, Control!Next
  <1> QED
    BY <1>3, <1>4

LEMMA NextRequestSocket ==
  ASSUME SocketInv, NextRequest
  PROVE  SocketInv' /\ ControlStep
  <1>0. TypeOK /\ SocketOK /\ QueueInv /\ LagBounded /\ PhaseInv /\ TypeOK'
    BY SocketParts, NextRequestType
  <1>1. /\ UNCHANGED << requests, inbox, late, at >> /\ phase = "idle" /\ at # 0
        /\ phase' = "drain" /\ result' = "none"
    BY DEF NextRequest, svars
  <1>2. QueueInv' /\ Owed' = Owed
    BY <1>0, <1>1, QueueSame
  <1>3. SocketInv'
    BY <1>0, <1>1, <1>2 DEF SocketInv, PhaseInv, LagBounded, Waiting
  <1>4. Control!Request
    BY <1>1, <1>2 DEF Control!Request
  <1> QED
    BY <1>3, <1>4 DEF ControlStep, Control!Next

LEMMA DrainIs ==
  ASSUME SocketOK, Drain
  PROVE  /\ phase = "drain" /\ phase' = "send"
         /\ UNCHANGED << late, result, requests, nets, conn, call, at, id, ret, owned, unsent, seen >>
         /\ \/ Len(inbox) = 0 /\ inbox' = inbox
            \/ Len(inbox) > 0 /\ inbox' = Tail(inbox)
  BY DEF Drain, hvars, SocketOK

LEMMA DrainSocket ==
  ASSUME SocketInv, Drain
  PROVE  SocketInv' /\ ControlStep
  <1>0. TypeOK /\ SocketOK /\ QueueInv /\ LagBounded /\ PhaseInv /\ TypeOK' /\ SocketOK'
    BY SocketParts, DrainType, TypeParts
  <1>a. Owed \in Nat /\ Len(inbox) \in Nat /\ late \in Nat
    BY SocketParts
  <1>1. UNCHANGED << late, result, requests, at >> /\ phase = "drain" /\ phase' = "send" /\ at # 0
    BY <1>0, DrainIs DEF PhaseInv
  <1>2. CASE Len(inbox) = 0 /\ inbox' = inbox
    <2>1. QueueInv' /\ Owed' = Owed
      BY <1>0, <1>1, <1>2, QueueSame
    <2>2. SocketInv'
      BY <1>0, <1>1, <2>1 DEF SocketInv, PhaseInv, LagBounded, Waiting
    <2>3. Control!Drain
      BY <1>1, <1>2, <2>1 DEF Control!Drain
    <2> QED
      BY <2>2, <2>3 DEF ControlStep, Control!Next
  <1>3. CASE Len(inbox) > 0 /\ inbox' = Tail(inbox)
    <2>1. QueueInv' /\ Owed' = Owed - 1 /\ Len(inbox') = Len(inbox) - 1
      BY <1>0, <1>1, <1>3, QueueRead
    <2>2. LagBounded'
      BY <1>0, <1>1, <1>a, <2>1 DEF LagBounded, Waiting
    <2>3. SocketInv'
      BY <1>0, <1>1, <2>1, <2>2 DEF SocketInv, PhaseInv
    <2>4. Control!Drain
      BY <1>1, <1>3, <2>1 DEF Control!Drain
    <2> QED
      BY <2>3, <2>4 DEF ControlStep, Control!Next
  <1> QED
    BY <1>0, <1>2, <1>3, DrainIs

LEMMA SendSocket ==
  ASSUME SocketInv, Send
  PROVE  SocketInv' /\ ControlStep
  <1>1. /\ UNCHANGED << late, result, inbox, at >> /\ phase = "send" /\ phase' = "wait"
        /\ requests' = Append(requests, Own)
    BY SendIs
  <1>2. at # 0
    BY <1>1, SocketParts DEF PhaseInv
  <1>0. TypeOK /\ SocketOK /\ ClientOK /\ QueueInv /\ LagBounded /\ PhaseInv /\ TypeOK' /\ SocketOK'
    BY <1>2, SocketParts, SendType, TypeParts
  <1>a. Owed \in Nat /\ late \in Nat
    BY SocketParts
  <1>3. QueueInv' /\ Owed' = Owed + 1
    BY <1>0, <1>1, <1>2, OwnIs, QueueSend
  <1>4. LagBounded'
    BY <1>0, <1>1, <1>3, <1>a DEF LagBounded, Waiting
  <1>5. SocketInv'
    BY <1>0, <1>1, <1>2, <1>3, <1>4 DEF SocketInv, PhaseInv
  <1>6. Control!Send
    BY <1>1, <1>3 DEF Control!Send
  <1> QED
    BY <1>5, <1>6 DEF ControlStep, Control!Next

LEMMA SendFailsSocket ==
  ASSUME SocketInv, SendFails
  PROVE  SocketInv' /\ ControlStep
  <1>1. /\ UNCHANGED << late, requests, inbox >> /\ phase = "send" /\ phase' = "idle"
        /\ result' = "fail"
    BY SendFailsIs
  <1>2. at # 0
    BY <1>1, SocketParts DEF PhaseInv
  <1>0. TypeOK /\ SocketOK /\ QueueInv /\ LagBounded /\ PhaseInv /\ TypeOK'
    BY <1>2, SocketParts, SendFailsType
  <1>3. QueueInv' /\ Owed' = Owed
    BY <1>0, <1>1, QueueSame
  <1>4. SocketInv'
    BY <1>0, <1>1, <1>3 DEF SocketInv, PhaseInv, LagBounded, Waiting
  <1>5. Control!SendFails
    BY <1>1, <1>3 DEF Control!SendFails, Control!GiveUp
  <1> QED
    BY <1>4, <1>5 DEF ControlStep, Control!Next

LEMMA ReceiveSocket ==
  ASSUME SocketInv, Receive
  PROVE  SocketInv' /\ ControlStep
  <1>0. TypeOK /\ SocketOK /\ ClientOK /\ QueueInv /\ LagBounded /\ PhaseInv
    BY SocketParts
  <1>1. /\ UNCHANGED << late, requests >> /\ phase = "wait" /\ phase' = "idle"
        /\ result' = IF Owed = 1 THEN "own" ELSE "other"
        /\ Len(inbox) > 0 /\ inbox' = Tail(inbox)
    BY <1>0, ReceiveIs
  <1>2. at # 0
    BY <1>0, <1>1 DEF PhaseInv
  <1>3. TypeOK' /\ SocketOK'
    BY <1>0, <1>2, ReceiveType, TypeParts
  <1>a. Owed \in Nat /\ late \in Nat
    BY SocketParts
  <1>4. QueueInv' /\ Owed' = Owed - 1 /\ Len(inbox') = Len(inbox) - 1
    BY <1>0, <1>1, <1>3, QueueRead
  <1>5. LagBounded'
    BY <1>0, <1>1, <1>4, <1>a DEF LagBounded, Waiting
  <1>6. SocketInv'
    BY <1>1, <1>3, <1>4, <1>5 DEF SocketInv, PhaseInv
  <1>7. Control!Receive
    BY <1>1, <1>4 DEF Control!Receive
  <1> QED
    BY <1>6, <1>7 DEF ControlStep, Control!Next

LEMMA TimeoutSocket ==
  ASSUME SocketInv, Timeout
  PROVE  SocketInv' /\ ControlStep
  <1>0. TypeOK /\ SocketOK /\ ClientOK /\ QueueInv /\ LagBounded /\ PhaseInv
    BY SocketParts
  <1>1. /\ UNCHANGED << requests, inbox >> /\ phase = "wait" /\ phase' = "idle"
        /\ result' = "fail" /\ late' = late + 1 /\ late < MaxLate /\ Len(inbox) = 0
    BY <1>0, TimeoutIs
  <1>2. at # 0
    BY <1>0, <1>1 DEF PhaseInv
  <1>3. TypeOK'
    BY <1>0, <1>2, TimeoutType
  <1>a. Owed \in Nat /\ late \in Nat
    BY SocketParts
  <1>4. QueueInv' /\ Owed' = Owed
    BY <1>0, <1>1, QueueSame
  <1>5. LagBounded'
    BY <1>0, <1>1, <1>4, <1>a DEF LagBounded, Waiting
  <1>6. SocketInv'
    BY <1>1, <1>3, <1>4, <1>5 DEF SocketInv, PhaseInv
  <1>7. Control!Timeout
    BY <1>1, <1>4 DEF Control!Timeout, Control!GiveUp
  <1> QED
    BY <1>6, <1>7 DEF ControlStep, Control!Next

LEMMA TookSocket ==
  ASSUME SocketInv, TypeOK', NEW a, Took(a)
  PROVE  SocketInv' /\ ControlStep
  <1>0. TypeOK /\ SocketOK /\ ClientOK /\ QueueInv /\ LagBounded /\ PhaseInv /\ SocketOK'
    BY SocketParts, TypeParts
  <1>1. UNCHANGED << phase, late, result, at >>
    BY DEF Took
  <1>2. /\ QueueInv' /\ Owed' = Owed
        /\ requests[1].live => Len(inbox) < Owed
    BY <1>0, QueueTook
  <1>3. SocketInv'
    BY <1>0, <1>1, <1>2 DEF SocketInv, PhaseInv, LagBounded, Waiting
  <1>4. CASE requests[1].live
    <2>1. Len(inbox') = Len(inbox) + 1 /\ Len(inbox) < Owed
      BY <1>0, <1>2, <1>4, TookIs
    <2>2. Control!Serve
      BY <1>1, <1>2, <2>1 DEF Control!Serve
    <2> QED
      BY <1>3, <2>2 DEF ControlStep, Control!Next
  <1>5. CASE ~requests[1].live
    <2>1. inbox' = inbox
      BY <1>0, <1>5, TookIs
    <2> QED
      BY <1>1, <1>2, <1>3, <2>1 DEF ControlStep, Control!vars
  <1> QED
    BY <1>4, <1>5

LEMMA ServeSocket ==
  ASSUME SocketInv, ServeAdd \/ ServeSet \/ ServeSwitch \/ ServeQuery \/ Roam
  PROVE  SocketInv' /\ ControlStep
  <1>0. TypeOK /\ SocketOK /\ NetsOK /\ QueueInv /\ LagBounded /\ PhaseInv /\ TypeOK'
    BY SocketParts, ServeType
  <1>1. CASE ServeAdd \/ ServeSet \/ ServeSwitch \/ ServeQuery
    <2>1. \E a : Took(a)
      BY <1>0, <1>1, ServeAddIs, ServeSetIs, ServeSwitchIs, ServeQueryIs, Zenon
    <2> QED
      BY <1>0, <2>1, TookSocket
  <1>2. CASE Roam
    <2>1. UNCHANGED << phase, late, result, at, requests, inbox >>
      BY <1>2, RoamIs
    <2>2. QueueInv' /\ Owed' = Owed
      BY <1>0, <2>1, QueueSame
    <2>3. SocketInv'
      BY <1>0, <2>1, <2>2 DEF SocketInv, PhaseInv, LagBounded, Waiting
    <2> QED
      BY <2>1, <2>2, <2>3 DEF ControlStep, Control!vars
  <1> QED
    BY <1>1, <1>2

LEMMA StutterSocket ==
  ASSUME SocketInv, UNCHANGED vars
  PROVE  SocketInv' /\ ControlStep
  <1>0. TypeOK /\ SocketOK /\ NetsOK /\ ClientOK /\ QueueInv /\ LagBounded /\ PhaseInv
    BY SocketParts
  <1>1. UNCHANGED << phase, late, result, requests, inbox, nets, conn, call, at, id, ret, owned, unsent, seen >>
    BY DEF vars, svars, hvars
  <1>2. QueueInv' /\ Owed' = Owed
    BY <1>0, <1>1, QueueSame
  <1>3. SocketOK' /\ NetsOK'
    BY <1>0, <1>1 DEF SocketOK, NetsOK
  <1>4. ClientOK'
    BY <1>0, <1>1 DEF ClientOK
  <1>5. SocketInv'
    BY <1>0, <1>1, <1>2, <1>3, <1>4, TypeParts DEF SocketInv, PhaseInv, LagBounded, Waiting
  <1> QED
    BY <1>1, <1>2, <1>5 DEF ControlStep, Control!vars

LEMMA SocketStep ==
  ASSUME SocketInv, [Next]_vars
  PROVE  SocketInv' /\ ControlStep
  BY SessionSocket, CallSocket, NextRequestSocket, DrainSocket, SendSocket, SendFailsSocket,
     ReceiveSocket, TimeoutSocket, ServeSocket, StutterSocket DEF Next

\* The state of the client, of its socket and of the supplicant is well typed,
\* and the network that is connected exists and is switched on (204-809).
THEOREM TypeCorrect == Spec => []TypeOK
  <1>1. SocketInv => TypeOK
    BY DEF SocketInv
  <1> QED
    BY <1>1, SocketInit, SocketStep, PTL DEF Spec

\* Every operation is a sequence of requests as WpaControl describes them: a
\* session, its closing and everything an operation does between its requests
\* is a step of the protocol or none (331-363).
THEOREM OperationsImplementControl == Spec => ImplementsControl
  <1>1. SocketInv /\ [Next]_vars => [Control!Next]_Control!vars
    BY SocketStep DEF ControlStep
  <1>2. Init => Control!Init
    BY SocketInit
  <1> QED
    BY <1>1, <1>2, SocketInit, SocketStep, PTL DEF Spec, ImplementsControl

----------------------------------------------------------------------------
(* station_remove_all.                                                     *)

LEMMA RemovedTook ==
  ASSUME SocketOK, NEW a, Took(a), NEW n, Removed(n),
         requests[1].cmd # "ADD_NETWORK" => (n \in DOMAIN nets' => n \in DOMAIN nets),
         Removal(requests[1], n) => n \notin DOMAIN nets'
  PROVE  Removed(n)'
  <1>1. /\ Len(requests) \in Nat /\ Len(requests) > 0 /\ Len(requests') = Len(requests) - 1
        /\ \A i \in 1 .. Len(requests) - 1 : requests'[i] = requests[i + 1]
    BY TookIs
  <1>2. ASSUME NEW p \in 1 .. Len(requests), NoAddBehind(p)
        PROVE  NoAddBehind(p - 1)'
    <2>1. \A q \in 1 .. Len(requests') : q > p - 1 =>
            q + 1 \in 1 .. Len(requests) /\ q + 1 > p /\ requests'[q] = requests[q + 1]
      BY <1>1
    <2> QED
      BY <1>2, <2>1, Zenon DEF NoAddBehind
  <1>3. CASE n \notin DOMAIN nets /\ NoAddBehind(0)
    <2>1. 1 \in 1 .. Len(requests) /\ 1 > 0
      BY <1>1
    <2>2. requests[1].cmd # "ADD_NETWORK"
      BY <1>3, <2>1, Zenon DEF NoAddBehind
    <2>3. \A q \in 1 .. Len(requests') : q > 0 =>
            q + 1 \in 1 .. Len(requests) /\ q + 1 > 0 /\ requests'[q] = requests[q + 1]
      BY <1>1
    <2>4. NoAddBehind(0)'
      BY <1>3, <2>3, Zenon DEF NoAddBehind
    <2>5. n \notin DOMAIN nets'
      BY <1>3, <2>2, Zenon
    <2> QED
      BY <2>4, <2>5, Zenon DEF Removed
  <1>4. ASSUME NEW p \in 1 .. Len(requests), Removal(requests[p], n), NoAddBehind(p)
        PROVE  Removed(n)'
    <2>1. NoAddBehind(p - 1)'
      BY <1>2, <1>4
    <2>2. CASE p = 1
      <3>1. p - 1 = 0
        BY <2>2
      <3>2. NoAddBehind(0)'
        BY <2>1, <3>1
      <3> QED
        BY <1>4, <2>2, <3>2, Zenon DEF Removed
    <2>3. CASE p > 1
      <3>1. PICK q : q = p - 1
        OBVIOUS
      <3>2. q \in 1 .. Len(requests') /\ requests'[q] = requests[p]
        BY <1>1, <2>3, <3>1
      <3>3. Removal(requests[q], n)'
        BY <1>4, <3>2, Zenon DEF Removal
      <3>4. NoAddBehind(q)'
        BY <2>1, <3>1
      <3> QED
        BY <3>2, <3>3, <3>4, Zenon DEF Removed
    <2>4. p = 1 \/ p > 1
      OBVIOUS
    <2> QED
      BY <2>2, <2>3, <2>4
  <1> QED
    BY <1>3, <1>4, Zenon DEF Removed

LEMMA ServeClient ==
  ASSUME SocketOK, NetsOK, ServeAdd \/ ServeSet \/ ServeSwitch \/ ServeQuery \/ Roam
  PROVE  UNCHANGED << phase, late, result, call, at, id, ret, owned, unsent >>
  <1>1. CASE ServeAdd \/ ServeSet \/ ServeSwitch \/ ServeQuery
    <2>1. \E a : Took(a)
      BY <1>1, ServeAddIs, ServeSetIs, ServeSwitchIs, ServeQueryIs, Zenon
    <2> QED
      BY <2>1 DEF Took
  <1>2. CASE Roam
    BY <1>2, RoamIs
  <1> QED
    BY <1>1, <1>2

LEMMA ServeRemoved ==
  ASSUME SocketInv, NEW n, Removed(n), ServeAdd \/ ServeSet \/ ServeSwitch \/ ServeQuery \/ Roam
  PROVE  Removed(n)'
  <1>0. SocketOK /\ NetsOK
    BY SocketParts
  <1>1. CASE ServeAdd
    <2>1. requests[1].cmd = "ADD_NETWORK" /\ \E a : Took(a)
      BY <1>0, <1>1, ServeAddIs, Zenon
    <2>2. ~Removal(requests[1], n)
      BY <2>1 DEF Removal
    <2> QED
      BY <1>0, <2>1, <2>2, RemovedTook
  <1>2. CASE ServeSet
    <2>1. requests[1].cmd = "SET_NETWORK" /\ DOMAIN nets' = DOMAIN nets
      BY <1>0, <1>2, ServeSetIs
    <2>2. ~Removal(requests[1], n)
      BY <2>1 DEF Removal
    <2>3. PICK a : Took(a)
      BY <1>0, <1>2, ServeSetIs, Zenon
    <2> QED
      BY <1>0, <2>1, <2>2, <2>3, RemovedTook, Zenon
  <1>3. CASE ServeSwitch
    <2>1. PICK a : Took(a)
      BY <1>0, <1>3, ServeSwitchIs, Zenon
    <2>2. requests[1] \in Request
      BY <1>0, <2>1, TookIs
    <2>3. CASE requests[1].id \in DOMAIN nets /\ nets' = Switched(requests[1])
      <3>1. DOMAIN nets' = IF requests[1].cmd = "REMOVE_NETWORK" THEN DOMAIN nets \ {requests[1].id} ELSE DOMAIN nets
        <4>1. requests[1].cmd \in {"ENABLE_NETWORK", "SELECT_NETWORK", "DISABLE_NETWORK", "REMOVE_NETWORK"}
          BY <1>0, <1>3, ServeSwitchIs
        <4> QED
          BY <1>0, <2>2, <2>3, <4>1, SwitchedIs
      <3>2. n \in DOMAIN nets' => n \in DOMAIN nets
        BY <3>1
      <3>3. Removal(requests[1], n) => n \notin DOMAIN nets'
        BY <3>1 DEF Removal
      <3> QED
        BY <1>0, <2>1, <3>2, <3>3, RemovedTook
    <2>4. CASE requests[1].id \notin DOMAIN nets /\ nets' = nets
      <3>1. Removal(requests[1], n) => n \notin DOMAIN nets'
        BY <2>4, Zenon DEF Removal
      <3> QED
        BY <1>0, <2>1, <2>4, <3>1, RemovedTook
    <2> QED
      BY <1>0, <1>3, <2>3, <2>4, ServeSwitchIs
  <1>4. CASE ServeQuery
    <2>1. requests[1].cmd # "REMOVE_NETWORK" /\ nets' = nets
      BY <1>0, <1>4, ServeQueryIs
    <2>2. PICK a : Took(a)
      BY <1>0, <1>4, ServeQueryIs, Zenon
    <2>3. ~Removal(requests[1], n)
      BY <2>1 DEF Removal
    <2> QED
      BY <1>0, <2>1, <2>2, <2>3, RemovedTook
  <1>5. CASE Roam
    <2>1. UNCHANGED << requests, nets >>
      BY <1>5, RoamIs
    <2> QED
      BY <2>1 DEF Removed, Removal, NoAddBehind
  <1> QED
    BY <1>1, <1>2, <1>3, <1>4, <1>5

\* The request for the id in turn is the last one.
LEMMA SendRemoved ==
  ASSUME SocketInv, Send, call.op = "remove_all"
  PROVE  \A n : n = at - 1 \/ Removed(n) => Removed(n)'
  <1>0. SocketOK /\ ClientOK /\ at # 0
    BY SocketParts, SendIs DEF PhaseInv
  <1>1. Own \in Request /\ Own.cmd = "REMOVE_NETWORK" /\ Own.id = at - 1
    <2>1. Own \in Request /\ Own.cmd = Steps(call)[at].cmd /\ Own.id = CmdId
      BY <1>0, OwnIs
    <2>2. Steps(call) = RemoveAllSteps
      BY <1>0, StepsAre DEF ClientOK
    <2>3. at \in 1 .. IdRange
      BY <1>0, <2>2, StepHere, FewSteps
    <2> QED
      BY <2>1, <2>2, <2>3, FewSteps DEF CmdId
  <1>2. requests' = Append(requests, Own) /\ nets' = nets /\ at' = at
    BY SendIs
  <1>3. /\ Len(requests) \in Nat /\ Len(requests') = Len(requests) + 1
        /\ requests'[Len(requests) + 1] = Own
        /\ \A i \in 1 .. Len(requests) : requests'[i] = requests[i]
    BY <1>0, <1>1, <1>2, AppendIs DEF SocketOK
  <1>4. \A q \in 1 .. Len(requests') : q \in 1 .. Len(requests) \/ requests'[q].cmd = "REMOVE_NETWORK"
    <2> TAKE q \in 1 .. Len(requests')
    <2>1. q \in 1 .. Len(requests) \/ q = Len(requests) + 1
      BY <1>3
    <2> QED
      BY <1>1, <1>3, <2>1, Zenon
  <1>5. ASSUME NEW p, NoAddBehind(p)
        PROVE  NoAddBehind(p)'
    <2> SUFFICES ASSUME NEW q \in 1 .. Len(requests'), q > p
                 PROVE  requests'[q].cmd # "ADD_NETWORK"
      BY Zenon DEF NoAddBehind
    <2>1. CASE q \in 1 .. Len(requests)
      BY <1>3, <1>5, <2>1, Zenon DEF NoAddBehind
    <2>2. CASE requests'[q].cmd = "REMOVE_NETWORK"
      BY <2>2
    <2> QED
      BY <1>4, <2>1, <2>2
  <1>6. ASSUME NEW n, Removed(n)
        PROVE  Removed(n)'
    <2>1. CASE n \notin DOMAIN nets /\ NoAddBehind(0)
      <3>1. NoAddBehind(0)'
        BY <1>5, <2>1
      <3> QED
        BY <1>2, <2>1, <3>1, Zenon DEF Removed
    <2>2. ASSUME NEW p \in 1 .. Len(requests), Removal(requests[p], n), NoAddBehind(p)
          PROVE  Removed(n)'
      <3>1. p \in 1 .. Len(requests') /\ requests'[p] = requests[p]
        BY <1>3
      <3>2. NoAddBehind(p)'
        BY <1>5, <2>2
      <3> QED
        BY <2>2, <3>1, <3>2, Zenon DEF Removed, Removal
    <2> QED
      BY <1>6, <2>1, <2>2, Zenon DEF Removed
  <1>7. ASSUME NEW n, n = at - 1
        PROVE  Removed(n)'
    <2>1. PICK p : p = Len(requests) + 1
      OBVIOUS
    <2>2. p \in 1 .. Len(requests') /\ requests'[p] = Own /\ \A q \in 1 .. Len(requests') : ~(q > p)
      BY <1>3, <2>1
    <2>3. NoAddBehind(p)'
      BY <2>2, Zenon DEF NoAddBehind
    <2>4. Removal(requests[p], n)'
      BY <1>1, <1>7, <2>2, Zenon DEF Removal
    <2> QED
      BY <2>2, <2>3, <2>4, Zenon DEF Removed
  <1> QED
    BY <1>6, <1>7

\* The steps of an operation between its requests.
LEMMA RemoveGoesOn ==
  ASSUME SocketInv, RemoveInv, UNCHANGED << requests, nets, call, at, unsent >>,
         phase # "wait", phase' # "wait"
  PROVE  RemoveInv'
  <1>1. Asked' = Asked
    BY DEF Asked
  <1> QED
    BY <1>1 DEF RemoveInv, Removed, Removal, NoAddBehind

\* When a request of remove_all has ended, it has asked for the ids up to it.
LEMMA AskedNext ==
  ASSUME ClientOK, at # 0, call.op = "remove_all", call' = call, phase' = "idle",
         \E good \in BOOLEAN : Proceed(good)
  PROVE  /\ Asked' = 0 .. at - 1 /\ at \in 1 .. IdRange /\ IdRange \in Nat
  <1>1. Steps(call) = RemoveAllSteps
    BY StepsAre DEF ClientOK
  <1>2. Len(Steps(call)) = IdRange /\ at \in 1 .. IdRange /\ IdRange \in Nat
    BY <1>1, StepHere, FewSteps, StationAssumption DEF StationAssumption
  <1>3. CASE at < IdRange
    <2>1. at' = at + 1
      BY <1>2, <1>3 DEF Proceed
    <2>2. Asked' = 0 .. (at + 1) - 2
      BY <1>2, <2>1 DEF Asked
    <2> QED
      BY <1>2, <2>2
  <1>4. CASE at = IdRange
    <2>1. at' = 0
      BY <1>2, <1>4 DEF Proceed
    <2>2. Asked' = Id8
      BY <2>1 DEF Asked
    <2> QED
      BY <1>2, <1>4, <2>2 DEF Id8
  <1> QED
    BY <1>2, <1>3, <1>4

\* The networks stay as they are when a step of the client asks for no more.
LEMMA AskedLess ==
  ASSUME RemoveInv, UNCHANGED << requests, nets, call >>,
         call.op = "remove_all" => Asked' \ unsent' \subseteq Asked \ unsent
  PROVE  RemoveInv'
  BY DEF RemoveInv, Removed, Removal, NoAddBehind

\* A request that was sent has ended.
LEMMA RemoveEnds ==
  ASSUME SocketInv, RemoveInv, at # 0, \E good \in BOOLEAN : Proceed(good),
         UNCHANGED << requests, nets, call, unsent >>,
         phase = "wait", phase' = "idle"
  PROVE  RemoveInv'
  <1>1. ASSUME call.op = "remove_all"
        PROVE  Asked' \ unsent' \subseteq Asked \ unsent
    <2>1. Asked' = 0 .. at - 1
      BY <1>1, SocketParts, AskedNext
    <2>2. Asked = 0 .. at - 1
      BY DEF Asked
    <2> QED
      BY <2>1, <2>2
  <1> QED
    BY <1>1, AskedLess

\* A request that could not be sent is told in unsent.
LEMMA RemoveUnsent ==
  ASSUME SocketInv, RemoveInv, SendFails, at # 0
  PROVE  RemoveInv'
  <1>1. /\ UNCHANGED << requests, nets, call >> /\ phase = "send" /\ phase' = "idle"
        /\ unsent' = IF call.op = "remove_all" THEN unsent \cup {CmdId} ELSE {}
        /\ Proceed(FALSE)
    BY SendFailsIs
  <1>2. ASSUME call.op = "remove_all"
        PROVE  Asked' \ unsent' \subseteq Asked \ unsent
    <2>1. \E good \in BOOLEAN : Proceed(good)
      BY <1>1, Zenon
    <2>2. Asked' = 0 .. at - 1 /\ at \in 1 .. IdRange /\ IdRange \in Nat
      BY <1>1, <1>2, <2>1, SocketParts, AskedNext
    <2>3. Asked = 0 .. at - 2
      BY <1>1 DEF Asked
    <2>4. unsent' = unsent \cup {at - 1}
      BY <1>1, <1>2 DEF CmdId
    <2> QED
      BY <2>2, <2>3, <2>4
  <1> QED
    BY <1>1, <1>2, AskedLess

LEMMA RemoveStep ==
  ASSUME SocketInv, RemoveInv, [Next]_vars
  PROVE  RemoveInv'
  <1>0. SocketOK /\ NetsOK /\ ClientOK /\ PhaseInv /\ QueueInv
    BY SocketParts
  <1>1. CASE Open \/ Close
    <2>1. call' = [op |-> "ping"]
      BY <1>1 DEF Open, Close, FreshSocket, NoCallYet
    <2>2. call'.op # "remove_all"
      BY <2>1
    <2> QED
      BY <2>2, Zenon DEF RemoveInv
  <1>2. ASSUME NEW c \in Call, CallClosed(c)
        PROVE  RemoveInv'
    <2>1. phase = "closed" /\ call' = c /\ at' = at /\ unsent' = IF c.op = "remove_all" THEN Id8 ELSE {}
      BY <1>2 DEF CallClosed
    <2>2. at' = 0
      BY <1>0, <2>1 DEF ClientOK
    <2>3. Asked' = Id8
      BY <2>2 DEF Asked
    <2> QED
      BY <2>1, <2>3 DEF RemoveInv
  <1>3. ASSUME NEW c \in Call, StartCall(c)
        PROVE  RemoveInv'
    <2>1. phase' = "drain" /\ at' = 1
      BY <1>3 DEF StartCall
    <2>2. Asked' = 0 .. -1
      BY <2>1 DEF Asked
    <2>3. Asked' = {}
      BY <2>2
    <2> QED
      BY <2>3, Zenon DEF RemoveInv
  <1>4. CASE NextRequest
    <2>1. UNCHANGED << requests, nets, call, at, unsent >> /\ phase # "wait" /\ phase' # "wait"
      BY <1>4 DEF NextRequest, svars, hvars
    <2> QED
      BY <2>1, RemoveGoesOn
  <1>5. CASE Drain
    <2>1. UNCHANGED << requests, nets, call, at, unsent >> /\ phase # "wait" /\ phase' # "wait"
      BY <1>0, <1>5, DrainIs
    <2> QED
      BY <2>1, RemoveGoesOn
  <1>6. CASE Send
    <2> SUFFICES ASSUME call'.op = "remove_all", NEW n \in Asked' \ unsent'
                 PROVE  Removed(n)'
      BY Zenon DEF RemoveInv
    <2>1. UNCHANGED << call, at, unsent >> /\ phase = "send" /\ phase' = "wait"
      BY <1>6, SendIs
    <2>2. at # 0 /\ at \in Nat
      BY <1>0, <2>1, StepHere DEF PhaseInv
    <2>3. Asked = 0 .. at - 2 /\ Asked' = 0 .. at - 1
      BY <2>1, <2>2 DEF Asked
    <2>4. n = at - 1 \/ n \in Asked
      BY <2>2, <2>3
    <2>5. call.op = "remove_all" /\ n \notin unsent
      BY <2>1
    <2>6. n \in Asked => Removed(n)
      BY <2>5, Zenon DEF RemoveInv
    <2> QED
      BY <1>6, <2>4, <2>5, <2>6, SendRemoved
  <1>7. CASE SendFails
    <2>1. at # 0
      BY <1>0, <1>7, SendFailsIs DEF PhaseInv
    <2> QED
      BY <1>7, <2>1, RemoveUnsent
  <1>8. CASE Receive
    <2>1. /\ UNCHANGED << requests, nets, call, unsent >> /\ phase = "wait" /\ phase' = "idle"
          /\ id' \in Id8 /\ Proceed(Wanted(inbox[1]))
      BY <1>0, <1>8, ReceiveIs
    <2>2. at # 0
      BY <1>0, <2>1 DEF PhaseInv
    <2>3. \E good \in BOOLEAN : Proceed(good)
      BY <2>1, WantedType, Zenon
    <2> QED
      BY <2>1, <2>2, <2>3, RemoveEnds
  <1>9. CASE Timeout
    <2>1. /\ UNCHANGED << requests, nets, call, unsent, id >> /\ phase = "wait" /\ phase' = "idle"
          /\ Proceed(FALSE)
      BY <1>0, <1>9, TimeoutIs
    <2>2. at # 0 /\ id' \in Id8
      BY <1>0, <2>1 DEF PhaseInv, ClientOK
    <2>3. \E good \in BOOLEAN : Proceed(good)
      BY <2>1, Zenon
    <2> QED
      BY <2>1, <2>2, <2>3, RemoveEnds
  <1>10. CASE ServeAdd \/ ServeSet \/ ServeSwitch \/ ServeQuery \/ Roam
    <2>1. UNCHANGED << phase, call, at, unsent >>
      BY <1>0, <1>10, ServeClient
    <2>2. Asked' = Asked
      BY <2>1 DEF Asked
    <2> QED
      BY <1>10, <2>1, <2>2, ServeRemoved DEF RemoveInv
  <1>11. CASE UNCHANGED vars
    BY <1>11 DEF vars, svars, hvars, RemoveInv, Asked, Removed, Removal, NoAddBehind
  <1> QED
    BY <1>1, <1>2, <1>3, <1>4, <1>5, <1>6, <1>7, <1>8, <1>9, <1>10, <1>11 DEF Next

\* When station_remove_all returns, each network it has an id for is gone or
\* its removal is on the way, or its own request could not be sent (535-540).
THEOREM AllRemoved == Spec => []RemovesAll
  <1>1. Init => RemoveInv
    BY DEF Init, RemoveInv
  <1>2. SocketInv /\ RemoveInv => RemovesAll
    <2> SUFFICES ASSUME SocketInv, RemoveInv, call.op = "remove_all", at = 0,
                        NEW n \in (DOMAIN nets \cap Id8) \ unsent
                 PROVE  \E i \in DOMAIN requests : requests[i].cmd = "REMOVE_NETWORK" /\ requests[i].id = n
      BY DEF RemovesAll
    <2>1. Removed(n)
      BY DEF RemoveInv, Asked
    <2>2. PICK p \in 1 .. Len(requests) : Removal(requests[p], n)
      BY <2>1, Zenon DEF Removed
    <2>3. p \in DOMAIN requests
      BY SocketParts DEF SocketOK
    <2> QED
      BY <2>2, <2>3, Zenon DEF Removal
  <1> QED
    BY <1>1, <1>2, RemoveStep, SocketInit, SocketStep, PTL DEF Spec

----------------------------------------------------------------------------
(* station_add.                                                            *)

\* An answer that follows a change of a network is an OK, one that names a
\* network names a fresh one.
LEMMA FreshTook ==
  ASSUME SocketOK, SocketOK', QueueInv, FreshInv, NEW a, Took(a),
         a.kind # "OK" => \A n : Fresh(n) => Fresh(n)',
         a.kind = "id" => Fresh(a.id)'
  PROVE  FreshInv'
  <1>1. /\ Len(inbox) \in Nat
        /\ \A i \in 1 .. Len(inbox) : inbox'[i] = inbox[i]
        /\ requests[1].live => Len(inbox') = Len(inbox) + 1 /\ inbox'[Len(inbox) + 1] = a
        /\ ~requests[1].live => inbox' = inbox /\ Len(inbox) = 0
    BY TookIs, QueueTook, Zenon
  <1> SUFFICES ASSUME NEW i \in 1 .. Len(inbox'), inbox'[i].kind = "id",
                      \A j \in 1 .. Len(inbox') : j > i => inbox'[j].kind # "OK"
               PROVE  Fresh(inbox[i].id)'
    BY Zenon DEF FreshInv
  <1>2. requests[1].live
    <2>1. ~requests[1].live => i \in 1 .. 0
      BY <1>1
    <2> QED
      BY <2>1
  <1>3. Len(inbox) + 1 \in 1 .. Len(inbox')
    BY <1>1, <1>2
  <1>4. CASE i = Len(inbox) + 1
    BY <1>1, <1>2, <1>4, Zenon
  <1>5. CASE i \in 1 .. Len(inbox)
    <2>1. Len(inbox) + 1 > i
      BY <1>1, <1>5
    <2>2. a.kind # "OK"
      BY <1>1, <1>2, <1>3, <2>1, Zenon
    <2>3. \A j \in 1 .. Len(inbox) : j \in 1 .. Len(inbox')
      BY <1>1, <1>2
    <2>4. Fresh(inbox[i].id)
      BY <1>1, <1>5, <2>3, Zenon DEF FreshInv
    <2>5. inbox'[i].id = inbox[i].id
      BY <1>1, <1>5, Zenon
    <2>6. PICK n : n = inbox[i].id
      OBVIOUS
    <2>7. Fresh(n)'
      BY <2>2, <2>4, <2>6
    <2> QED
      BY <2>5, <2>6, <2>7
  <1> QED
    BY <1>1, <1>2, <1>4, <1>5

LEMMA FreshSame ==
  ASSUME nets' = nets
  PROVE  \A n : Fresh(n) => Fresh(n)'
  BY DEF Fresh

LEMMA FreshKept ==
  ASSUME SocketOK, FreshInv, nets' = nets,
         inbox' = inbox \/ (Len(inbox) > 0 /\ inbox' = Tail(inbox)) \/ inbox' = << >>
  PROVE  FreshInv'
  <1>1. CASE inbox' = inbox
    BY <1>1 DEF FreshInv, Fresh
  <1>2. CASE Len(inbox) > 0 /\ inbox' = Tail(inbox)
    <2>1. /\ Len(inbox) \in Nat /\ Len(inbox') = Len(inbox) - 1
          /\ \A i \in 1 .. Len(inbox) - 1 : inbox'[i] = inbox[i + 1]
      BY <1>2, TailIs DEF SocketOK
    <2> SUFFICES ASSUME NEW i \in 1 .. Len(inbox'), inbox'[i].kind = "id",
                        \A j \in 1 .. Len(inbox') : j > i => inbox'[j].kind # "OK"
                 PROVE  Fresh(inbox[i].id)'
      BY Zenon DEF FreshInv
    <2>2. i + 1 \in 1 .. Len(inbox) /\ inbox'[i] = inbox[i + 1]
      BY <2>1
    <2>3. ASSUME NEW j \in 1 .. Len(inbox), j > i + 1
          PROVE  inbox[j].kind # "OK"
      <3>1. j - 1 \in 1 .. Len(inbox') /\ j - 1 > i /\ inbox'[j - 1] = inbox[j]
        BY <2>1, <2>3
      <3> QED
        BY <3>1, Zenon
    <2>4. Fresh(inbox[i + 1].id)
      BY <2>2, <2>3, Zenon DEF FreshInv
    <2> QED
      BY <2>2, <2>4 DEF Fresh
  <1>3. CASE inbox' = << >>
    BY <1>3 DEF FreshInv
  <1> QED
    BY <1>1, <1>2, <1>3

LEMMA FreshStep ==
  ASSUME SocketInv, SocketInv', FreshInv, [Next]_vars
  PROVE  FreshInv'
  <1>0. SocketOK /\ NetsOK /\ ClientOK /\ QueueInv /\ SocketOK' /\ \A n \in DOMAIN nets : nets[n] \in NetType
    BY SocketParts, NetsParts, TypeParts DEF SocketInv
  <1>r. Reply("OK").kind = "OK" /\ Reply("FAIL").kind = "FAIL" /\ Reply("PONG").kind = "PONG"
    BY ReplyIs
  <1>f. ASSUME nets' = nets, NEW a, Took(a), a.kind # "id"
        PROVE  FreshInv'
    BY <1>0, <1>f, FreshSame, FreshTook, Zenon
  <1>1. CASE Open \/ Close
    BY <1>0, <1>1, FreshKept DEF Open, Close, FreshSocket
  <1>2. CASE \/ \E c \in Call : CallClosed(c) \/ StartCall(c)
             \/ NextRequest \/ Send \/ SendFails \/ Timeout \/ Roam \/ UNCHANGED vars
    <2>1. nets' = nets /\ inbox' = inbox
      BY <1>2 DEF CallClosed, StartCall, NextRequest, Send, SendFails, Timeout, Roam, vars, svars
    <2> QED
      BY <1>0, <2>1, FreshKept
  <1>3. CASE Drain \/ Receive
    BY <1>0, <1>3, DrainIs, ReceiveIs, FreshKept
  <1>4. CASE ServeAdd
    <2>1. CASE nets' = nets /\ Took(Reply("FAIL"))
      BY <1>r, <1>f, <2>1
    <2>2. CASE NewNetAdded /\ Took([kind |-> "id", id |-> NewId])
      <3>1. \A n : Fresh(n) => Fresh(n)'
        <4> SUFFICES ASSUME NEW n, Fresh(n) PROVE Fresh(n)'
          OBVIOUS
        <4>1. n \in DOMAIN nets /\ n # NewId
          BY <1>0, NewIdIsNew DEF Fresh
        <4>2. n \in DOMAIN nets' /\ nets'[n] = nets[n]
          BY <2>2, <4>1, NetAddedIs
        <4> QED
          BY <4>2 DEF Fresh
      <3>2. PICK m : m = NewId
        OBVIOUS
      <3>3. Fresh(m)'
        <4>1. m \in DOMAIN nets' /\ nets'[m] = NewNet
          BY <2>2, <3>2, NetAddedIs
        <4> QED
          BY <4>1, NewNetIs DEF Fresh
      <3>4. PICK a : a = [kind |-> "id", id |-> NewId]
        OBVIOUS
      <3>5. a.id = m /\ Took(a)
        BY <2>2, <3>2, <3>4
      <3>6. Fresh(a.id)'
        BY <3>3, <3>5
      <3> QED
        BY <1>0, <3>1, <3>5, <3>6, FreshTook
    <2> QED
      BY <1>0, <1>4, <2>1, <2>2, ServeAddIs
  <1>5. CASE ServeSet \/ ServeSwitch
    <2>1. CASE nets' = nets /\ Took(Reply("FAIL"))
      BY <1>r, <1>f, <2>1
    <2>2. CASE Took(Reply("OK"))
      <3>1. Reply("OK").kind # "id"
        BY <1>r
      <3> QED
        BY <1>0, <1>r, <2>2, <3>1, FreshTook, Zenon
    <2> QED
      BY <1>0, <1>5, <2>1, <2>2, ServeSetIs, ServeSwitchIs, Zenon
  <1>6. CASE ServeQuery
    <2>1. nets' = nets /\ \E a : Took(a) /\ a.kind # "id"
      <3>1. PICK s : s = [kind |-> "status", id |-> conn]
        OBVIOUS
      <3>2. s.kind # "id" /\ Reply("PONG").kind # "id" /\ Reply("OK").kind # "id"
        BY <1>r, <3>1
      <3> QED
        BY <1>0, <1>6, <3>1, <3>2, ServeQueryIs, Zenon
    <2> QED
      BY <1>f, <2>1
  <1> QED
    BY <1>1, <1>2, <1>3, <1>4, <1>5, <1>6, Zenon DEF Next

\* Nothing is asked and nothing answered for the networks.
LEMMA MadeSame ==
  ASSUME NEW k, Made(k), UNCHANGED << nets, call, id >>
  PROVE  Made(k)'
  BY DEF Made, IdsFit

LEMMA AddHere ==
  ASSUME ClientOK, call.op = "add"
  PROVE  /\ Steps(call) = AddSteps(call.station) /\ Len(Steps(call)) \in 5 .. 7 /\ at \in Nat
         /\ at # 0 => at \in 1 .. Len(Steps(call))
         /\ at = 1 => Steps(call)[at].cmd = "ADD_NETWORK" /\ \A r : Wanted(r) = (r.kind = "id")
         /\ at >= 2 => Steps(call)[at].cmd = "SET_NETWORK" /\ \A r : Wanted(r) = (r.kind = "OK")
  <1>1. Steps(call) = AddSteps(call.station)
    BY StepsAre DEF ClientOK
  <1>2. Len(Steps(call)) \in 5 .. 7 /\ Steps(call)[1].cmd = "ADD_NETWORK"
        /\ \A i \in 2 .. Len(Steps(call)) : Steps(call)[i].cmd = "SET_NETWORK"
    BY <1>1, AddStepsAre
  <1>3. at \in Nat /\ at \in 0 .. Len(Steps(call))
    BY <1>2 DEF ClientOK
  <1>4. at # 0 => at \in 1 .. Len(Steps(call))
    BY <1>2, <1>3
  <1>5. at = 1 => \A r : Wanted(r) = (r.kind = "id")
    BY <1>2 DEF Wanted
  <1>6. ASSUME at >= 2
        PROVE  Steps(call)[at].cmd = "SET_NETWORK" /\ \A r : Wanted(r) = (r.kind = "OK")
    <2>1. at \in 2 .. Len(Steps(call))
      BY <1>2, <1>3, <1>6
    <2>2. Steps(call)[at].cmd = "SET_NETWORK"
      BY <1>2, <2>1
    <2> QED
      BY <2>2 DEF Wanted
  <1> QED
    BY <1>1, <1>2, <1>3, <1>4, <1>5, <1>6

LEMMA AddProceeds ==
  ASSUME ClientOK, call.op = "add", at # 0, NEW good \in BOOLEAN, Proceed(good)
  PROVE  /\ good /\ at < Len(Steps(call)) => at' = at + 1
         /\ good /\ ~(at < Len(Steps(call))) => at' = 0
         /\ ~good => at' = 0 /\ ret' = FALSE
  <1>1. call.op # "remove_all" /\ call.op # "disconnect"
    OBVIOUS
  <1>2. CASE good
    BY <1>1, <1>2, Zenon DEF Proceed
  <1>3. CASE ~good
    <2>1. Verdict(good) = FALSE
      BY <1>1, <1>3 DEF Verdict
    <2> QED
      BY <1>1, <1>3, <2>1, Zenon DEF Proceed
  <1> QED
    BY <1>2, <1>3

\* An add that failed claims nothing.
LEMMA AddGivenUp ==
  ASSUME call'.op = "add" => at' = 0 /\ ret' = FALSE
  PROVE  AddInv'
  BY DEF AddInv

\* Between the requests.
LEMMA AddGoesOn ==
  ASSUME AddInv, UNCHANGED << late, requests, inbox, nets, call, at, id, ret >>,
         phase # "wait", phase' # "wait"
  PROVE  AddInv'
  <1> SUFFICES ASSUME call'.op = "add", late' <= 1
               PROVE  /\ at' >= 2 => Made(at - 1)' /\ (Quiet \/ (at = 2 /\ OneBehind))'
                      /\ at' = 0 /\ ret' => Quiet' /\ Made(Len(Steps(call)))'
    BY DEF AddInv
  <1>1. /\ at >= 2 => Made(at - 1) /\ (Quiet \/ (at = 2 /\ OneBehind))
        /\ at = 0 /\ ret => Quiet /\ Made(Len(Steps(call)))
    BY DEF AddInv
  <1>2. Quiet' = Quiet /\ OneBehind' = OneBehind /\ at' = at
    BY DEF Quiet, OneBehind, AddFirst, IsAdd, ToldAdd
  <1>3. Made(at - 1)' = Made(at - 1) /\ Made(Len(Steps(call)))' = Made(Len(Steps(call)))
    BY DEF Made, IdsFit
  <1> QED
    BY <1>1, <1>2, <1>3

LEMMA DrainAdd ==
  ASSUME SocketInv, AddInv, Drain
  PROVE  AddInv'
  <1>0. SocketOK /\ ClientOK /\ Len(inbox) \in Nat /\ Len(requests) \in Nat
    BY SocketParts DEF SocketOK
  <1>1. /\ phase = "drain" /\ phase' = "send"
        /\ UNCHANGED << late, result, requests, nets, call, at, id, ret >>
    BY <1>0, DrainIs
  <1>2. CASE inbox' = inbox
    BY <1>1, <1>2, AddGoesOn
  <1>3. CASE Len(inbox) > 0 /\ inbox' = Tail(inbox)
    <2> SUFFICES ASSUME call.op = "add", late <= 1
                 PROVE  AddInv'
      BY <1>1 DEF AddInv
    <2>1. Len(inbox') = Len(inbox) - 1
      BY <1>0, <1>3, TailIs DEF SocketOK
    <2>2. at # 0
      BY <1>1, SocketParts DEF PhaseInv
    <2>3. CASE at >= 2
      <3>1. Made(at - 1) /\ (Quiet \/ OneBehind)
        BY <1>1, <2>3 DEF AddInv
      <3>2. Quiet'
        <4>1. \A x \in Nat, y \in Nat : y > 0 /\ ((x = 0 /\ y = 0) \/ x + y = 1) => x = 0 /\ y - 1 = 0
          OBVIOUS
        <4>2. Len(requests) = 0 /\ Len(inbox) - 1 = 0
          BY <1>0, <1>3, <3>1, <4>1, Zenon DEF Quiet, OneBehind
        <4> QED
          BY <1>1, <2>1, <4>2, Zenon DEF Quiet
      <3>3. Made(at - 1)'
        BY <1>1, <3>1 DEF Made, IdsFit
      <3> QED
        BY <1>1, <2>2, <3>2, <3>3 DEF AddInv
    <2>4. CASE ~(at >= 2)
      BY <1>1, <2>2, <2>4 DEF AddInv
    <2> QED
      BY <2>3, <2>4
  <1> QED
    BY <1>0, <1>2, <1>3, DrainIs

LEMMA SendAdd ==
  ASSUME SocketInv, AddInv, Send
  PROVE  AddInv'
  <1>0. SocketOK /\ ClientOK /\ Len(inbox) \in Nat /\ Len(requests) \in Nat
    BY SocketParts DEF SocketOK
  <1>1. /\ UNCHANGED << late, inbox, nets, call, at, id, ret >> /\ phase = "send" /\ phase' = "wait"
        /\ requests' = Append(requests, Own)
    BY SendIs
  <1>2. at # 0
    BY <1>1, SocketParts DEF PhaseInv
  <1>3. /\ Own \in Request /\ Own.live = TRUE /\ Own.cmd = Steps(call)[at].cmd
        /\ Len(requests') = Len(requests) + 1 /\ requests'[Len(requests) + 1] = Own
        /\ \A i \in 1 .. Len(requests) : requests'[i] = requests[i]
    BY <1>0, <1>1, <1>2, OwnIs, AppendIs DEF SocketOK
  <1> SUFFICES ASSUME call.op = "add", late <= 1
               PROVE  AddInv'
    BY <1>1 DEF AddInv
  <1>4. /\ at = 1 => Steps(call)[at].cmd = "ADD_NETWORK"
        /\ at >= 2 => Steps(call)[at].cmd = "SET_NETWORK"
        /\ at \in Nat
    BY <1>0, AddHere
  <1>5. CASE at = 1
    <2>1. AddLast'
      <3>1. Len(requests') > 0 /\ requests'[Len(requests')] = Own
        BY <1>0, <1>3
      <3>2. Own.cmd = "ADD_NETWORK" /\ Own.live = TRUE
        BY <1>3, <1>4, <1>5
      <3>3. IsAdd(requests'[Len(requests')])
        BY <3>1, <3>2, Zenon DEF IsAdd
      <3> QED
        BY <3>1, <3>3, Zenon DEF AddLast, IsAdd
    <2> QED
      BY <1>1, <1>5, <2>1 DEF AddInv
  <1>6. CASE at >= 2
    <2>1. Made(at - 1) /\ (Quiet \/ (at = 2 /\ OneBehind))
      BY <1>1, <1>6 DEF AddInv
    <2>2. CASE Quiet
      <3>1. Len(requests') = 1 /\ Len(inbox') = 0 /\ requests'[1] = Own
        BY <1>1, <1>3, <2>2 DEF Quiet
      <3>2. Own = [cmd |-> "SET_NETWORK", field |-> Steps(call)[at].field, id |-> id,
                   val |-> call.station, live |-> TRUE]
        BY <1>4, <1>6 DEF Own, CmdId, Value
      <3>3. Made(at - 1)'
        BY <1>1, <2>1 DEF Made, IdsFit
      <3>4. SetSent'
        BY <1>1, <3>1, <3>2, <3>3 DEF SetSent
      <3> QED
        BY <1>1, <1>6, <3>4 DEF AddInv
    <2>3. CASE at = 2 /\ OneBehind
      <3>1. Len(requests) > 0 => requests'[1] = requests[1] /\ Len(requests') > 0
        BY <1>0, <1>3
      <3>2. AddFirst'
        BY <1>0, <1>1, <2>3, <3>1 DEF OneBehind, AddFirst, IsAdd, ToldAdd
      <3> QED
        BY <1>1, <2>3, <3>2 DEF AddInv
    <2> QED
      BY <2>1, <2>2, <2>3
  <1> QED
    BY <1>2, <1>4, <1>5, <1>6

\* The answer to ADD_NETWORK, or to the one of an earlier call: the network it
\* names is fresh, and at most one reply is still to come.
LEMMA ReceiveId ==
  ASSUME SocketInv, FreshInv, AddInv, Receive, call.op = "add", late <= 1, at = 1,
         inbox[1].kind = "id"
  PROVE  Made(1)' /\ (Quiet \/ OneBehind)'
  <1>0. SocketOK /\ NetsOK /\ ClientOK /\ QueueInv /\ LagBounded /\ SocketOK'
    BY SocketParts, SocketStep, TypeParts DEF SocketInv, Next
  <1>1. /\ UNCHANGED << late, requests, nets, conn, call, seen, unsent >> /\ phase = "wait"
        /\ Len(inbox) > 0 /\ inbox' = Tail(inbox) /\ inbox[1] \in Answered
        /\ id' = IF Steps(call)[at].cmd \in {"ADD_NETWORK", "STATUS"} /\ Wanted(inbox[1])
                   THEN inbox[1].id % IdRange ELSE id
    BY <1>0, ReceiveIs
  <1>2. id' = inbox[1].id % IdRange
    <2>1. Steps(call)[at].cmd = "ADD_NETWORK" /\ Wanted(inbox[1])
      BY <1>0, AddHere
    <2> QED
      BY <1>1, <2>1
  <1>3. Owed = Len(inbox) + Len(requests) /\ Len(inbox) \in Nat /\ Len(requests) \in Nat
        /\ Len(inbox') = Len(inbox) - 1 /\ \A i \in 1 .. Len(inbox) - 1 : inbox'[i] = inbox[i + 1]
        /\ DeadUpTo(0)
    BY <1>0, <1>1, QueueRead, TailIs DEF SocketOK
  <1>4. Owed <= 2
    <2>1. late \in Nat /\ Owed <= late + 1
      BY <1>0, <1>1, SocketParts DEF LagBounded, Waiting
    <2> QED
      BY <1>3, <2>1
  <1>5. AddLast
    BY <1>1 DEF AddInv
  <1>6. \/ Len(inbox) = 1 /\ Len(requests) = 0
        \/ Len(inbox) = 1 /\ Len(requests) = 1
        \/ Len(inbox) = 2 /\ Len(requests) = 0
    <2>1. \A x \in Nat, y \in Nat : x > 0 /\ x + y <= 2 =>
            (x = 1 /\ y = 0) \/ (x = 1 /\ y = 1) \/ (x = 2 /\ y = 0)
      OBVIOUS
    <2> QED
      BY <1>1, <1>3, <1>4, <2>1, Zenon
  <1>7. Fresh(inbox[1].id)
    <2>1. ASSUME NEW j \in 1 .. Len(inbox), j > 1
          PROVE  inbox[j].kind # "OK"
      <3>1. Len(inbox) = 2 /\ Len(requests) = 0 /\ j = Len(inbox)
        <4>1. \A i \in 1 .. 1 : ~(i > 1)
          OBVIOUS
        <4>2. \A i \in 1 .. 2 : i > 1 => i = 2
          OBVIOUS
        <4> QED
          BY <1>6, <2>1, <4>1, <4>2, Zenon
      <3>2. ToldAdd(inbox[j])
        BY <1>5, <3>1 DEF AddLast
      <3> QED
        BY <3>2 DEF ToldAdd
    <2>2. 1 \in 1 .. Len(inbox)
      BY <1>6
    <2> QED
      BY <2>1, <2>2, Zenon DEF FreshInv
  <1>8. Made(1)'
    <2>1. 2 .. 1 = {}
      OBVIOUS
    <2>2. ASSUME IdsFit
          PROVE  id' = inbox[1].id
      <3>1. inbox[1].id \in Id8 /\ inbox[1].id \in NetId \cup {NoId}
        BY <1>1, <1>7, <2>2 DEF Fresh, IdsFit, Answered
      <3> QED
        BY <1>2, <3>1, ModIs
    <2>3. IdsFit' = IdsFit
      BY <1>1 DEF IdsFit
    <2> QED
      BY <1>1, <1>7, <2>1, <2>2, <2>3, Zenon DEF Made, Fresh
  <1>9. CASE Len(inbox) = 1 /\ Len(requests) = 0
    <2>1. Quiet'
      BY <1>1, <1>3, <1>9 DEF Quiet
    <2> QED
      BY <1>8, <2>1
  <1>10. CASE Len(inbox) = 1 /\ Len(requests) = 1
    <2>1. IsAdd(requests[1])
      BY <1>5, <1>10 DEF AddLast
    <2>2. Len(requests') = 1 /\ Len(inbox') = 0 /\ IsAdd(requests'[1])
      BY <1>1, <1>3, <1>10, <2>1 DEF IsAdd
    <2>3. AddFirst'
      <3>1. ~(Len(inbox') > 0) /\ Len(requests') > 0
        BY <2>2
      <3> QED
        BY <2>2, <3>1, Zenon DEF AddFirst, IsAdd
    <2>4. OneBehind'
      BY <2>2, <2>3 DEF OneBehind
    <2> QED
      BY <1>8, <2>4
  <1>11. CASE Len(inbox) = 2 /\ Len(requests) = 0
    <2>1. ToldAdd(inbox[2])
      BY <1>5, <1>11 DEF AddLast
    <2>2. Len(requests') = 0 /\ Len(inbox') = 1 /\ inbox'[1] = inbox[2]
      <3>1. 2 - 1 = 1 /\ 1 \in 1 .. 2 - 1 /\ 1 + 1 = 2
        OBVIOUS
      <3> QED
        BY <1>1, <1>3, <1>11, <3>1, Zenon
    <2>3. AddFirst'
      <3>1. Len(inbox') > 0
        BY <2>2
      <3> QED
        BY <2>1, <2>2, <3>1, Zenon DEF AddFirst, ToldAdd
    <2>4. OneBehind'
      BY <2>2, <2>3 DEF OneBehind
    <2> QED
      BY <1>8, <2>4
  <1> QED
    BY <1>6, <1>9, <1>10, <1>11

\* The OK to a setting is the one that is waited for.
LEMMA ReceiveSet ==
  ASSUME SocketInv, AddInv, Receive, call.op = "add", late <= 1, at >= 2, inbox[1].kind = "OK"
  PROVE  Quiet' /\ Made(at) /\ id' = id
  <1>0. SocketOK /\ ClientOK
    BY SocketParts
  <1>1. /\ requests' = requests /\ phase = "wait" /\ Len(inbox) > 0 /\ inbox' = Tail(inbox)
        /\ id' = IF Steps(call)[at].cmd \in {"ADD_NETWORK", "STATUS"} /\ Wanted(inbox[1])
                   THEN inbox[1].id % IdRange ELSE id
    BY <1>0, ReceiveIs
  <1>2. SetSent \/ SetTold \/ (at = 2 /\ AddFirst)
    BY <1>1 DEF AddInv
  <1>3. ~SetSent
    BY <1>1 DEF SetSent
  <1>4. ~AddFirst
    BY <1>1 DEF AddFirst, ToldAdd
  <1>5. Len(requests) = 0 /\ Len(inbox) = 1 /\ Made(at)
    BY <1>2, <1>3, <1>4 DEF SetTold
  <1>6. Quiet'
    <2>1. Len(inbox') = Len(inbox) - 1
      BY <1>0, <1>1, TailIs DEF SocketOK
    <2> QED
      BY <1>1, <1>5, <2>1 DEF Quiet
  <1>7. id' = id
    <2>1. Steps(call)[at].cmd = "SET_NETWORK"
      BY <1>0, AddHere
    <2> QED
      BY <1>1, <2>1
  <1> QED
    BY <1>5, <1>6, <1>7

LEMMA ReceiveAdd ==
  ASSUME SocketInv, FreshInv, AddInv, Receive
  PROVE  AddInv'
  <1>0. SocketOK /\ NetsOK /\ ClientOK /\ PhaseInv
    BY SocketParts
  <1>1. /\ UNCHANGED << late, requests, nets, call >> /\ phase = "wait" /\ phase' = "idle"
        /\ Proceed(Wanted(inbox[1])) /\ at # 0
    BY <1>0, ReceiveIs DEF PhaseInv
  <1> SUFFICES ASSUME call.op = "add", late <= 1
               PROVE  AddInv'
    BY <1>1 DEF AddInv
  <1>2. /\ Len(Steps(call)) \in 5 .. 7 /\ at \in 1 .. Len(Steps(call)) /\ at \in Nat
        /\ at = 1 => Wanted(inbox[1]) = (inbox[1].kind = "id")
        /\ at >= 2 => Wanted(inbox[1]) = (inbox[1].kind = "OK")
    BY <1>0, <1>1, AddHere
  <1>3. /\ Wanted(inbox[1]) /\ at < Len(Steps(call)) => at' = at + 1
        /\ Wanted(inbox[1]) /\ ~(at < Len(Steps(call))) => at' = 0
        /\ ~Wanted(inbox[1]) => at' = 0 /\ ret' = FALSE
    BY <1>0, <1>1, WantedType, AddProceeds
  <1>4. CASE ~Wanted(inbox[1])
    BY <1>3, <1>4, AddGivenUp
  <1>5. CASE Wanted(inbox[1]) /\ at = 1
    <2>1. Made(1)' /\ (Quiet \/ OneBehind)' /\ at' = 2
      <3>1. inbox[1].kind = "id"
        BY <1>2, <1>5, Zenon
      <3>2. at < Len(Steps(call)) /\ at + 1 = 2
        <4>1. \A n \in 5 .. 7 : 1 < n /\ 1 + 1 = 2
          OBVIOUS
        <4> QED
          BY <1>2, <1>5, <4>1, Zenon
      <3>3. at' = 2
        BY <1>3, <1>5, <3>2, Zenon
      <3> QED
        BY <1>5, <3>1, <3>3, ReceiveId
    <2>3. (at - 1)' = 1
      BY <2>1
    <2>4. Made(at - 1)'
      BY <2>1, <2>3
    <2> QED
      BY <1>1, <2>1, <2>4 DEF AddInv
  <1>6. CASE Wanted(inbox[1]) /\ at >= 2
    <2>1. Quiet' /\ Made(at) /\ id' = id
      <3>1. inbox[1].kind = "OK"
        BY <1>2, <1>6, Zenon
      <3> QED
        BY <1>6, <3>1, ReceiveSet
    <2>2. PICK k : k = at
      OBVIOUS
    <2>3. Made(k)'
      BY <1>1, <2>1, <2>2, MadeSame
    <2>4. CASE at < Len(Steps(call))
      <3>1. at' = at + 1 /\ (at - 1)' = k
        BY <1>2, <1>3, <1>6, <2>2, <2>4
      <3>2. Made(at - 1)'
        BY <2>3, <3>1
      <3>3. at' # 0 /\ at' # 1
        BY <1>2, <1>6, <3>1
      <3> QED
        BY <1>1, <2>1, <3>2, <3>3 DEF AddInv
    <2>5. CASE ~(at < Len(Steps(call)))
      <3>1. at' = 0 /\ Len(Steps(call))' = k
        BY <1>1, <1>2, <1>3, <1>6, <2>2, <2>5
      <3>2. Made(Len(Steps(call)))'
        BY <2>3, <3>1
      <3> QED
        BY <1>1, <2>1, <3>1, <3>2 DEF AddInv
    <2> QED
      BY <2>4, <2>5
  <1> QED
    BY <1>2, <1>4, <1>5, <1>6

\* What the supplicant does for the requests of station_add.
LEMMA ServedForAdd ==
  ASSUME SocketOK, NetsOK, ServeAdd \/ ServeSet \/ ServeSwitch \/ ServeQuery
  PROVE  \E a :
           /\ Took(a)
           /\ requests[1].cmd = "ADD_NETWORK" => ToldAdd(a) /\ (nets' = nets \/ NewNetAdded)
           /\ requests[1].cmd = "SET_NETWORK" =>
                \/ a.kind = "FAIL" /\ nets' = nets
                \/ /\ a.kind = "OK" /\ requests[1].id \in DOMAIN nets
                   /\ nets' = [nets EXCEPT ![requests[1].id].cfg[requests[1].field] = requests[1].val]
  <1>r. Reply("OK").kind = "OK" /\ Reply("FAIL").kind = "FAIL"
    BY ReplyIs
  <1>1. CASE ServeAdd
    <2>1. requests[1].cmd = "ADD_NETWORK" /\ requests[1].cmd # "SET_NETWORK"
      BY <1>1, ServeAddIs
    <2>2. ToldAdd(Reply("FAIL")) /\ ToldAdd([kind |-> "id", id |-> NewId])
      BY <1>r DEF ToldAdd
    <2> QED
      BY <1>1, <2>1, <2>2, ServeAddIs, Zenon
  <1>2. CASE ServeSet
    <2>1. requests[1].cmd # "ADD_NETWORK"
      BY <1>2, ServeSetIs
    <2> QED
      BY <1>2, <1>r, <2>1, ServeSetIs, Zenon
  <1>3. CASE ServeSwitch
    <2>1. requests[1].cmd # "ADD_NETWORK" /\ requests[1].cmd # "SET_NETWORK"
      BY <1>3, ServeSwitchIs
    <2> QED
      BY <1>3, <2>1, ServeSwitchIs, Zenon
  <1>4. CASE ServeQuery
    <2>1. requests[1].cmd # "ADD_NETWORK" /\ requests[1].cmd # "SET_NETWORK"
      BY <1>4, ServeQueryIs
    <2> QED
      BY <1>4, <2>1, ServeQueryIs, Zenon
  <1> QED
    BY <1>1, <1>2, <1>3, <1>4

\* A new network is another one than that of the operation.
LEMMA MadeAdded ==
  ASSUME NetsOK, NEW k, Made(k), nets' = nets \/ NewNetAdded, UNCHANGED << call, id >>
  PROVE  Made(k)'
  <1>1. CASE nets' = nets
    BY <1>1, MadeSame
  <1>2. CASE NewNetAdded
    <2>1. DOMAIN nets \subseteq DOMAIN nets' /\ \A n \in DOMAIN nets : nets'[n] = nets[n]
      BY <1>2, NetAddedIs, NewIdIsNew
    <2>2. IdsFit' => IdsFit
      BY <2>1 DEF IdsFit
    <2>3. IdsFit => id \in DOMAIN nets'
      BY <2>1 DEF Made
    <2> QED
      BY <2>1, <2>2, <2>3, Zenon DEF Made
  <1> QED
    BY <1>1, <1>2

\* A setting that is made is the one the operation is at.
LEMMA MadeSet ==
  ASSUME SocketOK, NetsOK, ClientOK, call.op = "add", at >= 2, Made(at - 1), UNCHANGED << call, id >>,
         NEW r \in Request, r.id = id, r.field = Steps(call)[at].field, r.val = call.station,
         r.id \in DOMAIN nets, nets' = [nets EXCEPT ![r.id].cfg[r.field] = r.val],
         NEW k, k = at
  PROVE  Made(k)'
  <1>1. /\ DOMAIN nets' = DOMAIN nets
        /\ \A f \in Field : nets'[id].cfg[f] =
              IF f = Steps(call)[at].field THEN call.station ELSE nets[id].cfg[f]
    <2>1. /\ DOMAIN nets' = DOMAIN nets
          /\ \A f \in Field : nets'[r.id].cfg[f] = IF f = r.field THEN r.val ELSE nets[r.id].cfg[f]
      BY NetsParts, SetEdits
    <2> QED
      BY <2>1, Zenon
  <1>2. at \in Nat
    BY AddHere
  <1>3. \A f : (\E i \in 2 .. k : Steps(call)[i].field = f) <=>
                 (f = Steps(call)[at].field \/ \E i \in 2 .. at - 1 : Steps(call)[i].field = f)
    <2>1. \A i : i \in 2 .. k <=> (i = at \/ i \in 2 .. at - 1)
      BY <1>2
    <2> QED
      BY <2>1, Zenon
  <1> SUFFICES ASSUME IdsFit'
               PROVE  /\ id \in DOMAIN nets'
                      /\ \A f \in Field : nets'[id].cfg[f] =
                           IF \E i \in 2 .. k : Steps(call)[i].field = f THEN call.station ELSE Unset
    BY Zenon DEF Made
  <1>4. IdsFit
    BY <1>1 DEF IdsFit
  <1>5. \A f \in Field : nets[id].cfg[f] =
          IF \E i \in 2 .. at - 1 : Steps(call)[i].field = f THEN call.station ELSE Unset
    BY <1>4, Zenon DEF Made
  <1>6. ASSUME NEW f \in Field
        PROVE  nets'[id].cfg[f] =
                 IF \E i \in 2 .. k : Steps(call)[i].field = f THEN call.station ELSE Unset
    <2>1. CASE f = Steps(call)[at].field
      BY <1>1, <1>3, <2>1, Zenon
    <2>2. CASE f # Steps(call)[at].field
      <3>1. nets'[id].cfg[f] = nets[id].cfg[f]
        BY <1>1, <2>2, Zenon
      <3>2. (\E i \in 2 .. k : Steps(call)[i].field = f) <=> \E i \in 2 .. at - 1 : Steps(call)[i].field = f
        BY <1>3, <2>2, Zenon
      <3>3. CASE \E i \in 2 .. at - 1 : Steps(call)[i].field = f
        BY <1>5, <3>1, <3>2, <3>3, Zenon
      <3>4. CASE ~ \E i \in 2 .. at - 1 : Steps(call)[i].field = f
        BY <1>5, <3>1, <3>2, <3>4, Zenon
      <3> QED
        BY <3>3, <3>4
    <2> QED
      BY <2>1, <2>2
  <1>7. id \in DOMAIN nets'
    BY <1>1
  <1> QED
    BY <1>6, <1>7, Zenon

LEMMA ServeAddInv ==
  ASSUME SocketInv, AddInv, ServeAdd \/ ServeSet \/ ServeSwitch \/ ServeQuery
  PROVE  AddInv'
  <1>0. SocketOK /\ NetsOK /\ ClientOK /\ QueueInv
    BY SocketParts
  <1>1. PICK a :
           /\ Took(a)
           /\ requests[1].cmd = "ADD_NETWORK" => ToldAdd(a) /\ (nets' = nets \/ NewNetAdded)
           /\ requests[1].cmd = "SET_NETWORK" =>
                \/ a.kind = "FAIL" /\ nets' = nets
                \/ /\ a.kind = "OK" /\ requests[1].id \in DOMAIN nets
                   /\ nets' = [nets EXCEPT ![requests[1].id].cfg[requests[1].field] = requests[1].val]
    BY <1>0, ServedForAdd
  <1>2. UNCHANGED << phase, late, result, call, at, id, ret >>
    BY <1>1 DEF Took
  <1>3. /\ requests[1] \in Request /\ Len(requests) \in Nat /\ Len(requests) > 0 /\ Len(inbox) \in Nat
        /\ Len(requests') = Len(requests) - 1
        /\ \A i \in 1 .. Len(requests) - 1 : requests'[i] = requests[i + 1]
        /\ \A i \in 1 .. Len(inbox) : inbox'[i] = inbox[i]
        /\ requests[1].live => Len(inbox') = Len(inbox) + 1 /\ inbox'[Len(inbox) + 1] = a
        /\ ~requests[1].live => inbox' = inbox
    BY <1>0, <1>1, TookIs
  <1>q. ~Quiet
    BY <1>3 DEF Quiet
  <1> SUFFICES ASSUME call.op = "add", late <= 1
               PROVE  AddInv'
    BY <1>2 DEF AddInv
  <1>4. IsAdd(requests[1]) /\ Len(inbox) = 0 => AddFirst'
    <2> SUFFICES ASSUME IsAdd(requests[1]), Len(inbox) = 0 PROVE AddFirst'
      OBVIOUS
    <2>1. ToldAdd(a) /\ Len(inbox') = Len(inbox) + 1 /\ inbox'[Len(inbox) + 1] = a
      BY <1>1, <1>3, Zenon DEF IsAdd
    <2>2. 0 + 1 = 1 /\ 1 > 0
      OBVIOUS
    <2> QED
      BY <2>1, <2>2, Zenon DEF AddFirst, ToldAdd
  <1>5. ASSUME at = 1, phase = "wait"
        PROVE  AddLast'
    <2>1. IsAdd(requests[Len(requests)])
      BY <1>3, <1>5 DEF AddInv, AddLast
    <2>2. CASE Len(requests) = 1
      <3>1. Len(inbox') = Len(inbox) + 1 /\ inbox'[Len(inbox')] = a /\ ToldAdd(a)
        BY <1>1, <1>3, <2>1, <2>2, Zenon DEF IsAdd
      <3>2. ~(Len(requests') > 0) /\ Len(inbox') > 0
        <4>1. ~(1 - 1 > 0) /\ \A x \in Nat : x + 1 > 0
          OBVIOUS
        <4> QED
          BY <1>3, <2>2, <3>1, <4>1, Zenon
      <3> QED
        BY <3>1, <3>2, Zenon DEF AddLast, ToldAdd
    <2>3. CASE Len(requests) # 1
      <3>1. Len(requests') > 0 /\ requests'[Len(requests')] = requests[Len(requests)]
        BY <1>3, <2>3
      <3> QED
        BY <2>1, <3>1, Zenon DEF AddLast, IsAdd
    <2> QED
      BY <2>2, <2>3
  <1>6. ASSUME at >= 2, phase # "wait"
        PROVE  Made(at - 1)' /\ at = 2 /\ OneBehind'
    <2>1. Made(at - 1) /\ at = 2 /\ OneBehind
      BY <1>6, <1>q DEF AddInv
    <2>2. Len(requests) = 1 /\ Len(inbox) = 0
      BY <1>3, <2>1 DEF OneBehind
    <2>3. IsAdd(requests[1])
      BY <2>1, <2>2 DEF OneBehind, AddFirst
    <2>4. AddFirst'
      BY <1>4, <2>2, <2>3
    <2>5. Len(requests') + Len(inbox') = 1
      BY <1>3, <2>2, <2>3 DEF IsAdd
    <2>6. PICK k : k = at - 1
      OBVIOUS
    <2>7. Made(k)'
      BY <1>0, <1>1, <1>2, <2>1, <2>3, <2>6, MadeAdded DEF IsAdd
    <2>8. (at - 1)' = k
      BY <1>2, <2>6
    <2> QED
      BY <2>1, <2>4, <2>5, <2>7, <2>8 DEF OneBehind
  <1>7. ASSUME at >= 2, phase = "wait"
        PROVE  SetTold' \/ (at = 2 /\ AddFirst')
    <2>1. SetSent \/ SetTold \/ (at = 2 /\ AddFirst)
      BY <1>7 DEF AddInv
    <2>2. CASE SetSent
      <3>1. /\ requests[1].cmd = "SET_NETWORK" /\ requests[1].live = TRUE /\ requests[1].id = id
            /\ requests[1].field = Steps(call)[at].field /\ requests[1].val = call.station
        BY <2>2 DEF SetSent
      <3>2. Len(requests') = 0 /\ Len(inbox') = 1 /\ inbox'[1] = a
        BY <1>3, <2>2, <3>1 DEF SetSent
      <3>3. CASE a.kind = "FAIL"
        BY <3>2, <3>3, Zenon DEF SetTold
      <3>4. CASE /\ a.kind = "OK" /\ requests[1].id \in DOMAIN nets
                 /\ nets' = [nets EXCEPT ![requests[1].id].cfg[requests[1].field] = requests[1].val]
        <4>1. PICK k : k = at
          OBVIOUS
        <4>2. Made(at - 1)
          BY <2>2 DEF SetSent
        <4>3. Made(k)'
          BY <1>0, <1>2, <1>3, <1>7, <3>1, <3>4, <4>1, <4>2, MadeSet
        <4>4. Made(at)'
          BY <1>2, <4>1, <4>3
        <4> QED
          BY <3>2, <3>4, <4>4, Zenon DEF SetTold
      <3> QED
        BY <1>1, <3>1, <3>3, <3>4
    <2>3. ~SetTold
      BY <1>3 DEF SetTold
    <2>4. CASE at = 2 /\ AddFirst
      <3>1. CASE Len(inbox) > 0
        <4>1. Len(inbox') > 0 /\ inbox'[1] = inbox[1]
          BY <1>3, <3>1
        <4> QED
          BY <2>4, <3>1, <4>1, Zenon DEF AddFirst, ToldAdd
      <3>2. CASE ~(Len(inbox) > 0)
        <4>1. Len(inbox) = 0 /\ IsAdd(requests[1])
          BY <1>3, <2>4, <3>2 DEF AddFirst
        <4> QED
          BY <1>4, <2>4, <4>1
      <3> QED
        BY <3>1, <3>2
    <2> QED
      BY <2>1, <2>2, <2>3, <2>4
  <1>8. ~(at = 0 /\ ret)
    BY <1>q DEF AddInv
  <1> QED
    BY <1>2, <1>5, <1>6, <1>7, <1>8, Zenon DEF AddInv

LEMMA AddStep ==
  ASSUME SocketInv, FreshInv, AddInv, [Next]_vars
  PROVE  AddInv'
  <1>0. SocketOK /\ NetsOK /\ ClientOK /\ PhaseInv /\ QueueInv
    BY SocketParts
  <1>1. CASE Open \/ Close
    <2>1. call' = [op |-> "ping"]
      BY <1>1 DEF Open, Close, FreshSocket, NoCallYet
    <2>2. call'.op # "add"
      BY <2>1
    <2> QED
      BY <2>2, AddGivenUp
  <1>2. ASSUME NEW c \in Call, CallClosed(c)
        PROVE  AddInv'
    <2>1. at' = 0 /\ ret' = FALSE
      BY <1>0, <1>2 DEF CallClosed, ClientOK
    <2> QED
      BY <2>1, AddGivenUp
  <1>3. ASSUME NEW c \in Call, StartCall(c)
        PROVE  AddInv'
    <2>1. phase' = "drain" /\ at' = 1
      BY <1>3 DEF StartCall
    <2>2. ~(1 >= 2)
      OBVIOUS
    <2> QED
      BY <2>1, <2>2 DEF AddInv
  <1>4. CASE NextRequest
    <2>1. /\ UNCHANGED << late, requests, inbox, nets, call, at, id, ret >>
          /\ phase # "wait" /\ phase' # "wait"
      BY <1>4 DEF NextRequest, svars
    <2> QED
      BY <2>1, AddGoesOn
  <1>5. CASE SendFails
    <2>1. Proceed(FALSE) /\ call' = call /\ at # 0
      BY <1>0, <1>5, SendFailsIs DEF PhaseInv
    <2>2. call.op = "add" => at' = 0 /\ ret' = FALSE
      BY <1>0, <2>1, AddProceeds
    <2> QED
      BY <2>1, <2>2, AddGivenUp
  <1>6. CASE Timeout
    <2>1. Proceed(FALSE) /\ call' = call /\ at # 0
      BY <1>0, <1>6, TimeoutIs DEF PhaseInv
    <2>2. call.op = "add" => at' = 0 /\ ret' = FALSE
      BY <1>0, <2>1, AddProceeds
    <2> QED
      BY <2>1, <2>2, AddGivenUp
  <1>7. CASE Roam \/ UNCHANGED vars
    <2>1. UNCHANGED << phase, late, requests, inbox, nets, call, at, id, ret >>
      BY <1>7, RoamIs DEF vars, svars, hvars
    <2> QED
      BY <2>1 DEF AddInv, Made, IdsFit, Quiet, OneBehind, AddFirst, AddLast, SetSent, SetTold, IsAdd, ToldAdd
  <1> QED
    BY <1>1, <1>2, <1>3, <1>4, <1>5, <1>6, <1>7, DrainAdd, SendAdd, ReceiveAdd, ServeAddInv DEF Next

LEMMA AddInit == Init => FreshInv /\ AddInv
  BY DEF Init, FreshInv, AddInv

AddsInv == SocketInv /\ FreshInv /\ AddInv

LEMMA AddsAlways == Spec => []AddsInv
  <1>1. Init => AddsInv
    BY SocketInit, AddInit DEF AddsInv
  <1>2. AddsInv /\ [Next]_vars => AddsInv'
    BY SocketStep, FreshStep, AddStep DEF AddsInv
  <1> QED
    BY <1>1, <1>2, PTL DEF Spec

\* A station_add that returns true in a session with at most one late answer
\* has made every setting of its station on the network its id names, and none
\* else was made there (405-495).
THEOREM AddMakesWhole == Spec => []AddedWhole
  <1>1. AddsInv => AddedWhole
    <2> SUFFICES ASSUME AddsInv, Returned("add"), late <= 1, IdsFit
                 PROVE  /\ id \in DOMAIN nets
                        /\ \A f \in Field :
                             nets[id].cfg[f] = IF f \in FieldsOf(call.station) THEN call.station ELSE Unset
      BY DEF AddedWhole
    <2>1. Made(Len(Steps(call)))
      BY DEF AddsInv, AddInv, Returned
    <2>2. Steps(call) = AddSteps(call.station)
      BY SocketParts, AddHere DEF AddsInv, Returned
    <2>3. \A f : (f \in FieldsOf(call.station)) <=>
                   \E i \in 2 .. Len(Steps(call)) : Steps(call)[i].field = f
      BY <2>2, Zenon DEF FieldsOf
    <2>4. id \in DOMAIN nets /\ \A f \in Field : nets[id].cfg[f] =
            IF \E i \in 2 .. Len(Steps(call)) : Steps(call)[i].field = f THEN call.station ELSE Unset
      BY <2>1, Zenon DEF Made
    <2>5. ASSUME NEW f \in Field
          PROVE  nets[id].cfg[f] = IF f \in FieldsOf(call.station) THEN call.station ELSE Unset
      <3>1. CASE f \in FieldsOf(call.station)
        BY <2>3, <2>4, <3>1, Zenon
      <3>2. CASE f \notin FieldsOf(call.station)
        BY <2>3, <2>4, <3>2, Zenon
      <3> QED
        BY <3>1, <3>2
    <2> QED
      BY <2>4, <2>5
  <1> QED
    BY <1>1, AddsAlways, PTL

\* Such a station_add leaves no reply behind for a later request (348-353, 401-495).
THEOREM AddReadsAll == Spec => []AddCatchesUp
  <1>1. AddsInv => AddCatchesUp
    <2> SUFFICES ASSUME AddsInv, Returned("add"), late <= 1
                 PROVE  Owed = 0
      BY DEF AddCatchesUp
    <2>1. Quiet
      BY DEF AddsInv, AddInv, Returned
    <2>2. SocketOK /\ QueueInv
      BY SocketParts DEF AddsInv
    <2>3. PICK k \in 0 .. Len(requests) : DeadUpTo(k)
      BY <2>2 DEF QueueInv
    <2>4. Owed = Len(inbox) + (Len(requests) - k)
      BY <2>2, <2>3, OwedIs
    <2>5. k = 0
      BY <2>1, <2>3 DEF Quiet
    <2>6. Owed = Len(inbox) + Len(requests)
      BY <2>2, <2>4, <2>5 DEF SocketOK
    <2> QED
      BY <2>1, <2>6 DEF Quiet
  <1> QED
    BY <1>1, AddsAlways, PTL

----------------------------------------------------------------------------
(* The ids given out.                                                      *)

\* What the supplicant does to the networks: none comes back, a new one is
\* switched off and its number told, and only those with an id of the client
\* are switched on or removed.
LEMMA ServedNets ==
  ASSUME SocketOK, NetsOK, ServeAdd \/ ServeSet \/ ServeSwitch \/ ServeQuery
  PROVE  /\ IdsFit' => IdsFit
         /\ \A n \in DOMAIN nets' : nets'[n].on => (n \in DOMAIN nets /\ nets[n].on) \/ n \in Id8
         /\ \A n \in DOMAIN nets : n \in DOMAIN nets' \/ Removal(requests[1], n)
         /\ \E a : Took(a) /\ (a.kind = "id" => a.id \in DOMAIN nets' /\ a.id \notin DOMAIN nets)
  <1>r. Reply("OK").kind # "id" /\ Reply("FAIL").kind # "id" /\ Reply("PONG").kind # "id"
    BY ReplyIs
  <1>s. ASSUME nets' = nets
        PROVE  /\ IdsFit' => IdsFit
               /\ \A n \in DOMAIN nets' : nets'[n].on => (n \in DOMAIN nets /\ nets[n].on) \/ n \in Id8
               /\ \A n \in DOMAIN nets : n \in DOMAIN nets' \/ Removal(requests[1], n)
    BY <1>s, Zenon DEF IdsFit
  <1>1. CASE ServeAdd
    <2>1. CASE nets' = nets /\ Took(Reply("FAIL"))
      BY <1>r, <1>s, <2>1
    <2>2. CASE NewNetAdded /\ Took([kind |-> "id", id |-> NewId])
      <3>1. /\ DOMAIN nets' = DOMAIN nets \cup {NewId} /\ nets'[NewId].on = FALSE
            /\ \A n \in DOMAIN nets : nets'[n] = nets[n]
            /\ NewId \notin DOMAIN nets
        BY <2>2, NetAddedIs, NewNetIs, NewIdIsNew
      <3>2. [kind |-> "id", id |-> NewId].id = NewId
        OBVIOUS
      <3>3. IdsFit' => IdsFit
        BY <3>1 DEF IdsFit
      <3>4. \A n \in DOMAIN nets' : nets'[n].on => n \in DOMAIN nets /\ nets[n].on
        <4> TAKE n \in DOMAIN nets'
        <4>1. n \in DOMAIN nets \/ n = NewId
          BY <3>1
        <4> QED
          BY <3>1, <4>1, Zenon
      <3>5. \A n \in DOMAIN nets : n \in DOMAIN nets'
        BY <3>1
      <3>6. NewId \in DOMAIN nets'
        BY <3>1
      <3> QED
        BY <2>2, <3>1, <3>2, <3>3, <3>4, <3>5, <3>6, Zenon
    <2> QED
      BY <1>1, <2>1, <2>2, ServeAddIs
  <1>2. CASE ServeSet
    <2>1. CASE nets' = nets /\ Took(Reply("FAIL"))
      BY <1>r, <1>s, <2>1
    <2>2. CASE /\ requests[1].id \in DOMAIN nets /\ Took(Reply("OK"))
               /\ nets' = [nets EXCEPT ![requests[1].id].cfg[requests[1].field] = requests[1].val]
      <3>1. requests[1] \in Request
        BY <2>2, TookIs
      <3>2. /\ DOMAIN nets' = DOMAIN nets
            /\ \A n \in DOMAIN nets : nets'[n].on = nets[n].on
        BY <2>2, <3>1, NetsParts, SetEdits
      <3> QED
        BY <1>r, <2>2, <3>2, Zenon DEF IdsFit
    <2> QED
      BY <1>2, <2>1, <2>2, ServeSetIs
  <1>3. CASE ServeSwitch
    <2>1. CASE nets' = nets /\ Took(Reply("FAIL"))
      BY <1>r, <1>s, <2>1
    <2>2. CASE /\ requests[1].id \in DOMAIN nets /\ Took(Reply("OK"))
               /\ nets' = Switched(requests[1])
      <3>1. requests[1] \in Request /\ requests[1].id \in Id8
        BY <2>2, TookIs DEF Request
      <3>2. requests[1].cmd \in {"ENABLE_NETWORK", "SELECT_NETWORK", "DISABLE_NETWORK", "REMOVE_NETWORK"}
        BY <1>3, ServeSwitchIs
      <3>3. /\ DOMAIN nets' = IF requests[1].cmd = "REMOVE_NETWORK"
                                THEN DOMAIN nets \ {requests[1].id} ELSE DOMAIN nets
            /\ \A n \in DOMAIN nets' : nets'[n].on => nets[n].on \/ n = requests[1].id
        BY <2>2, <3>1, <3>2, SwitchedIs
      <3>4. DOMAIN nets' \subseteq DOMAIN nets /\ DOMAIN nets \subseteq DOMAIN nets' \cup {requests[1].id}
        BY <3>3
      <3>5. IdsFit' => IdsFit
        BY <3>1, <3>4 DEF IdsFit
      <3>6. \A n \in DOMAIN nets' : nets'[n].on => (n \in DOMAIN nets /\ nets[n].on) \/ n \in Id8
        BY <3>1, <3>3, <3>4, Zenon
      <3>7. \A n \in DOMAIN nets : n \in DOMAIN nets' \/ Removal(requests[1], n)
        BY <3>3 DEF Removal
      <3> QED
        BY <1>r, <2>2, <3>5, <3>6, <3>7, Zenon
    <2> QED
      BY <1>3, <2>1, <2>2, ServeSwitchIs
  <1>4. CASE ServeQuery
    <2>1. nets' = nets /\ \E a : Took(a) /\ a.kind # "id"
      <3>1. PICK s : s = [kind |-> "status", id |-> conn]
        OBVIOUS
      <3>2. s.kind # "id" /\ Reply("PONG").kind # "id" /\ Reply("OK").kind # "id"
        BY <1>r, <3>1
      <3> QED
        BY <1>4, <3>1, <3>2, ServeQueryIs, Zenon
    <2> QED
      BY <1>s, <2>1, Zenon
  <1> QED
    BY <1>1, <1>2, <1>3, <1>4

\* What a step leaves of the networks that fit.
LEMMA IdsFitBack ==
  ASSUME SocketInv, [Next]_vars, IdsFit'
  PROVE  IdsFit
  <1>0. SocketOK /\ NetsOK /\ ClientOK
    BY SocketParts
  <1>1. CASE ServeAdd \/ ServeSet \/ ServeSwitch \/ ServeQuery
    BY <1>0, <1>1, ServedNets
  <1>2. CASE ~(ServeAdd \/ ServeSet \/ ServeSwitch \/ ServeQuery)
    <2>1. nets' = nets
      BY <1>2, Zenon DEF Next, Open, Close, FreshSocket, CallClosed, StartCall, NextRequest, Drain, Send,
                  SendFails, Receive, Timeout, Roam, vars, svars
    <2> QED
      BY <2>1 DEF IdsFit
  <1> QED
    BY <1>1, <1>2

\* A reply that names a network was there before or names a new one.
LEMMA RepliesAre ==
  ASSUME SocketInv, [Next]_vars, NEW i \in 1 .. Len(inbox'), inbox'[i].kind = "id"
  PROVE  \/ \E j \in 1 .. Len(inbox) : inbox'[i] = inbox[j]
         \/ inbox'[i].id \in DOMAIN nets' /\ inbox'[i].id \notin DOMAIN nets
  <1>0. SocketOK /\ NetsOK /\ ClientOK
    BY SocketParts
  <1>1. CASE ServeAdd \/ ServeSet \/ ServeSwitch \/ ServeQuery
    <2>1. PICK a : Took(a) /\ (a.kind = "id" => a.id \in DOMAIN nets' /\ a.id \notin DOMAIN nets)
      BY <1>0, <1>1, ServedNets
    <2>2. /\ Len(inbox) \in Nat
          /\ \A j \in 1 .. Len(inbox) : inbox'[j] = inbox[j]
          /\ requests[1].live => Len(inbox') = Len(inbox) + 1 /\ inbox'[Len(inbox) + 1] = a
          /\ ~requests[1].live => inbox' = inbox
      BY <1>0, <2>1, TookIs
    <2>3. \A n \in Nat : \A j \in 1 .. n + 1 : j \in 1 .. n \/ j = n + 1
      OBVIOUS
    <2>4. i \in 1 .. Len(inbox) \/ inbox'[i] = a
      BY <2>2, <2>3, Zenon
    <2> QED
      BY <2>1, <2>2, <2>4, Zenon
  <1>2. CASE Open \/ Close
    <2>1. inbox' = << >>
      BY <1>2 DEF Open, Close, FreshSocket
    <2> QED
      BY <2>1
  <1>3. CASE Drain \/ Receive
    <2>1. inbox' = inbox \/ (Len(inbox) > 0 /\ inbox' = Tail(inbox))
      BY <1>0, <1>3, DrainIs, ReceiveIs
    <2>2. CASE inbox' = inbox
      BY <2>2
    <2>3. CASE Len(inbox) > 0 /\ inbox' = Tail(inbox)
      <3>1. Len(inbox) \in Nat /\ Len(inbox') = Len(inbox) - 1 /\ \A j \in 1 .. Len(inbox) - 1 : inbox'[j] = inbox[j + 1]
        BY <1>0, <2>3, TailIs DEF SocketOK
      <3>2. i \in 1 .. Len(inbox) - 1 /\ i + 1 \in 1 .. Len(inbox)
        BY <3>1
      <3> QED
        BY <3>1, <3>2, Zenon
    <2> QED
      BY <2>1, <2>2, <2>3
  <1>4. CASE ~(Open \/ Close \/ Drain \/ Receive \/ ServeAdd \/ ServeSet \/ ServeSwitch \/ ServeQuery)
    <2>1. inbox' = inbox
      BY <1>4, Zenon DEF Next, CallClosed, StartCall, NextRequest, Send, SendFails, Timeout, Roam, vars, svars
    <2> QED
      BY <2>1
  <1> QED
    BY <1>1, <1>2, <1>3, <1>4

\* A request was there before or is the one that is sent.
LEMMA RequestsAre ==
  ASSUME SocketInv, [Next]_vars, NEW i \in 1 .. Len(requests')
  PROVE  \/ \E j \in 1 .. Len(requests) :
              requests'[i].cmd = requests[j].cmd /\ requests'[i].id = requests[j].id
         \/ Send /\ requests'[i] = Own
  <1>0. SocketOK /\ NetsOK /\ ClientOK /\ PhaseInv /\ Len(requests) \in Nat
    BY SocketParts DEF SocketOK
  <1>1. CASE ServeAdd \/ ServeSet \/ ServeSwitch \/ ServeQuery
    <2>1. PICK a : Took(a)
      BY <1>0, <1>1, ServedNets
    <2>2. Len(requests') = Len(requests) - 1
          /\ \A j \in 1 .. Len(requests) - 1 : requests'[j] = requests[j + 1]
      BY <1>0, <2>1, TookIs
    <2>3. i \in 1 .. Len(requests) - 1 /\ i + 1 \in 1 .. Len(requests)
      BY <1>0, <2>2
    <2> QED
      BY <2>2, <2>3, Zenon
  <1>2. CASE Open \/ Close
    <2>1. requests' = Dead(requests)
      BY <1>2 DEF Open, Close, FreshSocket
    <2> QED
      BY <1>0, <2>1, DeadIs, Zenon
  <1>3. CASE Send
    <2>1. requests' = Append(requests, Own) /\ at # 0
      BY <1>0, <1>3, SendIs DEF PhaseInv
    <2>2. Len(requests') = Len(requests) + 1 /\ requests'[Len(requests) + 1] = Own
          /\ \A j \in 1 .. Len(requests) : requests'[j] = requests[j]
      BY <1>0, <2>1, OwnIs, AppendIs DEF SocketOK
    <2>3. i \in 1 .. Len(requests) \/ i = Len(requests) + 1
      BY <1>0, <2>2
    <2> QED
      BY <1>3, <2>2, <2>3, Zenon
  <1>4. CASE ~(Open \/ Close \/ Send \/ ServeAdd \/ ServeSet \/ ServeSwitch \/ ServeQuery)
    <2>1. requests' = requests
      BY <1>4, Zenon DEF Next, CallClosed, StartCall, NextRequest, Drain, SendFails, Receive, Timeout, Roam,
                  vars, svars
    <2> QED
      BY <2>1
  <1> QED
    BY <1>1, <1>2, <1>3, <1>4

LEMMA IdsStep ==
  ASSUME SocketInv, IdsInv, [Next]_vars
  PROVE  IdsInv'
  <1>0. SocketOK /\ NetsOK
    BY SocketParts
  <1>1. \A n \in DOMAIN nets' : nets'[n].on => n \in Id8
    <2>1. CASE ServeAdd \/ ServeSet \/ ServeSwitch \/ ServeQuery
      BY <1>0, <2>1, ServedNets, Zenon DEF IdsInv
    <2>2. CASE ~(ServeAdd \/ ServeSet \/ ServeSwitch \/ ServeQuery)
      <3>1. nets' = nets
        BY <2>2, Zenon DEF Next, Open, Close, FreshSocket, CallClosed, StartCall, NextRequest, Drain, Send,
                    SendFails, Receive, Timeout, Roam, vars, svars
      <3> QED
        BY <3>1 DEF IdsInv
    <2> QED
      BY <2>1, <2>2
  <1>2. ASSUME IdsFit', NEW i \in 1 .. Len(inbox'), inbox'[i].kind = "id"
        PROVE  inbox'[i].id \in Id8
    <2>1. IdsFit
      BY <1>2, IdsFitBack
    <2>2. CASE \E j \in 1 .. Len(inbox) : inbox'[i] = inbox[j]
      BY <1>2, <2>1, <2>2, Zenon DEF IdsInv
    <2>3. CASE inbox'[i].id \in DOMAIN nets'
      BY <1>2, <2>3 DEF IdsFit
    <2> QED
      BY <1>2, <2>2, <2>3, RepliesAre
  <1> QED
    BY <1>1, <1>2, Zenon DEF IdsInv

\* An id is given out by an add that has returned.
LEMMA OwnedGrows ==
  ASSUME SocketInv, [Next]_vars, NEW o \in owned', o \notin owned
  PROVE  o = id' /\ call'.op = "add" /\ at' = 0 /\ ret' /\ late' <= 1
  <1>0. SocketOK /\ NetsOK /\ ClientOK /\ PhaseInv /\ QueueInv
    BY SocketParts
  <1>1. ASSUME NEW good \in BOOLEAN, Proceed(good)
        PROVE  good /\ call.op = "add" /\ late <= 1 /\ o = id' /\ at' = 0 /\ ret' = Verdict(good)
    <2>1. owned' # owned
      OBVIOUS
    <2>2. ~(at < Len(Steps(call)) /\ (good \/ call.op = "remove_all"))
      BY <1>1, <2>1, Zenon DEF Proceed
    <2>3. /\ at' = 0 /\ ret' = Verdict(good)
          /\ owned' = IF call.op = "add" /\ good /\ late <= 1 THEN owned \cup {id'} ELSE owned
      BY <1>1, <2>2, Zenon DEF Proceed
    <2>4. call.op = "add" /\ good /\ late <= 1
      BY <2>1, <2>3, Zenon
    <2>5. owned' = owned \cup {id'}
      BY <2>3, <2>4, Zenon
    <2>6. o = id'
      BY <2>5
    <2> QED
      BY <2>3, <2>4, <2>6, Zenon
  <1>2. CASE Receive
    <2>1. Proceed(Wanted(inbox[1])) /\ call' = call /\ late' = late
      BY <1>0, <1>2, ReceiveIs
    <2>2. Wanted(inbox[1]) /\ call.op = "add" /\ late <= 1 /\ o = id' /\ at' = 0 /\ ret' = Verdict(Wanted(inbox[1]))
      BY <2>1, <1>1, WantedType
    <2>3. call.op # "remove_all" /\ call.op # "disconnect"
      BY <2>2
    <2>4. ret'
      BY <2>2, <2>3, Zenon DEF Verdict
    <2> QED
      BY <2>1, <2>2, <2>4, Zenon
  <1>3. CASE SendFails \/ Timeout
    <2>1. Proceed(FALSE)
      BY <1>0, <1>3, SendFailsIs, TimeoutIs
    <2> QED
      BY <1>1, <2>1, Zenon
  <1>4. CASE Open \/ Close \/ NextRequest \/ Drain \/ Send \/ ServeAdd \/ ServeSet \/ ServeSwitch \/ ServeQuery
              \/ Roam \/ UNCHANGED vars \/ \E c \in Call : CallClosed(c)
    <2>1. owned' = owned
      BY <1>4, Zenon DEF Open, Close, FreshSocket, NextRequest, Drain, Send, ServeAdd, ServeSet, ServeSwitch,
                         ServeQuery, Roam, CallClosed, client, vars, svars, hvars
    <2> QED
      BY <2>1
  <1>5. ASSUME NEW c \in Call, StartCall(c)
        PROVE  FALSE
    <2>1. CASE c.op = "remove"
      BY <1>5, <2>1 DEF StartCall
    <2>2. CASE c.op = "remove_all"
      BY <1>5, <2>2 DEF StartCall
    <2>3. CASE c.op # "remove" /\ c.op # "remove_all"
      BY <1>5, <2>3 DEF StartCall
    <2> QED
      BY <2>1, <2>2, <2>3
  <1> QED
    BY <1>2, <1>3, <1>4, <1>5, Zenon DEF Next

LEMMA ApartAtRest ==
  ASSUME at' = 0, NEW o
  PROVE  Apart(o)'
  BY DEF Apart

LEMMA ApartReceive ==
  ASSUME SocketInv, IdsInv, Receive, IdsFit, NEW o, Apart(o),
         \A i \in 1 .. Len(inbox) : inbox[i].kind = "id" => inbox[i].id # o
  PROVE  Apart(o)'
  <1>0. SocketOK /\ ClientOK /\ PhaseInv
    BY SocketParts
  <1>1. /\ call' = call /\ phase = "wait" /\ Len(inbox) > 0 /\ inbox[1] \in Answered
        /\ id' = IF Steps(call)[at].cmd \in {"ADD_NETWORK", "STATUS"} /\ Wanted(inbox[1])
                   THEN inbox[1].id % IdRange ELSE id
        /\ Proceed(Wanted(inbox[1])) /\ Len(inbox) \in Nat
    BY <1>0, ReceiveIs DEF SocketOK
  <1>2. at # 0 /\ at \in Nat /\ at \in 1 .. Len(Steps(call))
    BY <1>0, <1>1, StepHere DEF PhaseInv
  <1>3. call.op # "remove_all"
    BY <1>2 DEF Apart
  <1>4. CASE call.op = "add"
    <2>1. /\ at = 1 => Steps(call)[at].cmd = "ADD_NETWORK" /\ Wanted(inbox[1]) = (inbox[1].kind = "id")
          /\ at >= 2 => Steps(call)[at].cmd = "SET_NETWORK"
      BY <1>0, <1>4, AddHere
    <2>2. ~Wanted(inbox[1]) => at' = 0
      BY <1>0, <1>1, <1>2, <1>4, WantedType, AddProceeds
    <2>3. CASE at = 1 /\ Wanted(inbox[1])
      <3>1. inbox[1].kind = "id" /\ Steps(call)[at].cmd = "ADD_NETWORK"
        BY <2>1, <2>3, Zenon
      <3>2. 1 \in 1 .. Len(inbox)
        BY <1>1
      <3>3. inbox[1].id \in Id8 /\ inbox[1].id # o
        BY <3>1, <3>2, Zenon DEF IdsInv
      <3>4. id' = inbox[1].id % IdRange
        BY <1>1, <2>3, <3>1, Zenon
      <3>5. inbox[1].id \in NetId \cup {NoId}
        BY <1>1 DEF Answered
      <3>6. id' # o
        BY <3>3, <3>4, <3>5, ModIs
      <3> QED
        BY <1>1, <1>4, <3>6, Zenon DEF Apart
    <2>4. CASE at >= 2
      <3>1. id' = id /\ id # o
        BY <1>1, <1>4, <2>1, <2>4 DEF Apart
      <3> QED
        BY <1>1, <1>4, <3>1, Zenon DEF Apart
    <2>5. CASE ~Wanted(inbox[1])
      BY <2>2, <2>5, ApartAtRest
    <2> QED
      BY <1>2, <2>3, <2>4, <2>5
  <1>5. CASE call.op = "remove"
    <2>1. at \in 1 .. 2 /\ Steps(call) = RemoveSteps
      BY <1>0, <1>2, <1>5, StepsAre, FewSteps DEF ClientOK
    <2>2. Steps(call)[at].cmd \in {"DISABLE_NETWORK", "REMOVE_NETWORK"}
      <3>1. at = 1 \/ at = 2
        BY <2>1
      <3> QED
        BY <2>1, <3>1, FewSteps
    <2>3. id' = id
      BY <1>1, <2>2
    <2>4. id # o
      BY <1>2, <1>5 DEF Apart
    <2> QED
      BY <1>1, <1>5, <2>3, <2>4, Zenon DEF Apart
  <1>6. CASE call.op # "add" /\ call.op # "remove"
    BY <1>1, <1>3, <1>6, Zenon DEF Apart
  <1> QED
    BY <1>4, <1>5, <1>6

LEMMA ApartStep ==
  ASSUME SocketInv, IdsInv, [Next]_vars, IdsFit, NEW o, o \in owned, o \in owned', Apart(o),
         \A i \in 1 .. Len(inbox) : inbox[i].kind = "id" => inbox[i].id # o
  PROVE  Apart(o)'
  <1>0. SocketOK /\ NetsOK /\ ClientOK /\ PhaseInv /\ QueueInv
    BY SocketParts
  <1>1. CASE Open \/ Close \/ \E c \in Call : CallClosed(c)
    <2>1. at' = 0
      BY <1>0, <1>1, Zenon DEF Open, Close, FreshSocket, CallClosed, ClientOK
    <2> QED
      BY <2>1, ApartAtRest
  <1>2. ASSUME NEW c \in Call, StartCall(c)
        PROVE  Apart(o)'
    <2>1. call' = c /\ at' = 1 /\ ~(1 >= 2)
      BY <1>2 DEF StartCall
    <2>2. CASE c.op = "remove"
      <3>1. "id" \in DOMAIN c
        BY <2>2 DEF Call, AnyCall
      <3>2. id' = c.id /\ owned' = owned \ {c.id}
        BY <1>2, <2>2, <3>1 DEF StartCall
      <3>3. id' # o
        BY <3>2
      <3> QED
        BY <2>1, <2>2, <3>3 DEF Apart
    <2>3. CASE c.op = "remove_all"
      BY <1>2, <2>3 DEF StartCall
    <2>4. CASE c.op # "remove" /\ c.op # "remove_all"
      BY <2>1, <2>4 DEF Apart
    <2> QED
      BY <2>2, <2>3, <2>4
  <1>3. CASE SendFails \/ Timeout
    <2>1. Proceed(FALSE) /\ call' = call /\ at # 0
      BY <1>0, <1>3, SendFailsIs, TimeoutIs DEF PhaseInv
    <2>2. call.op # "remove_all"
      BY <2>1 DEF Apart
    <2>3. at' = 0
      BY <2>1, <2>2, Zenon DEF Proceed
    <2> QED
      BY <2>3, ApartAtRest
  <1>4. CASE Receive
    BY <1>4, ApartReceive
  <1>5. CASE NextRequest \/ Drain \/ Send \/ ServeAdd \/ ServeSet \/ ServeSwitch \/ ServeQuery \/ Roam
              \/ UNCHANGED vars
    <2>1. UNCHANGED << call, at, id >>
      BY <1>5 DEF NextRequest, Drain, Send, ServeAdd, ServeSet, ServeSwitch, ServeQuery, Roam, client, vars
    <2> QED
      BY <2>1 DEF Apart
  <1> QED
    BY <1>1, <1>2, <1>3, <1>4, <1>5, Zenon DEF Next

\* No request removes what the caller owns.
LEMMA SendOwned ==
  ASSUME SocketInv, Send, NEW o, Apart(o)
  PROVE  ~Removal(Own, o)
  <1>0. ClientOK /\ at # 0
    BY SocketParts, SendIs DEF PhaseInv
  <1>1. Own.cmd = Steps(call)[at].cmd /\ Own.id = CmdId /\ at \in 1 .. Len(Steps(call)) /\ call \in AnyCall
    BY <1>0, OwnIs, StepHere DEF ClientOK
  <1>2. call.op # "remove_all"
    BY <1>0 DEF Apart
  <1> SUFFICES ASSUME Own.cmd = "REMOVE_NETWORK", Own.id = o PROVE FALSE
    BY DEF Removal
  <1>3. call.op = "remove"
    BY <1>1, <1>2, RemoversAre
  <1>4. id # o
    BY <1>1, <1>3 DEF Apart
  <1> QED
    BY <1>1, <1>2, <1>4 DEF CmdId

LEMMA OwnedStep ==
  ASSUME AddsInv, AddsInv', IdsInv, OwnedInv, [Next]_vars
  PROVE  OwnedInv'
  <1>0. SocketInv /\ SocketOK /\ NetsOK /\ ClientOK
    BY SocketParts DEF AddsInv
  <1> SUFFICES ASSUME IdsFit', NEW o \in owned'
               PROVE  /\ o \in DOMAIN nets'
                      /\ \A i \in 1 .. Len(requests') : ~Removal(requests'[i], o)
                      /\ \A i \in 1 .. Len(inbox') : inbox'[i].kind = "id" => inbox'[i].id # o
                      /\ Apart(o)'
    BY Zenon DEF OwnedInv, Removal
  <1>1. IdsFit
    BY <1>0, IdsFitBack
  <1>2. CASE o \in owned
    <2>1. /\ o \in DOMAIN nets
          /\ \A i \in 1 .. Len(requests) : ~Removal(requests[i], o)
          /\ \A i \in 1 .. Len(inbox) : inbox[i].kind = "id" => inbox[i].id # o
          /\ Apart(o)
      BY <1>1, <1>2, Zenon DEF OwnedInv
    <2>2. o \in DOMAIN nets'
      <3>1. CASE ServeAdd \/ ServeSet \/ ServeSwitch \/ ServeQuery
        <4>1. PICK a : Took(a)
          BY <1>0, <3>1, ServedNets
        <4>2. 1 \in 1 .. Len(requests)
          BY <1>0, <4>1, TookIs
        <4> QED
          BY <1>0, <2>1, <3>1, <4>2, ServedNets, Zenon
      <3>2. CASE ~(ServeAdd \/ ServeSet \/ ServeSwitch \/ ServeQuery)
        <4>1. nets' = nets
          BY <3>2, Zenon DEF Next, Open, Close, FreshSocket, CallClosed, StartCall, NextRequest, Drain, Send,
                      SendFails, Receive, Timeout, Roam, vars, svars
        <4> QED
          BY <2>1, <4>1
      <3> QED
        BY <3>1, <3>2
    <2>3. ASSUME NEW i \in 1 .. Len(requests')
          PROVE  ~Removal(requests'[i], o)
      <3>1. CASE \E j \in 1 .. Len(requests) :
                   requests'[i].cmd = requests[j].cmd /\ requests'[i].id = requests[j].id
        BY <2>1, <3>1, Zenon DEF Removal
      <3>2. CASE Send /\ requests'[i] = Own
        BY <1>0, <2>1, <3>2, SendOwned
      <3> QED
        BY <1>0, <3>1, <3>2, RequestsAre
    <2>4. ASSUME NEW i \in 1 .. Len(inbox'), inbox'[i].kind = "id"
          PROVE  inbox'[i].id # o
      <3>1. CASE \E j \in 1 .. Len(inbox) : inbox'[i] = inbox[j]
        BY <2>1, <2>4, <3>1, Zenon
      <3>2. CASE inbox'[i].id \notin DOMAIN nets
        BY <2>1, <3>2, Zenon
      <3> QED
        BY <1>0, <2>4, <3>1, <3>2, RepliesAre
    <2>5. Apart(o)'
      BY <1>0, <1>1, <1>2, <2>1, ApartStep
    <2> QED
      BY <2>2, <2>3, <2>4, <2>5, Zenon
  <1>3. CASE o \notin owned
    <2>1. o = id' /\ call'.op = "add" /\ at' = 0 /\ ret' /\ late' <= 1
      BY <1>0, <1>3, OwnedGrows
    <2>2. Quiet' /\ Made(Len(Steps(call)))'
      BY <2>1 DEF AddsInv, AddInv
    <2>3. id' \in DOMAIN nets'
      BY <2>2, Zenon DEF Made
    <2>4. Len(requests') = 0 /\ Len(inbox') = 0 /\ 1 .. 0 = {}
      BY <2>2 DEF Quiet
    <2>5. Apart(o)'
      BY <2>1, ApartAtRest
    <2> QED
      BY <2>1, <2>3, <2>4, <2>5, Zenon
  <1> QED
    BY <1>2, <1>3

IdsAndOwned == AddsInv /\ IdsInv /\ OwnedInv

\* No id is given to the caller twice unless it removed it, when the first
\* time there was at most one late answer in the session (405-411).
THEOREM IdsGivenOnce == Spec => OwnedOnce
  <1>1. Init => IdsAndOwned
    BY SocketInit, AddInit DEF IdsAndOwned, AddsInv, IdsInv, OwnedInv, Init
  <1>2. IdsAndOwned /\ [Next]_vars => IdsAndOwned'
    <2>1. AddsInv /\ [Next]_vars => AddsInv'
      BY SocketStep, FreshStep, AddStep DEF AddsInv
    <2>2. AddsInv => SocketInv
      BY DEF AddsInv
    <2> QED
      BY <2>1, <2>2, IdsStep, OwnedStep DEF IdsAndOwned
  <1>3. IdsAndOwned /\ [Next]_vars => [Returned("add")' /\ at # 0 /\ IdsFit => id' \notin owned]_vars
    <2> SUFFICES ASSUME IdsAndOwned, [Next]_vars, Returned("add")', at # 0, IdsFit
                 PROVE  id' \notin owned
      BY Zenon
    <2>0. SocketInv /\ SocketOK /\ NetsOK /\ ClientOK /\ PhaseInv /\ QueueInv
      BY SocketParts DEF IdsAndOwned, AddsInv
    <2>1. at' = 0 /\ call'.op = "add" /\ ret'
      BY DEF Returned
    <2>2. ASSUME Proceed(FALSE), call' = call
          PROVE  FALSE
      BY <2>0, <2>1, <2>2, AddProceeds, Zenon
    <2>3. CASE Receive
      <3>1. /\ call' = call /\ Proceed(Wanted(inbox[1]))
            /\ id' = IF Steps(call)[at].cmd \in {"ADD_NETWORK", "STATUS"} /\ Wanted(inbox[1])
                       THEN inbox[1].id % IdRange ELSE id
        BY <2>0, <2>3, ReceiveIs
      <3>2. call.op = "add"
        BY <2>1, <3>1
      <3>3. Wanted(inbox[1]) /\ ~(at < Len(Steps(call)))
        <4>1. /\ Wanted(inbox[1]) /\ at < Len(Steps(call)) => at' = at + 1
              /\ ~Wanted(inbox[1]) => ret' = FALSE
          BY <2>0, <3>1, <3>2, WantedType, AddProceeds
        <4>2. at \in Nat /\ at + 1 # 0
          BY <2>0, StepHere
        <4> QED
          BY <2>1, <4>1, <4>2, Zenon
      <3>4. at >= 2 /\ Steps(call)[at].cmd = "SET_NETWORK"
        <4>1. Len(Steps(call)) \in 5 .. 7 /\ at \in Nat
          BY <2>0, <3>2, AddHere
        <4>2. \A n \in 5 .. 7 : \A i \in Nat : ~(i < n) => i >= 2
          OBVIOUS
        <4>3. at >= 2
          BY <3>3, <4>1, <4>2, Zenon
        <4> QED
          BY <2>0, <3>2, <4>3, AddHere
      <3>5. id' = id
        BY <3>1, <3>4
      <3> QED
        BY <3>2, <3>4, <3>5, Zenon DEF IdsAndOwned, OwnedInv, Apart
    <2>4. CASE SendFails \/ Timeout
      <3>1. Proceed(FALSE) /\ call' = call
        BY <2>0, <2>4, SendFailsIs, TimeoutIs
      <3> QED
        BY <2>2, <3>1
    <2>5. CASE Open \/ Close \/ \E c \in Call : CallClosed(c)
      BY <2>0, <2>5, Zenon DEF Open, Close, CallClosed, ClientOK
    <2>6. CASE \/ NextRequest \/ Drain \/ Send \/ ServeAdd \/ ServeSet \/ ServeSwitch \/ ServeQuery \/ Roam
               \/ UNCHANGED vars
      <3>1. at' = at
        BY <2>6 DEF NextRequest, Drain, Send, ServeAdd, ServeSet, ServeSwitch, ServeQuery, Roam, client, vars
      <3> QED
        BY <2>1, <3>1
    <2>7. CASE \E c \in Call : StartCall(c)
      BY <2>1, <2>7 DEF StartCall
    <2> QED
      BY <2>3, <2>4, <2>5, <2>6, <2>7, Zenon DEF Next
  <1> QED
    BY <1>1, <1>2, <1>3, PTL DEF Spec, OwnedOnce

----------------------------------------------------------------------------
(* station_disconnect.                                                     *)

\* The connection changes to or from none, and a disconnect sees it.
LEMMA ConnStep ==
  ASSUME SocketOK, NetsOK, ServeAdd \/ ServeSet \/ ServeSwitch \/ ServeQuery \/ Roam
  PROVE  /\ seen \subseteq seen' /\ seen' \subseteq seen \cup {conn'}
         /\ conn' = conn \/ conn' = NoId \/ conn = NoId
         /\ call.op = "disconnect" /\ at # 0 => conn' = conn \/ conn' \in seen'
  <1>1. CASE UNCHANGED << conn, seen >>
    BY <1>1
  <1>2. ASSUME NEW c, Connected(c), c = conn \/ c = NoId \/ conn = NoId
        PROVE  /\ seen \subseteq seen' /\ seen' \subseteq seen \cup {conn'}
               /\ conn' = conn \/ conn' = NoId \/ conn = NoId
               /\ call.op = "disconnect" /\ at # 0 => conn' = conn \/ conn' \in seen'
    BY <1>2, ConnectedIs
  <1>3. CASE ServeSwitch
    <2>1. UNCHANGED << conn, seen >> \/ \E c : Connected(c) /\ (c = conn \/ c = NoId)
      BY <1>3, ServeSwitchIs
    <2> QED
      BY <1>1, <1>2, <2>1
  <1>4. CASE Roam
    <2>1. \E c : Connected(c) /\ (c = NoId \/ conn = NoId)
      BY <1>4, RoamIs
    <2> QED
      BY <1>2, <2>1
  <1> QED
    BY <1>1, <1>3, <1>4, ServeAddIs, ServeSetIs, ServeQueryIs

LEMMA ConnIds ==
  ASSUME NetsOK, IdsInv
  PROVE  conn \in Id8 \cup {NoId}
  BY DEF NetsOK, IdsInv

LEMMA SeenStep ==
  ASSUME SocketInv, SocketInv', IdsInv, IdsInv', SeenInv, [Next]_vars
  PROVE  SeenInv'
  <1>0. SocketOK /\ NetsOK /\ ClientOK /\ QueueInv /\ NetsOK'
    BY SocketParts, TypeParts DEF SocketInv
  <1>1. conn \in Id8 \cup {NoId} /\ conn' \in Id8 \cup {NoId}
    <2>1. conn' \in Id8 \cup {NoId}
      BY <1>0 DEF NetsOK, IdsInv
    <2> QED
      BY <1>0, <2>1, ConnIds
  <1>2. CASE ServeAdd \/ ServeSet \/ ServeSwitch \/ ServeQuery \/ Roam
    BY <1>0, <1>1, <1>2, ConnStep DEF SeenInv
  <1>3. CASE Open \/ Close
    <2>1. seen' = {}
      BY <1>3, Zenon DEF Open, Close, FreshSocket, NoCallYet
    <2> QED
      BY <2>1 DEF SeenInv
  <1>4. CASE \E c \in Call : StartCall(c)
    <2>1. seen' = {conn} \/ seen' = {}
      BY <1>4, Zenon DEF StartCall
    <2> QED
      BY <1>1, <2>1 DEF SeenInv
  <1>5. CASE \/ \E c \in Call : CallClosed(c)
             \/ NextRequest \/ Drain \/ Send \/ SendFails \/ Receive \/ Timeout \/ UNCHANGED vars
    <2>1. seen' = seen
      BY <1>5, Zenon DEF CallClosed, NextRequest, Drain, Send, SendFails, Receive, Timeout, vars
    <2> QED
      BY <2>1 DEF SeenInv
  <1> QED
    BY <1>2, <1>3, <1>4, <1>5, Zenon DEF Next

LEMMA DisconnectHere ==
  ASSUME ClientOK, call.op = "disconnect"
  PROVE  /\ Len(Steps(call)) = 2 /\ at \in 0 .. 2
         /\ Steps(call)[1].cmd = "STATUS" /\ Steps(call)[2].cmd = "DISABLE_NETWORK"
         /\ at = 1 => \A r : Wanted(r) = IsConnected(r)
         /\ at = 2 => \A r : Wanted(r) = TRUE
  <1>1. Steps(call) = DisconnectSteps
    BY StepsAre DEF ClientOK
  <1>2. Len(Steps(call)) = 2 /\ Steps(call)[1].cmd = "STATUS" /\ Steps(call)[2].cmd = "DISABLE_NETWORK"
    BY <1>1, FewSteps
  <1>3. at \in 0 .. 2
    BY <1>2 DEF ClientOK
  <1>4. at = 1 => \A r : Wanted(r) = IsConnected(r)
    BY <1>2, Zenon DEF Wanted
  <1>5. at = 2 => \A r : Wanted(r) = TRUE
    BY <1>2 DEF Wanted
  <1> QED
    BY <1>2, <1>3, <1>4, <1>5

\* What is said of a network stays true while the operation is under way.
LEMMA ToldStep ==
  ASSUME SocketOK, NetsOK, ServeAdd \/ ServeSet \/ ServeSwitch \/ ServeQuery \/ Roam,
         call.op = "disconnect", at # 0, NEW c, Told(c)
  PROVE  Told(c)'
  BY ConnStep, Zenon DEF Told

LEMMA SendDisconnect ==
  ASSUME SocketInv, DisconnectInv, Send
  PROVE  DisconnectInv'
  <1>0. SocketOK /\ ClientOK /\ PhaseInv /\ Len(requests) \in Nat
    BY SocketParts DEF SocketOK
  <1>1. /\ UNCHANGED << late, result, conn, seen, call, at, id, ret >> /\ phase' = "wait"
        /\ requests' = Append(requests, Own) /\ at # 0
    BY <1>0, SendIs DEF PhaseInv
  <1>2. /\ Own.live = TRUE /\ Own.cmd = Steps(call)[at].cmd /\ Own.id = CmdId
        /\ Len(requests') = Len(requests) + 1 /\ requests'[Len(requests) + 1] = Own
    BY <1>0, <1>1, OwnIs, AppendIs DEF SocketOK
  <1>3. Len(requests') > 0 /\ Len(requests') # 0 /\ requests'[Len(requests')] = Own
    BY <1>0, <1>2
  <1> SUFFICES ASSUME call.op = "disconnect"
               PROVE  DisconnectInv'
    BY <1>1 DEF DisconnectInv
  <1>4. at = 1 => StatusLast'
    <2> SUFFICES ASSUME at = 1 PROVE StatusLast'
      OBVIOUS
    <2>1. Own.cmd = "STATUS"
      BY <1>0, <1>2, DisconnectHere
    <2> QED
      BY <1>2, <1>3, <2>1, Zenon DEF StatusLast
  <1>5. at = 2 => DisableLast'
    <2> SUFFICES ASSUME at = 2 PROVE DisableLast'
      OBVIOUS
    <2>1. Own.cmd = "DISABLE_NETWORK"
      BY <1>0, <1>2, DisconnectHere
    <2>2. Own.id = id'
      BY <1>1, <1>2 DEF CmdId
    <2> QED
      BY <1>2, <1>3, <2>1, <2>2, Zenon DEF DisableLast
  <1>6. /\ at # 0 => conn \in seen
        /\ late = 0 /\ at = 2 => Told(id)
    BY DEF DisconnectInv
  <1>7. late' = 0 /\ at' = 2 => Told(id)'
    BY <1>1, <1>6 DEF Told
  <1>8. at' # 0 => conn' \in seen'
    BY <1>1, <1>6
  <1> QED
    BY <1>1, <1>3, <1>4, <1>5, <1>7, <1>8, Zenon DEF DisconnectInv

LEMMA ReceiveDisconnect ==
  ASSUME SocketInv, SeenInv, DisconnectInv, Receive
  PROVE  DisconnectInv'
  <1>0. SocketOK /\ ClientOK /\ PhaseInv /\ QueueInv /\ LagBounded /\ NetsOK
    BY SocketParts
  <1>1. /\ UNCHANGED << late, requests, conn, call, seen >> /\ phase = "wait" /\ phase' = "idle"
        /\ Len(inbox) > 0 /\ inbox' = Tail(inbox) /\ at # 0
        /\ id' = IF Steps(call)[at].cmd \in {"ADD_NETWORK", "STATUS"} /\ Wanted(inbox[1])
                   THEN inbox[1].id % IdRange ELSE id
        /\ Proceed(Wanted(inbox[1]))
    BY <1>0, ReceiveIs DEF PhaseInv
  <1> SUFFICES ASSUME call.op = "disconnect"
               PROVE  DisconnectInv'
    BY <1>1 DEF DisconnectInv
  <1>2. conn \in seen
    BY <1>1 DEF DisconnectInv
  <1>3. ASSUME late = 0
        PROVE  Len(requests) = 0
    <2>1. SocketOK'
      BY SocketStep, TypeParts DEF SocketInv, Next
    <2>2. Owed = Len(inbox) + Len(requests) /\ Len(inbox) \in Nat /\ Len(requests) \in Nat
      BY <1>0, <1>1, <2>1, QueueRead DEF SocketOK
    <2>3. Owed <= 0 + 1
      BY <1>0, <1>1, <1>3 DEF LagBounded, Waiting
    <2>4. \A x \in Nat, y \in Nat : x > 0 /\ x + y <= 0 + 1 => y = 0
      OBVIOUS
    <2> QED
      BY <1>1, <2>2, <2>3, <2>4, Zenon
  <1>4. at \in 1 .. 2
    BY <1>0, <1>1, DisconnectHere
  <1>5. CASE at = 1
    <2>0. /\ Wanted(inbox[1]) = IsConnected(inbox[1]) /\ Steps(call)[at].cmd = "STATUS"
          /\ Len(Steps(call)) = 2 /\ call.op # "remove_all" /\ 1 < 2 /\ 1 + 1 = 2
      BY <1>0, <1>5, DisconnectHere
    <2>1. ASSUME late = 0
          PROVE  inbox[1].kind = "status" /\ Told(inbox[1].id)
      <3>1. StatusLast /\ ~(Len(requests) > 0)
        BY <1>1, <1>3, <1>5, <2>1 DEF DisconnectInv
      <3> QED
        BY <3>1, Zenon DEF StatusLast
    <2>2. CASE Wanted(inbox[1])
      <3>1. at' = 2
        BY <1>1, <1>5, <2>0, <2>2, Zenon DEF Proceed
      <3>2. ASSUME late = 0
            PROVE  Told(id)'
        <4>1. inbox[1].id # NoId
          BY <2>0, <2>2, Zenon DEF IsConnected
        <4>2. inbox[1].id \in seen
          BY <2>1, <3>2 DEF Told
        <4>3. inbox[1].id \in Id8 /\ inbox[1].id \in NetId \cup {NoId}
          BY <1>0, <4>1, <4>2 DEF SeenInv, NetsOK
        <4>4. id' = inbox[1].id % IdRange
          BY <1>1, <2>0, <2>2
        <4>5. id' = inbox[1].id
          BY <4>3, <4>4, ModIs
        <4> QED
          BY <1>1, <2>1, <3>2, <4>5 DEF Told
      <3>3. at' # 0
        BY <3>1
      <3> QED
        BY <1>1, <1>2, <3>1, <3>2, <3>3 DEF DisconnectInv
    <2>3. CASE ~Wanted(inbox[1])
      <3>1. at' = 0
        BY <1>1, <2>0, <2>3, Zenon DEF Proceed
      <3>2. ASSUME late = 0
            PROVE  NoId \in seen
        <4>1. inbox[1].id = NoId
          BY <2>0, <2>1, <2>3, <3>2, Zenon DEF IsConnected
        <4> QED
          BY <2>1, <3>2, <4>1 DEF Told
      <3> QED
        BY <1>1, <3>1, <3>2 DEF DisconnectInv
    <2> QED
      BY <2>2, <2>3
  <1>6. CASE at = 2
    <2>1. Len(Steps(call)) = 2
      BY <1>0, DisconnectHere
    <2>2. at' = 0
      <3>1. ~(2 < 2)
        OBVIOUS
      <3> QED
        BY <1>1, <1>6, <2>1, <3>1, Zenon DEF Proceed
    <2>3. late = 0 => NoId \in seen
      BY <1>1, <1>3, <1>6 DEF DisconnectInv
    <2> QED
      BY <1>1, <2>2, <2>3 DEF DisconnectInv
  <1> QED
    BY <1>4, <1>5, <1>6

\* The request that is served was the last one.
LEMMA StatusServed ==
  ASSUME SocketInv, Len(requests) = 1, requests[1].cmd = "STATUS", requests[1].live, Owed <= 1,
         conn \in seen, ServeAdd \/ ServeSet \/ ServeSwitch \/ ServeQuery
  PROVE  StatusLast'
  <1>0. SocketOK /\ NetsOK /\ QueueInv /\ Owed \in Nat /\ Len(inbox) \in Nat
    BY SocketParts
  <1>1. ServeQuery
    BY <1>0, ServeAddIs, ServeSetIs, ServeSwitchIs
  <1>2. PICK a : a = [kind |-> "status", id |-> conn]
    OBVIOUS
  <1>3. a.kind = "status" /\ a.id = conn
    BY <1>2
  <1>4. Took(a) /\ UNCHANGED << conn, seen >>
    BY <1>0, <1>1, <1>2, ServeQueryIs
  <1>5. SocketOK'
    BY <1>0, <1>4, TookIs DEF SocketOK
  <1>6. Len(inbox) < Owed
    BY <1>0, <1>4, <1>5, QueueTook
  <1>7. Len(inbox) = 0
    <2>1. \A x \in Nat, y \in Nat : x < y /\ y <= 1 => x = 0
      OBVIOUS
    <2> QED
      BY <1>0, <1>6, <2>1, Zenon
  <1>8. Len(requests') = 1 - 1 /\ Len(inbox') = 0 + 1 /\ inbox'[0 + 1] = a
    BY <1>0, <1>4, <1>7, TookIs, Zenon
  <1>9. ~(1 - 1 > 0) /\ 0 + 1 = 1
    OBVIOUS
  <1>10. Told(conn)'
    BY <1>4 DEF Told
  <1>11. inbox'[1] = a /\ Len(inbox') = 1 /\ ~(Len(requests') > 0)
    BY <1>8, <1>9, Zenon
  <1>12. Told(inbox[1].id)'
    BY <1>3, <1>4, <1>10, <1>11 DEF Told
  <1> QED
    BY <1>3, <1>11, <1>12, Zenon DEF StatusLast

LEMMA DisableServed ==
  ASSUME SocketInv, Len(requests) = 1, requests[1].cmd = "DISABLE_NETWORK", requests[1].id = id,
         Told(id), call.op = "disconnect", at # 0,
         ServeAdd \/ ServeSet \/ ServeSwitch \/ ServeQuery
  PROVE  NoId \in seen'
  <1>a. SocketOK /\ NetsOK /\ ClientOK
    BY SocketParts
  <1>0. SocketOK /\ NetsOK /\ ClientOK /\ requests[1] \in Request
    <2>1. \A rs \in Seq(Request) : Len(rs) = 1 => rs[1] \in Request
      OBVIOUS
    <2> QED
      BY <1>a, <2>1, Zenon DEF SocketOK
  <1>1. ServeSwitch
    BY <1>0, ServeAddIs, ServeSetIs, ServeQueryIs
  <1>2. seen \subseteq seen' /\ (conn' = conn \/ conn' \in seen')
    BY <1>0, <1>1, ConnStep
  <1>3. CASE NoId \in seen
    BY <1>2, <1>3
  <1>4. CASE conn = id
    <2>1. id # NoId /\ id \in DOMAIN nets
      <3>1. id # NoId
        BY <1>0 DEF ClientOK, Id8, NoId
      <3> QED
        BY <1>0, <1>4, <3>1 DEF NetsOK
    <2>2. /\ nets' = Switched(requests[1])
          /\ Connected(IF conn \in DOMAIN nets' /\ nets'[conn].on THEN conn ELSE NoId)
      BY <1>0, <1>1, <2>1, ServeSwitchIs
    <2>3. ~nets'[id].on
      BY <1>0, <2>1, <2>2, SwitchedIs
    <2>4. Connected(NoId)
      BY <1>4, <2>2, <2>3
    <2> QED
      BY <2>4, ConnectedIs
  <1> QED
    BY <1>3, <1>4 DEF Told

LEMMA ServeDisconnect ==
  ASSUME SocketInv, DisconnectInv, ServeAdd \/ ServeSet \/ ServeSwitch \/ ServeQuery
  PROVE  DisconnectInv'
  <1>0. SocketOK /\ NetsOK /\ ClientOK /\ LagBounded /\ Owed \in Nat
    BY SocketParts
  <1>1. UNCHANGED << phase, late, result, call, at, id, ret >>
    BY <1>0, ServeClient
  <1>2. seen \subseteq seen' /\ (call.op = "disconnect" /\ at # 0 => conn' = conn \/ conn' \in seen')
    BY <1>0, ConnStep
  <1> SUFFICES ASSUME call.op = "disconnect"
               PROVE  DisconnectInv'
    BY <1>1 DEF DisconnectInv
  <1>3. at' # 0 => conn' \in seen'
    BY <1>1, <1>2 DEF DisconnectInv
  <1>4. /\ Len(requests) \in Nat /\ Len(requests) > 0 /\ Len(requests') = Len(requests) - 1
        /\ \A i \in 1 .. Len(requests) - 1 : requests'[i] = requests[i + 1]
    <2>1. \E a : Took(a)
      BY <1>0, ServedNets
    <2> QED
      BY <1>0, <2>1, TookIs
  <1>5. Len(requests) # 1 => Len(requests') > 0 /\ Len(requests') # 0
                              /\ requests'[Len(requests')] = requests[Len(requests)]
    BY <1>4
  <1>6. ASSUME late = 0, at = 1, phase = "wait"
        PROVE  StatusLast'
    <2>1. requests[Len(requests)].cmd = "STATUS" /\ requests[Len(requests)].live
      <3>1. StatusLast
        BY <1>6 DEF DisconnectInv
      <3> QED
        BY <1>4, <3>1, Zenon DEF StatusLast
    <2>2. CASE Len(requests) = 1
      <3>1. Owed <= 1
        BY <1>0, <1>6 DEF LagBounded, Waiting
      <3>2. conn \in seen
        BY <1>6 DEF DisconnectInv
      <3> QED
        BY <2>1, <2>2, <3>1, <3>2, StatusServed
    <2>3. CASE Len(requests) # 1
      BY <1>5, <2>1, <2>3, Zenon DEF StatusLast
    <2> QED
      BY <2>2, <2>3
  <1>7. ASSUME late = 0, at = 2
        PROVE  Told(id)'
    <2>1. PICK c : c = id
      OBVIOUS
    <2>2. Told(c)
      BY <1>7, <2>1 DEF DisconnectInv
    <2>3. at # 0
      BY <1>7
    <2>4. Told(c)'
      BY <1>0, <2>2, <2>3, ToldStep
    <2> QED
      BY <1>1, <2>1, <2>4 DEF Told
  <1>8. ASSUME late = 0, at = 2, phase = "wait"
        PROVE  DisableLast' /\ (Len(requests') = 0 => NoId \in seen')
    <2>1. requests[Len(requests)].cmd = "DISABLE_NETWORK" /\ requests[Len(requests)].live
          /\ requests[Len(requests)].id = id /\ Told(id)
      <3>1. DisableLast /\ Told(id)
        BY <1>8 DEF DisconnectInv
      <3> QED
        BY <1>4, <3>1, Zenon DEF DisableLast
    <2>2. CASE Len(requests) = 1
      <3>1. at # 0
        BY <1>8
      <3>2. NoId \in seen'
        BY <2>1, <2>2, <3>1, DisableServed
      <3>3. ~(Len(requests') > 0)
        BY <1>4, <2>2
      <3> QED
        BY <3>2, <3>3 DEF DisableLast
    <2>3. CASE Len(requests) # 1
      BY <1>1, <1>5, <2>1, <2>3, Zenon DEF DisableLast
    <2> QED
      BY <2>2, <2>3
  <1>9. late = 0 /\ at = 0 /\ ret /\ result = "own" => NoId \in seen'
    BY <1>2 DEF DisconnectInv
  <1> QED
    BY <1>1, <1>3, <1>6, <1>7, <1>8, <1>9, Zenon DEF DisconnectInv

LEMMA RoamDisconnect ==
  ASSUME SocketInv, DisconnectInv, Roam
  PROVE  DisconnectInv'
  <1>0. SocketOK /\ NetsOK
    BY SocketParts
  <1>1. UNCHANGED << phase, late, result, call, at, id, ret, requests, inbox >>
    BY RoamIs
  <1>2. seen \subseteq seen' /\ (call.op = "disconnect" /\ at # 0 => conn' = conn \/ conn' \in seen')
    BY <1>0, ConnStep
  <1> SUFFICES ASSUME call.op = "disconnect"
               PROVE  DisconnectInv'
    BY <1>1 DEF DisconnectInv
  <1>3. at' # 0 => conn' \in seen'
    BY <1>1, <1>2 DEF DisconnectInv
  <1>4. ASSUME NEW c, Told(c), at # 0
        PROVE  Told(c)'
    BY <1>0, <1>4, ToldStep
  <1>5. ASSUME at = 1, StatusLast
        PROVE  StatusLast'
    <2>1. CASE Len(requests) > 0
      BY <1>1, <1>5, <2>1 DEF StatusLast
    <2>2. CASE ~(Len(requests) > 0)
      <3>1. PICK c : c = inbox[1].id
        OBVIOUS
      <3>2. at # 0
        BY <1>5
      <3>3. Told(c)'
        BY <1>4, <1>5, <2>2, <3>1, <3>2 DEF StatusLast
      <3>4. Told(inbox[1].id)'
        BY <1>1, <3>1, <3>3 DEF Told
      <3> QED
        BY <1>1, <1>5, <2>2, <3>4, Zenon DEF StatusLast
    <2> QED
      BY <2>1, <2>2
  <1>6. ASSUME at = 2, Told(id)
        PROVE  Told(id)'
    <2>1. PICK c : c = id
      OBVIOUS
    <2>2. at # 0
      BY <1>6
    <2>3. Told(c)'
      BY <1>4, <1>6, <2>1, <2>2
    <2> QED
      BY <1>1, <2>1, <2>3 DEF Told
  <1>7. DisableLast => DisableLast'
    BY <1>1 DEF DisableLast
  <1> QED
    BY <1>1, <1>2, <1>3, <1>5, <1>6, <1>7 DEF DisconnectInv

LEMMA DisconnectStep ==
  ASSUME SocketInv, SeenInv, DisconnectInv, [Next]_vars
  PROVE  DisconnectInv'
  <1>0. SocketOK /\ NetsOK /\ ClientOK /\ PhaseInv /\ QueueInv
    BY SocketParts
  <1>1. CASE Open \/ Close
    <2>1. call' = [op |-> "ping"]
      BY <1>1 DEF Open, Close, FreshSocket, NoCallYet
    <2>2. call'.op # "disconnect"
      BY <2>1
    <2> QED
      BY <2>2, Zenon DEF DisconnectInv
  <1>2. ASSUME NEW c \in Call, CallClosed(c)
        PROVE  DisconnectInv'
    <2>1. at' = 0 /\ ret' = FALSE
      BY <1>0, <1>2 DEF CallClosed, ClientOK
    <2> QED
      BY <2>1 DEF DisconnectInv
  <1>3. ASSUME NEW c \in Call, StartCall(c)
        PROVE  DisconnectInv'
    <2>1. /\ call' = c /\ at' = 1 /\ phase' = "drain" /\ conn' = conn
          /\ seen' = IF c.op = "disconnect" THEN {conn} ELSE {}
      BY <1>3 DEF StartCall, svars
    <2> QED
      BY <2>1 DEF DisconnectInv
  <1>4. CASE NextRequest \/ Drain
    <2>1. /\ UNCHANGED << late, requests, nets, conn, call, at, id, ret, seen >>
          /\ phase' # "wait" /\ at # 0
      BY <1>0, <1>4, DrainIs DEF NextRequest, svars, hvars, PhaseInv
    <2> QED
      BY <2>1 DEF DisconnectInv, Told
  <1>5. CASE SendFails \/ Timeout
    <2>1. Proceed(FALSE) /\ call' = call /\ result' = "fail"
      BY <1>0, <1>5, SendFailsIs, TimeoutIs
    <2>2. call.op # "remove_all" => at' = 0
      BY <2>1, Zenon DEF Proceed
    <2> QED
      BY <2>1, <2>2 DEF DisconnectInv
  <1>6. CASE UNCHANGED vars
    BY <1>6 DEF vars, svars, hvars, DisconnectInv, StatusLast, DisableLast, Told
  <1> QED
    BY <1>1, <1>2, <1>3, <1>4, <1>5, <1>6, SendDisconnect, ReceiveDisconnect, ServeDisconnect, RoamDisconnect
    DEF Next

DisconnectsInv == SocketInv /\ IdsInv /\ SeenInv /\ DisconnectInv

LEMMA DisconnectsAlways == Spec => []DisconnectsInv
  <1>1. Init => DisconnectsInv
    BY SocketInit DEF DisconnectsInv, IdsInv, SeenInv, DisconnectInv, Init
  <1>2. DisconnectsInv /\ [Next]_vars => DisconnectsInv'
    BY SocketStep, IdsStep, SeenStep, DisconnectStep DEF DisconnectsInv
  <1> QED
    BY <1>1, <1>2, PTL DEF Spec

\* In a session without late answers a disconnect that was answered and
\* returns true has seen the supplicant without a connection (586-603).
THEOREM DisconnectSaysSo == Spec => []DisconnectTold
  <1>1. DisconnectsInv => DisconnectTold
    BY DEF DisconnectsInv, DisconnectInv, DisconnectTold, Returned
  <1> QED
    BY <1>1, DisconnectsAlways, PTL

\* In such a session disconnect only disables a network that was connected
\* during the call (586-600).
THEOREM DisconnectHitsConnected == Spec => DisconnectsConnected
  <1>1. DisconnectsInv /\ [Next]_vars =>
          [Send /\ call.op = "disconnect" /\ at = 2 /\ late = 0 /\ IdsFit => id \in seen]_vars
    BY DEF DisconnectsInv, DisconnectInv, Told
  <1> QED
    BY <1>1, DisconnectsAlways, PTL DEF Spec, DisconnectsConnected

=============================================================================
