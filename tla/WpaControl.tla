----------------------------- MODULE WpaControl -----------------------------
(***************************************************************************)
(* The control socket of wpa_client.c.  A request is a datagram to the     *)
(* supplicant and its answer the next datagram that comes back: nothing    *)
(* in a reply names its request.  A request whose answer does not come     *)
(* within the time limit of wpa_ctrl_request is given up, and its answer   *)
(* may come later.  Before a request one waiting datagram, if there is     *)
(* one, is read and thrown away.                                           *)
(*                                                                         *)
(* Two programs use the socket this way: the interactive loop of main,     *)
(* which asserts that every request succeeds, and the library below it,    *)
(* which returns false and goes on.                                        *)
(*                                                                         *)
(* Replies are counted, not kept: they come back in the order of the       *)
(* requests, so the next reply is the answer of the last request exactly   *)
(* when it is the only one owed.  WpaStation keeps their contents.         *)
(***************************************************************************)
EXTENDS Naturals

CONSTANT MaxLate  \* bound of the model: requests given up in one session

ASSUME ControlAssumption == MaxLate \in Nat

VARIABLES
  program,  \* "main" or "library"
  phase,    \* where the client is in a request
  owed,     \* requests sent on this socket whose reply was not read
  ready,    \* those of them whose reply waits in the socket
  late,     \* requests given up in this session
  result    \* of the last request: "own" or "other" answer, or "fail"

vars == << program, phase, owed, ready, late, result >>

InRequest == {"drain", "send", "wait"}

Init ==
  /\ program \in {"main", "library"}
  /\ phase = "closed"
  /\ owed = 0 /\ ready = 0 /\ late = 0
  /\ result = "none"

----------------------------------------------------------------------------
(* The session.                                                            *)

FreshSocket == owed' = 0 /\ ready' = 0 /\ late' = 0 /\ result' = "none"

\* The library does not look whether a session is open before it opens one.
\* main opens its only session at its start.
MayOpen == phase = "closed" \/ (phase = "idle" /\ program = "library")

Open ==
  /\ MayOpen
  /\ phase' = "idle"
  /\ FreshSocket
  /\ UNCHANGED program

\* A socket cannot be opened: the library closes what there is, an
\* assertion of main fails.
OpenFails ==
  /\ MayOpen
  /\ phase' = IF program = "main" THEN "over" ELSE "closed"
  /\ FreshSocket
  /\ UNCHANGED program

\* session_close; main leaves its loop and ends.
Close ==
  /\ phase = "idle"
  /\ phase' = IF program = "main" THEN "over" ELSE "closed"
  /\ FreshSocket
  /\ UNCHANGED program

----------------------------------------------------------------------------
(* A request.                                                              *)

\* Faulty GiveUp: main goes on when a request fails.
GiveUpGoesOn ==
  /\ phase' = "idle"
  /\ result' = "fail"

\* What a failed request leads to.
GiveUp ==
  /\ phase' = IF program = "main" THEN "over" ELSE "idle"
  /\ result' = "fail"

Request ==
  /\ phase = "idle"
  /\ phase' = "drain"
  /\ result' = "none"
  /\ UNCHANGED << program, owed, ready, late >>

\* Faulty Drain: the read before the request is left out.
NoDrain ==
  /\ phase = "drain"
  /\ phase' = "send"
  /\ UNCHANGED << program, owed, ready, late, result >>

\* Faulty Drain: it waits for a datagram.
BlockingDrain ==
  /\ phase = "drain"
  /\ ready > 0
  /\ phase' = "send"
  /\ owed' = owed - 1 /\ ready' = ready - 1
  /\ UNCHANGED << program, late, result >>

\* The read before the request: the socket does not block, and one read
\* takes one datagram.
Drain ==
  /\ phase = "drain"
  /\ phase' = "send"
  /\ IF ready > 0
       THEN owed' = owed - 1 /\ ready' = ready - 1
       ELSE UNCHANGED << owed, ready >>
  /\ UNCHANGED << program, late, result >>

\* Faulty Send: the request is sent twice when the first try seems to have failed.
SendTwice ==
  /\ phase = "send"
  /\ phase' = "wait"
  /\ owed' \in {owed + 1, owed + 2}
  /\ UNCHANGED << program, ready, late, result >>

Send ==
  /\ phase = "send"
  /\ phase' = "wait"
  /\ owed' = owed + 1
  /\ UNCHANGED << program, ready, late, result >>

SendFails ==
  /\ phase = "send"
  /\ GiveUp
  /\ UNCHANGED << program, owed, ready, late >>

\* Faulty Receive: what select returned is not looked at.
ReceiveUnasked ==
  /\ phase = "wait"
  /\ phase' = "idle"
  /\ result' = IF owed = 1 THEN "own" ELSE "other"
  /\ owed' = owed - 1
  /\ ready' = ready - 1
  /\ UNCHANGED << program, late >>

\* The first datagram that is there is taken for the answer.
Receive ==
  /\ phase = "wait"
  /\ ready > 0
  /\ phase' = "idle"
  /\ result' = IF owed = 1 THEN "own" ELSE "other"
  /\ owed' = owed - 1
  /\ ready' = ready - 1
  /\ UNCHANGED << program, late >>

\* Faulty Timeout: the request is sent again when its answer does not come in time.
TimeoutRetries ==
  /\ phase = "wait"
  /\ ready = 0
  /\ \/ owed' = owed + 1 /\ owed < MaxLate /\ UNCHANGED << phase, late, result >>
     \/ late < MaxLate /\ late' = late + 1 /\ GiveUp /\ UNCHANGED owed
  /\ UNCHANGED << program, ready >>

Timeout ==
  /\ phase = "wait"
  /\ ready = 0
  /\ late < MaxLate
  /\ late' = late + 1
  /\ GiveUp
  /\ UNCHANGED << program, owed, ready >>

\* The supplicant answers the oldest request it has.
Serve ==
  /\ ready < owed
  /\ ready' = ready + 1
  /\ UNCHANGED << program, phase, owed, late, result >>

Next ==
  \/ Open \/ OpenFails \/ Close
  \/ Request \/ Drain \/ Send \/ SendFails \/ Receive \/ Timeout
  \/ Serve

\* A client in a request keeps going: none of its steps waits for anything
\* but the answer, and select ends that wait.  Nothing makes the supplicant
\* answer or the caller ask.
Fairness == WF_vars(Drain) /\ WF_vars(Send) /\ WF_vars(Receive \/ Timeout)

Spec == Init /\ [][Next]_vars /\ Fairness

----------------------------------------------------------------------------
(* Properties.                                                             *)

\* Types (204-213, 331-363).
TypeOK ==
  /\ program \in {"main", "library"}
  /\ phase \in {"closed", "idle", "over"} \cup InRequest
  /\ owed \in Nat /\ ready \in 0 .. owed
  /\ late \in 0 .. MaxLate
  /\ result \in {"none", "own", "other", "fail"}

Waiting == IF phase = "wait" THEN 1 ELSE 0

\* The client is never further behind than the requests it gave up: the read
\* before a request never makes up for more than one of them, and never takes
\* the reply of a request that is still waited for (348-353).
LagBounded == owed <= late + Waiting

\* A request is answered by the reply of another one only in a session that
\* has given a request up (348-362).
OwnUnlessLate == late = 0 => result # "other"

\* main never takes the reply of another request for its answer: it does not
\* survive the first request it gives up (159-165).
MainNeverMisled == program = "main" => result # "other"

\* A request ends, whatever the supplicant does, as long as the bound of the
\* model lets it be given up (340-362).
RequestEnds == phase \in InRequest /\ late < MaxLate ~> phase \notin InRequest

\* Once no request is given up any more and every answer is there before the
\* next request, the answers are those of their requests again, however many
\* requests were given up before (348-353).
Resync ==
  <>[][~Timeout /\ (Drain => ready = owed)]_vars
    => <>[][Receive => result' = "own"]_vars
=============================================================================
