-------------------------- MODULE WpaControl_proofs --------------------------
(***************************************************************************)
(* The control socket for every number of requests given up: how far the   *)
(* client can be behind, and who can be answered by another's reply.       *)
(***************************************************************************)
EXTENDS WpaControl, TLAPS

\* main never gives a request up and goes on.
MainNeverLate == program = "main" /\ phase # "over" => late = 0

IInv == TypeOK /\ LagBounded /\ OwnUnlessLate /\ MainNeverLate /\ MainNeverMisled

LEMMA InitIInv == Init => IInv
  BY ControlAssumption
     DEF Init, IInv, TypeOK, LagBounded, Waiting, OwnUnlessLate, MainNeverLate,
         MainNeverMisled

LEMMA SessionStep ==
  ASSUME IInv, Open \/ OpenFails \/ Close
  PROVE  IInv'
  BY ControlAssumption
     DEF IInv, TypeOK, LagBounded, Waiting, OwnUnlessLate, MainNeverLate,
         MainNeverMisled, Open, OpenFails, Close, FreshSocket, MayOpen

LEMMA DrainStep ==
  ASSUME IInv, Drain
  PROVE  IInv'
  BY DEF IInv, TypeOK, LagBounded, Waiting, OwnUnlessLate, MainNeverLate,
         MainNeverMisled, Drain, InRequest

LEMMA SendStep ==
  ASSUME IInv, Request \/ Send \/ SendFails
  PROVE  IInv'
  BY DEF IInv, TypeOK, LagBounded, Waiting, OwnUnlessLate, MainNeverLate,
         MainNeverMisled, Request, Send, SendFails, GiveUp, InRequest

\* With no request given up, the request in progress is the only one owed a
\* reply.
LEMMA ReceiveStep ==
  ASSUME IInv, Receive
  PROVE  IInv'
  <1>1. owed \in Nat /\ owed > 0 /\ owed <= late + 1
    BY DEF IInv, TypeOK, LagBounded, Waiting, Receive
  <1>2. late = 0 => result' = "own"
    BY <1>1 DEF IInv, TypeOK, Receive
  <1> QED
    BY <1>1, <1>2
       DEF IInv, TypeOK, LagBounded, Waiting, OwnUnlessLate, MainNeverLate,
           MainNeverMisled, Receive, InRequest

LEMMA TimeoutStep ==
  ASSUME IInv, Timeout
  PROVE  IInv'
  BY ControlAssumption
     DEF IInv, TypeOK, LagBounded, Waiting, OwnUnlessLate, MainNeverLate,
         MainNeverMisled, Timeout, GiveUp, InRequest

LEMMA ServeStep ==
  ASSUME IInv, Serve \/ UNCHANGED vars
  PROVE  IInv'
  BY DEF IInv, TypeOK, LagBounded, Waiting, OwnUnlessLate, MainNeverLate,
         MainNeverMisled, Serve, vars

LEMMA Invariance == Spec => []IInv
  <1>1. IInv /\ [Next]_vars => IInv'
    BY SessionStep, DrainStep, SendStep, ReceiveStep, TimeoutStep, ServeStep DEF Next
  <1> QED
    BY <1>1, InitIInv, PTL DEF Spec

\* The variables of the socket keep their types: above all no more replies
\* wait in it than are owed (331-363).
THEOREM TypeCorrect == Spec => []TypeOK
  <1>1. IInv => TypeOK
    BY DEF IInv
  <1> QED
    BY <1>1, Invariance, PTL

\* The client is never further behind than the requests it gave up: a reply
\* read before a request is never one that is waited for (348-353).
THEOREM LagIsBounded == Spec => []LagBounded
  <1>1. IInv => LagBounded
    BY DEF IInv
  <1> QED
    BY <1>1, Invariance, PTL

\* Only a session that gave a request up can answer a request with the reply
\* of another one (348-362).
THEOREM OnlyLateMisleads == Spec => []OwnUnlessLate
  <1>1. IInv => OwnUnlessLate
    BY DEF IInv
  <1> QED
    BY <1>1, Invariance, PTL

\* main never takes the reply of another request for its answer (159-165).
THEOREM MainIsNeverMisled == Spec => []MainNeverMisled
  <1>1. IInv => MainNeverMisled
    BY DEF IInv
  <1> QED
    BY <1>1, Invariance, PTL
=============================================================================
