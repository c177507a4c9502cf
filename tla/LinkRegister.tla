---------------------------- MODULE LinkRegister ----------------------------
(***************************************************************************)
(* What the processes that configure a CAN device may rely on: every       *)
(* exchange takes effect at most once, at one moment between its start and *)
(* its end, and a result other than None is that of this moment.  None     *)
(* says nothing: the effect may have happened.                             *)
(***************************************************************************)
CONSTANTS
  Client,
  None,
  Moved(_),     \* what the device may turn into by itself
  Effect(_, _)  \* the pairs << new link, result >> of an exchange on a link

VARIABLES
  link,  \* the device
  task,  \* the exchange each process is in, or None
  got,   \* its result, once it took effect
  told   \* what the process was told last

vars == << link, task, got, told >>

Init ==
  /\ task = [c \in Client |-> None]
  /\ got = [c \in Client |-> None]
  /\ told = [c \in Client |-> None]

\* A process turns to another exchange, or to none.
Turn(c) == task' = [task EXCEPT ![c] = task'[c]]

Start(c) ==
  /\ task[c] = None
  /\ Turn(c)
  /\ UNCHANGED << link, got, told >>

Take(c) ==
  /\ task[c] # None /\ got[c] = None
  /\ \E e \in Effect(task[c], link) :
       /\ link' = e[1]
       /\ got' = [got EXCEPT ![c] = e[2]]
  /\ UNCHANGED << task, told >>

End(c) ==
  /\ Turn(c)
  /\ \E r \in {None, got[c]} : told' = [told EXCEPT ![c] = r]
  /\ got' = [got EXCEPT ![c] = None]
  /\ UNCHANGED link

Own == link' \in Moved(link) /\ UNCHANGED << task, got, told >>

Next == Own \/ \E c \in Client : Start(c) \/ Take(c) \/ End(c)

Spec == Init /\ [][Next]_vars
=============================================================================
