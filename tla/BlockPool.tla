----------------------------- MODULE BlockPool -----------------------------
(***************************************************************************)
(* What a pool of fixed blocks promises its clients: a block is given out  *)
(* to one holder at a time, a request is refused only when every block is  *)
(* out, a block comes back exactly when it is out and undamaged, and a     *)
(* block whose guards were overwritten never comes back.                   *)
(***************************************************************************)
EXTENDS Integers

CONSTANTS Blocks, Null

VARIABLES
  live,     \* the blocks that are out
  damaged,  \* the blocks that are out and were written past their size
  res       \* the result of the last call

Init ==
  /\ live = {}
  /\ damaged = {}
  /\ res = << "none", Null >>

Alloc(b) ==
  /\ b \in Blocks \ live
  /\ live' = live \cup {b}
  /\ res' = << "malloc", b >>
  /\ UNCHANGED damaged

Exhausted ==
  /\ live = Blocks
  /\ res' = << "malloc", Null >>
  /\ UNCHANGED << live, damaged >>

\* A write that runs over the end of a block may reach the next one as well.
Damage(B) ==
  /\ B \subseteq live
  /\ damaged' = damaged \cup B
  /\ UNCHANGED << live, res >>

Free(b) ==
  /\ b \in live \ damaged
  /\ live' = live \ {b}
  /\ res' = << "free", 0 >>
  /\ UNCHANGED damaged

Refuse(b) ==
  /\ b \notin live \ damaged
  /\ res' = << "free", -1 >>
  /\ UNCHANGED << live, damaged >>

Next ==
  \/ Exhausted
  \/ \E b \in Blocks : Alloc(b) \/ Free(b) \/ Refuse(b)
  \/ \E B \in SUBSET Blocks : Damage(B)

Spec == Init /\ [][Next]_<< live, damaged, res >>
=============================================================================
