----------------------------- MODULE ImuSample -----------------------------
(***************************************************************************)
(* What GetIMU promises the threads that call it: an atomic register that  *)
(* holds one whole, checked IMU record.  The register is latched: a record *)
(* that is accepted becomes visible when the next packet starts, records   *)
(* only get newer, and nothing is served before there is a record.  The    *)
(* promise holds as long as the bus keeps its part; it ends when more      *)
(* frames are lost than the receiver can tell.                             *)
(***************************************************************************)
EXTENDS Integers

CONSTANTS
  Record,   \* the contents a record of the ring can have
  Sound(_), \* the record is all of one packet and passes the check
  Stamp(_), \* the number of the packet the record belongs to
  Blank,    \* the content of memory no packet was written to
  Reader

VARIABLES
  kept,    \* the bus has kept its part so far
  newest,  \* the record accepted last
  shown,   \* the record readers get
  out      \* what each reader got last

Init ==
  /\ kept = TRUE
  /\ newest = Blank
  /\ shown = Blank
  /\ out = [r \in Reader |-> Blank]

\* A record of a later packet is accepted; readers still get the one before.
Accept(rec) ==
  /\ Sound(rec) /\ Stamp(rec) > Stamp(newest)
  /\ shown = newest
  /\ newest' = rec
  /\ UNCHANGED << shown, out >>

Latch ==
  /\ shown' = newest
  /\ UNCHANGED << newest, out >>

Serve(r) ==
  /\ shown # Blank
  /\ out' = [out EXCEPT ![r] = shown]
  /\ UNCHANGED << newest, shown >>

\* The bus has lost too much: nothing is promised from here on.
Void == ~kept'

Next ==
  \/ Void
  \/ /\ kept /\ kept'
     /\ \/ \E rec \in Record : Accept(rec)
        \/ Latch
        \/ \E r \in Reader : Serve(r)

Spec == Init /\ [][Next]_<< kept, newest, shown, out >>
=============================================================================
