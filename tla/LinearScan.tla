---------------------------- MODULE LinearScan -----------------------------
(***************************************************************************)
(* The search loop both allocators are built on: start at one entry and    *)
(* step over the entries that are in use.                                  *)
(***************************************************************************)
EXTENDS Integers

\* The loop: where it ends from each entry p it may stand at.  It steps to the
\* next entry while it is before hi and on an entry that is not in avail.
Loop(hi, avail) ==
  LET from[p \in 0 .. hi] ==
        IF p < hi /\ p \notin avail THEN from[p + 1] ELSE p
  IN  from

\* Where the search that starts at lo ends.
Scan(lo, hi, avail) == Loop(hi, avail)[lo]
=============================================================================
