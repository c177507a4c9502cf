------------------------- MODULE LinearScan_proofs --------------------------
(***************************************************************************)
(* Where the search loop of the allocators ends, for every list length.    *)
(***************************************************************************)
EXTENDS LinearScan, WellFoundedInduction, TLAPS

\* A non-empty set of naturals has a least element.
LEMMA LeastNat ==
  ASSUME NEW T, T \subseteq Nat, T # {}
  PROVE  \E x \in T : \A y \in T : x <= y
  <1>1. \E x \in T : \A y \in T : ~ (<<y, x>> \in OpToRel(<, Nat))
    BY NatLessThanWellFounded, WFMin
  <1>2. PICK x \in T : \A y \in T : ~ (<<y, x>> \in OpToRel(<, Nat))
    BY <1>1
  <1>3. ASSUME NEW y \in T PROVE x <= y
    <2>1. ~ (<<y, x>> \in {ss \in Nat \X Nat : ss[1] < ss[2]})
      BY <1>2 DEF OpToRel
    <2> QED
      BY <2>1
  <1> QED
    BY <1>3

\* A set of naturals that has an element up to hi has a greatest such element.
LEMMA GreatestUpTo ==
  ASSUME NEW hi \in Nat, NEW T, T \subseteq 0 .. hi, T # {}
  PROVE  \E x \in T : \A y \in T : y <= x
  <1> DEFINE D == {hi - x : x \in T}
  <1>1. D \subseteq Nat /\ D # {}
    OBVIOUS
  <1>2. PICK d \in D : \A e \in D : d <= e
    <2> HIDE DEF D
    <2> QED BY <1>1, LeastNat
  <1>3. PICK x \in T : d = hi - x
    OBVIOUS
  <1>4. ASSUME NEW y \in T PROVE y <= x
    BY <1>2, <1>3
  <1> QED
    BY <1>4

\* s is the first available entry from p on, or hi when there is none.
IsFirst(p, s, hi, avail) ==
  /\ s \in p .. hi
  /\ s < hi => s \in avail
  /\ \A j \in p .. hi - 1 : j < s => j \notin avail

LEMMA FirstExists ==
  ASSUME NEW hi \in Nat, NEW avail, NEW p \in 0 .. hi
  PROVE  \E s \in 0 .. hi : IsFirst(p, s, hi, avail)
  <1> DEFINE T == {i \in p .. hi : i = hi \/ i \in avail}
  <1>1. T \subseteq Nat /\ T # {}
    <2>1. hi \in T
      OBVIOUS
    <2> QED BY <2>1
  <1>2. \E s \in T : \A i \in T : s <= i
    <2> HIDE DEF T
    <2> QED BY <1>1, LeastNat
  <1>3. PICK s \in T : \A i \in T : s <= i
    BY <1>2
  <1>4. IsFirst(p, s, hi, avail)
    BY <1>3 DEF IsFirst
  <1> QED
    BY <1>4

LEMMA FirstUnique ==
  ASSUME NEW hi \in Nat, NEW avail, NEW p \in 0 .. hi, NEW s, NEW t,
         IsFirst(p, s, hi, avail), IsFirst(p, t, hi, avail)
  PROVE  s = t
  BY DEF IsFirst

\* One step of the loop does not change what the first available entry is.
LEMMA FirstStep ==
  ASSUME NEW hi \in Nat, NEW avail, NEW p \in 0 .. hi, NEW s
  PROVE  IF p < hi /\ p \notin avail
         THEN IsFirst(p, s, hi, avail) <=> IsFirst(p + 1, s, hi, avail)
         ELSE IsFirst(p, s, hi, avail) <=> s = p
  BY DEF IsFirst

\* The loop is a function: there is one that steps as it does.
LEMMA LoopSteps ==
  ASSUME NEW hi \in Nat, NEW avail
  PROVE  Loop(hi, avail) =
           [p \in 0 .. hi |->
              IF p < hi /\ p \notin avail THEN Loop(hi, avail)[p + 1] ELSE p]
  <1> DEFINE first(p) == CHOOSE s \in 0 .. hi : IsFirst(p, s, hi, avail)
             g == [p \in 0 .. hi |-> first(p)]
  <1>1. \A p \in 0 .. hi : first(p) \in 0 .. hi /\ IsFirst(p, first(p), hi, avail)
    BY FirstExists
  <1>2. ASSUME NEW p \in 0 .. hi
        PROVE  g[p] = IF p < hi /\ p \notin avail THEN g[p + 1] ELSE p
    <2> HIDE DEF first
    <2>1. CASE p < hi /\ p \notin avail
      <3>1. p + 1 \in 0 .. hi /\ IsFirst(p + 1, first(p + 1), hi, avail) /\ IsFirst(p, first(p), hi, avail)
        BY <1>1, <2>1
      <3>2. IsFirst(p + 1, first(p), hi, avail)
        BY <2>1, <3>1, FirstStep
      <3>3. first(p) = first(p + 1)
        BY <3>1, <3>2, FirstUnique
      <3> QED
        BY <2>1, <3>1, <3>3
    <2>2. CASE ~(p < hi /\ p \notin avail)
      BY <1>1, <2>2, FirstStep
    <2> QED
      BY <2>1, <2>2
  <1>3. g = [p \in 0 .. hi |-> IF p < hi /\ p \notin avail THEN g[p + 1] ELSE p]
    <2> HIDE DEF first
    <2> QED BY <1>2
  <1> HIDE DEF g
  <1> QED
    BY <1>3 DEF Loop

\* The loop ends at the first available entry of its range, or at the range's
\* end when there is none: it cannot step past an available entry, and it does
\* not stop before one (memalloc.cc 143-151, safe-malloc-free.c 102, 111).
THEOREM ScanCorrect ==
  ASSUME NEW lo \in Nat, NEW hi \in Nat, NEW avail, lo <= hi
  PROVE  /\ Scan(lo, hi, avail) \in lo .. hi
         /\ Scan(lo, hi, avail) < hi => Scan(lo, hi, avail) \in avail
         /\ \A j \in lo .. hi - 1 : j < Scan(lo, hi, avail) => j \notin avail
  <1> DEFINE f == Loop(hi, avail)
             T == {p \in 0 .. hi : ~IsFirst(p, f[p], hi, avail)}
  <1>1. \A p \in 0 .. hi : f[p] = IF p < hi /\ p \notin avail THEN f[p + 1] ELSE p
    BY LoopSteps
  <1> HIDE DEF f
  <1>2. T = {}
    <2> SUFFICES ASSUME T # {} PROVE FALSE
      OBVIOUS
    <2>1. T \subseteq 0 .. hi
      OBVIOUS
    <2>2. PICK p \in T : \A q \in T : q <= p
      <3> HIDE DEF T
      <3> QED BY <2>1, GreatestUpTo
    <2>3. CASE p < hi /\ p \notin avail
      <3>1. p + 1 \in 0 .. hi /\ f[p] = f[p + 1]
        BY <1>1, <2>3
      <3>2. IsFirst(p + 1, f[p + 1], hi, avail)
        BY <2>2, <3>1
      <3> QED
        BY <2>3, <3>1, <3>2, FirstStep
    <2>4. CASE ~(p < hi /\ p \notin avail)
      BY <1>1, <2>4, FirstStep
    <2> QED
      BY <2>3, <2>4
  <1>3. IsFirst(lo, f[lo], hi, avail)
    BY <1>2
  <1> QED
    BY <1>3 DEF IsFirst, Scan, f
=============================================================================
