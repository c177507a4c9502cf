------------------------------- MODULE IHeap -------------------------------
(***************************************************************************)
(* The allocator of memalloc.cc.  Requests of at most Word bytes are       *)
(* served from a heap of Entries entries, searched next-fit from s_last_p; *)
(* larger ones from libc's malloc, with s_iheap_max the highest address    *)
(* libc gave out.  A client writes into its blocks, sometimes past their   *)
(* end and into the header of the next entry, and frees them, sometimes    *)
(* twice.                                                                  *)
(*                                                                         *)
(* Addresses are positions: the small heap is at 0, a libc block lies at   *)
(* a position of BigPos, below the heap when it is negative.               *)
(***************************************************************************)
EXTENDS LinearScan

CONSTANTS
  Entries,   \* IHEAP_ENTRIES
  Word,      \* sizeof(uintptr_t), the data bytes of an entry
  SmallLen,  \* the request sizes of at most Word bytes that are made
  BigPos,    \* where libc can place a block
  Null

ASSUME HeapAssumption ==
  /\ Entries \in Nat \ {0}
  /\ Word \in Nat \ {0}
  /\ SmallLen \subseteq 1 .. Word
  /\ BigPos \subseteq Int \ {0}
  /\ Null \notin Int

VARIABLES
  heap,       \* the entries of the small heap
  last_p,     \* s_last_p, as an entry number
  iheap_max,  \* s_iheap_max
  big,        \* the state of the libc block at each position
  broken,     \* libc was given a block it already had: the program is undefined
  res,        \* the result of the last call for a small block
  bigres,     \* the result of the last call for a libc block
  seen,       \* history: the entries in use at some time since each was last given out
  breach      \* history: a client wrote over the nuse byte of an entry

small == << heap, last_p, res, seen, breach >>
large == << iheap_max, big, broken, bigres >>
vars  == << small, large >>

Entry == 0 .. Entries - 1

\* What the byte nuse can say: 0 is "used", ZERO_BYTE "unused", any other "other".
NuseByte == {"used", "unused", "other"}

\* intact: res0 and the bytes from the end of the block to the end of the entry
\* are as _malloc or _free left them.
EntryState == [nuse : NuseByte, size : 0 .. Word, intact : BOOLEAN]

Erased == [nuse |-> "unused", size |-> 0, intact |-> TRUE]

Stops == {i \in Entry : heap[i].nuse # "used"}
InUse == {i \in Entry : heap[i].nuse = "used"}

_initialize ==
  /\ heap = [i \in Entry |-> Erased]
  /\ last_p = 0
  /\ iheap_max = 0

Init ==
  /\ _initialize
  /\ big = [a \in BigPos |-> "none"]
  /\ broken = FALSE
  /\ res = << "none", Null >>
  /\ bigres = << "none", Null >>
  /\ seen = [i \in Entry |-> Entry]
  /\ breach = FALSE

----------------------------------------------------------------------------
\* Faulty Searched: the second search stops one entry too early.
SearchedSkipping ==
  LET p == Scan(last_p, Entries, Stops)
      q == Scan(0, last_p - 1, Stops)
  IN  IF last_p > 0 /\ p >= Entries
      THEN IF q < last_p - 1 THEN q ELSE Null
      ELSE IF p < Entries THEN p ELSE Null

\* The first entry that is not in use, from s_last_p to the end, else from the
\* start to s_last_p.
Searched ==
  LET p == Scan(last_p, Entries, Stops)
      q == Scan(0, last_p, Stops)
  IN  IF last_p > 0 /\ p >= Entries
      THEN IF q < last_p THEN q ELSE Null
      ELSE IF p < Entries THEN p ELSE Null

\* The entry a small request gets: the search stops at a nuse byte that is not 0,
\* the request is refused when it is not ZERO_BYTE.
Found == IF Searched # Null /\ heap[Searched].nuse # "unused" THEN Null ELSE Searched

\* Faulty Following: first-fit, the search always starts at the first entry.
FollowingRestarts(p) == 0

\* Faulty Following: the end of the heap is missed.
FollowingRunsOff(p) == p + 1

Following(p) == IF p + 1 >= Entries THEN 0 ELSE p + 1

\* seen after a step: everybody has seen the entries in use; the entry given
\* out starts anew.
Observe(given) ==
  seen' = [i \in Entry |-> IF i = given THEN InUse' ELSE seen[i] \cup InUse']

MallocSmall(l) ==
  /\ IF Found = Null
     THEN /\ res' = << "malloc", Null >>
          /\ UNCHANGED << heap, last_p, seen >>
     ELSE /\ heap' = [heap EXCEPT ![Found] = [nuse |-> "used", size |-> l, intact |-> TRUE]]
          /\ last_p' = Following(Found)
          /\ res' = << "malloc", Found >>
          /\ Observe(Found)
  /\ UNCHANGED << breach, large >>

Freeable(i) == heap[i].nuse = "used" /\ heap[i].size \in 1 .. Word /\ heap[i].intact

\* Faulty FreeSmall: the entry is marked unused but not erased.
FreeSmallKeepsHeader(i) ==
  /\ res' = << "free", IF Freeable(i) THEN 0 ELSE -1 >>
  /\ heap' = IF Freeable(i) THEN [heap EXCEPT ![i].nuse = "unused"] ELSE heap
  /\ UNCHANGED << last_p, seen, breach, large >>

\* _free of a pointer to entry i, held or freed before.
FreeSmall(i) ==
  /\ res' = << "free", IF Freeable(i) THEN 0 ELSE -1 >>
  /\ heap' = IF Freeable(i) THEN [heap EXCEPT ![i] = Erased] ELSE heap
  /\ UNCHANGED << last_p, seen, breach, large >>

\* The client writes n bytes at its pointer to entry i, at most up to the first
\* byte of the next entry, res0.  No byte written happens to be the value it
\* replaces.  Bound: nothing is written behind the heap.
Write(i, n) ==
  /\ heap[i].nuse = "used" /\ ~breach
  /\ n > Word + 1 => i + 1 \in Entry
  /\ heap' = [j \in Entry |->
       [heap[j] EXCEPT !.intact =
          @ /\ (j = i => n <= heap[i].size) /\ ~(j = i + 1 /\ n > Word + 1)]]
  /\ UNCHANGED << last_p, res, seen, breach, large >>

\* The write goes one byte further and leaves b in the next entry's nuse.  Bound:
\* no write goes beyond it, and clients do not write after it.
WriteNuse(i, b) ==
  /\ heap[i].nuse = "used" /\ ~breach
  /\ i + 1 \in Entry
  /\ heap' = [heap EXCEPT ![i].intact = FALSE, ![i + 1].intact = FALSE, ![i + 1].nuse = b]
  /\ breach' = TRUE
  /\ UNCHANGED << last_p, res, seen, large >>

----------------------------------------------------------------------------
\* Faulty MallocBig: the highest address is only kept for the first block.
MallocBigForgets(a) ==
  /\ big[a] \in {"none", "freed"}
  /\ big' = [big EXCEPT ![a] = "out"]
  /\ iheap_max' = IF iheap_max = 0 /\ a > 0 THEN a ELSE iheap_max
  /\ bigres' = << "malloc", a >>
  /\ UNCHANGED << small, broken >>

\* libc places a larger block at a.
MallocBig(a) ==
  /\ big[a] \in {"none", "freed"}
  /\ big' = [big EXCEPT ![a] = "out"]
  /\ iheap_max' = IF a > iheap_max THEN a ELSE iheap_max
  /\ bigres' = << "malloc", a >>
  /\ UNCHANGED << small, broken >>

\* libc has no memory.
MallocBigFails ==
  /\ bigres' = << "malloc", Null >>
  /\ UNCHANGED << small, iheap_max, big, broken >>

\* Whether the header of a libc block passes the tests of _free.  That of a block
\* that was freed is libc's memory and holds anything.
Passes(a) == CASE big[a] = "out" -> {TRUE} [] big[a] = "spoiled" -> {FALSE} [] OTHER -> BOOLEAN

\* _free of a libc block, held or freed before: only addresses between the small
\* heap and s_iheap_max are looked at.
FreeBig(a) ==
  /\ big[a] # "none"
  /\ \E ok \in IF 0 < a /\ a <= iheap_max THEN Passes(a) ELSE {FALSE} :
       /\ big' = IF ok THEN [big EXCEPT ![a] = "freed"] ELSE big
       /\ bigres' = << "free", IF ok THEN 0 ELSE -1 >>
       /\ broken' = (ok /\ big[a] = "freed")
  /\ UNCHANGED << small, iheap_max >>

\* The client writes over a guard byte of its libc block.
Spoil(a) ==
  /\ big[a] = "out"
  /\ big' = [big EXCEPT ![a] = "spoiled"]
  /\ UNCHANGED << small, iheap_max, broken, bigres >>

----------------------------------------------------------------------------
SmallStep ==
  \/ \E l \in SmallLen : MallocSmall(l)
  \/ \E i \in Entry : FreeSmall(i)
  \/ \E i \in Entry, n \in 1 .. Word + 2 : Write(i, n)
  \/ \E i \in Entry, b \in NuseByte : WriteNuse(i, b)

BigStep ==
  \/ \E a \in BigPos : MallocBig(a) \/ FreeBig(a) \/ Spoil(a)
  \/ MallocBigFails

Next == ~broken /\ (SmallStep \/ BigStep)

Spec == Init /\ [][Next]_vars

----------------------------------------------------------------------------
BigState == {"none", "out", "spoiled", "freed"}

TypeOK ==
  /\ heap \in [Entry -> EntryState]
  /\ last_p \in Entry
  /\ iheap_max \in Nat
  /\ big \in [BigPos -> BigState]
  /\ broken \in BOOLEAN
  /\ seen \in [Entry -> SUBSET Entry]
  /\ breach \in BOOLEAN

\* Unless a client wrote over a nuse byte: an entry in use has a size a block can
\* have, and any other is erased but for what an overrun did to its first byte, so
\* nothing of an earlier block survives in it (_malloc 161-165, _free 202).
EntriesSound ==
  ~breach => \A i \in Entry :
    /\ heap[i].nuse = "used" => heap[i].size \in 1 .. Word
    /\ heap[i].nuse # "used" => [heap[i] EXCEPT !.intact = TRUE] = Erased

\* A libc block above the small heap can be freed as long as it is out, even
\* after higher blocks came and went (179-181, 203).
HighBlocksInRange ==
  \A a \in BigPos : big[a] \in {"out", "spoiled"} /\ a > 0 => a <= iheap_max

\* Next-fit gives the entries out in turn: between two times the same entry is
\* given out, every other entry was in use at some time (142-159), unless a client
\* wrote over a nuse byte.
RoundRobin ==
  [][~breach' => \A i \in Entry :
       i \notin InUse /\ i \in InUse' => Entry \subseteq seen[i] \cup {i}]_vars

Damaged == {i \in InUse : ~heap[i].intact}

Pool == INSTANCE BlockPool WITH
  Blocks  <- Entry,
  live    <- InUse,
  damaged <- Damaged,
  res     <- res

\* The small heap keeps the promises of a block pool as long as no client wrote
\* over a nuse byte: one holder per entry, no refusal while an entry is unused, and
\* no entry back that was written over, from itself or from the entry before.
ImplementsPool ==
  /\ Pool!Init
  /\ [][~breach' => Pool!Next]_<< InUse, Damaged, res >>
=============================================================================
