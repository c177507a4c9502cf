---------------------------- MODULE IHeap_proofs ----------------------------
(***************************************************************************)
(* The small heap of memalloc.cc for every number of entries: its search   *)
(* finds an unused entry whenever there is one, it is a block pool, and it *)
(* gives its entries out in turn.                                          *)
(***************************************************************************)
EXTENDS IHeap, LinearScan_proofs

IInv == TypeOK /\ EntriesSound

\* The search stops at an entry that is not in use, or every entry is; in the first
\* case it stepped over entries in use only.
LEMMA SearchedCorrect ==
  ASSUME last_p \in Entry
  PROVE  /\ Searched \in Stops \/ (Searched = Null /\ Stops = {})
         /\ Searched # Null => \A j \in Entry :
              (IF Searched >= last_p THEN last_p <= j /\ j < Searched ELSE last_p <= j \/ j < Searched)
                => j \notin Stops
  <1> DEFINE p == Scan(last_p, Entries, Stops)
             q == Scan(0, last_p, Stops)
  <1>1. /\ last_p \in Nat /\ Entries \in Nat /\ 0 \in Nat /\ last_p < Entries
        /\ last_p <= Entries /\ 0 <= last_p
    BY HeapAssumption DEF Entry
  <1>2. /\ p \in last_p .. Entries
        /\ p < Entries => p \in Stops
        /\ \A j \in last_p .. Entries - 1 : j < p => j \notin Stops
    BY <1>1, ScanCorrect
  <1>3. /\ q \in 0 .. last_p
        /\ q < last_p => q \in Stops
        /\ \A j \in 0 .. last_p - 1 : j < q => j \notin Stops
    BY <1>1, ScanCorrect
  <1>4. Searched = IF last_p > 0 /\ p >= Entries
                   THEN IF q < last_p THEN q ELSE Null
                   ELSE IF p < Entries THEN p ELSE Null
    BY DEF Searched
  <1>5. Stops \subseteq Entry /\ Null \notin Entry
    BY HeapAssumption DEF Stops, Entry
  <1> HIDE DEF p, q
  <1>6. CASE p < Entries
    BY <1>1, <1>2, <1>4, <1>5, <1>6 DEF Entry
  <1>7. CASE p = Entries /\ q < last_p
    BY <1>1, <1>2, <1>3, <1>4, <1>5, <1>7 DEF Entry
  <1>8. CASE p = Entries /\ q = last_p
    <2>1. Stops = {}
      BY <1>1, <1>2, <1>3, <1>5, <1>8 DEF Entry
    <2> QED
      BY <2>1, <1>1, <1>4, <1>8
  <1> QED
    BY <1>1, <1>2, <1>3, <1>6, <1>7, <1>8

\* While no nuse byte was written over, the request gets what the search found.
LEMMA FoundIsSearched ==
  ASSUME IInv, ~breach
  PROVE  Found = Searched
  <1>1. Searched \in Stops \/ Searched = Null
    BY SearchedCorrect DEF IInv, TypeOK
  <1>2. CASE Searched \in Stops
    <2>1. PICK k \in Entry : k = Searched /\ heap[k].nuse # "used"
      BY <1>2 DEF Stops
    <2>2. [heap[k] EXCEPT !.intact = TRUE] = Erased /\ heap[k] \in EntryState
      BY <2>1 DEF IInv, TypeOK, EntriesSound
    <2>3. [heap[k] EXCEPT !.intact = TRUE].nuse = heap[k].nuse
      BY <2>2 DEF EntryState
    <2>4. heap[k].nuse = "unused"
      BY <2>2, <2>3 DEF Erased
    <2> QED
      BY <2>1, <2>4 DEF Found
  <1> QED
    BY <1>1, <1>2 DEF Found

LEMMA ErasedEntry ==
  /\ Erased \in EntryState
  /\ Erased.nuse = "unused"
  /\ [Erased EXCEPT !.intact = TRUE] = Erased
  <1>1. 0 \in 0 .. Word
    BY HeapAssumption
  <1>2. Erased \in EntryState
    BY <1>1 DEF Erased, EntryState, NuseByte
  <1>3. Erased.nuse = "unused" /\ Erased.intact = TRUE
    BY DEF Erased
  <1>4. [Erased EXCEPT !.intact = TRUE] = Erased
    BY <1>2, <1>3 DEF EntryState
  <1> QED
    BY <1>2, <1>3, <1>4

LEMMA InitIInv == Init => IInv
  <1> SUFFICES ASSUME Init PROVE IInv
    OBVIOUS
  <1>1. TypeOK
    <2>1. heap \in [Entry -> EntryState] /\ big \in [BigPos -> BigState]
      BY ErasedEntry DEF Init, _initialize, BigState
    <2>2. last_p \in Entry /\ iheap_max \in Nat
      BY HeapAssumption DEF Init, _initialize, Entry
    <2>4. broken \in BOOLEAN /\ breach \in BOOLEAN
      BY DEF Init
    <2>3. seen \in [Entry -> SUBSET Entry]
      BY DEF Init
    <2> QED
      BY <2>1, <2>2, <2>3, <2>4 DEF TypeOK
  <1>2. EntriesSound
    BY ErasedEntry DEF Init, _initialize, EntriesSound
  <1> QED
    BY <1>1, <1>2 DEF IInv

LEMMA FoundInEntry ==
  ASSUME IInv, Found # Null
  PROVE  Found \in Entry /\ Found \notin InUse
  <1>1. Found = Searched
    BY DEF Found
  <1>2. Searched \in Stops
    BY <1>1, SearchedCorrect DEF IInv, TypeOK
  <1> QED
    BY <1>1, <1>2 DEF Stops, InUse

LEMMA FollowingType ==
  ASSUME NEW p \in Entry
  PROVE  Following(p) \in Entry
  BY HeapAssumption DEF Following, Entry

\* An erased entry, an entry just given out and an entry written to are states
\* of an entry.
LEMMA EntryTypes ==
  /\ Erased \in EntryState
  /\ \A l \in SmallLen :
       [nuse |-> "used", size |-> l, intact |-> TRUE] \in EntryState
  BY HeapAssumption DEF Erased, EntryState, NuseByte

LEMMA MallocSmallStep ==
  ASSUME IInv, NEW l \in SmallLen, MallocSmall(l)
  PROVE  IInv'
  <1> USE DEF IInv, MallocSmall
  <1>1. CASE Found = Null
    BY <1>1 DEF TypeOK, EntriesSound, large
  <1>2. CASE Found # Null
    <2> DEFINE new == [nuse |-> "used", size |-> l, intact |-> TRUE]
    <2>1. Found \in Entry /\ Following(Found) \in Entry /\ new \in EntryState
      BY <1>2, FoundInEntry, FollowingType, EntryTypes
    <2>2. /\ heap' = [heap EXCEPT ![Found] = new]
          /\ last_p' = Following(Found)
          /\ seen' = [i \in Entry |-> IF i = Found THEN InUse' ELSE seen[i] \cup InUse']
          /\ UNCHANGED << breach, iheap_max, big, broken >>
      BY <1>2 DEF Observe, large
    <2>3. InUse' \subseteq Entry
      BY DEF InUse
    <2>4. TypeOK'
      <3> HIDE DEF new
      <3> QED BY <2>1, <2>2, <2>3 DEF TypeOK
    <2>5. EntriesSound'
      BY <2>1, <2>2, HeapAssumption DEF EntriesSound, TypeOK
    <2> QED
      BY <2>4, <2>5
  <1> QED
    BY <1>1, <1>2

LEMMA FreeSmallStep ==
  ASSUME IInv, NEW i \in Entry, FreeSmall(i)
  PROVE  IInv'
  <1>1. heap' = heap \/ heap' = [heap EXCEPT ![i] = Erased]
    BY DEF FreeSmall
  <1>2. TypeOK'
    BY <1>1, EntryTypes DEF IInv, TypeOK, FreeSmall, large
  <1>3. EntriesSound'
    <2>1. CASE heap' = heap
      BY <2>1 DEF IInv, EntriesSound, FreeSmall
    <2>2. CASE heap' = [heap EXCEPT ![i] = Erased]
      <3> SUFFICES ASSUME ~breach, NEW j \in Entry
                   PROVE  /\ heap'[j].nuse = "used" => heap'[j].size \in 1 .. Word
                          /\ heap'[j].nuse # "used" => [heap'[j] EXCEPT !.intact = TRUE] = Erased
        BY DEF EntriesSound, FreeSmall
      <3>1. CASE j = i
        <4>1. heap'[j] = Erased
          BY <2>2, <3>1 DEF IInv, TypeOK
        <4> QED
          BY <4>1, ErasedEntry
      <3>2. CASE j # i
        BY <2>2, <3>2 DEF IInv, TypeOK, EntriesSound
      <3> QED
        BY <3>1, <3>2
    <2> QED
      BY <1>1, <2>1, <2>2
  <1> QED
    BY <1>2, <1>3 DEF IInv

\* A write changes whether an entry is intact and nothing else.
LEMMA WriteEffect ==
  ASSUME IInv, NEW i \in Entry, NEW n \in 1 .. Word + 2, Write(i, n)
  PROVE  /\ heap' \in [Entry -> EntryState]
         /\ \A j \in Entry : /\ heap'[j].nuse = heap[j].nuse
                             /\ heap'[j].size = heap[j].size
                             /\ heap'[j].intact => heap[j].intact
                             /\ [heap'[j] EXCEPT !.intact = TRUE] = [heap[j] EXCEPT !.intact = TRUE]
  <1> DEFINE new(j) == [heap[j] EXCEPT !.intact =
                          @ /\ (j = i => n <= heap[i].size) /\ ~(j = i + 1 /\ n > Word + 1)]
  <1>1. heap' = [j \in Entry |-> new(j)]
    BY DEF Write
  <1>2. ASSUME NEW j \in Entry
        PROVE  /\ new(j) \in EntryState
               /\ new(j).nuse = heap[j].nuse
               /\ new(j).size = heap[j].size
               /\ new(j).intact => heap[j].intact
               /\ [new(j) EXCEPT !.intact = TRUE] = [heap[j] EXCEPT !.intact = TRUE]
    <2>1. heap[j] \in EntryState
      BY DEF IInv, TypeOK
    <2>2. PICK g \in BOOLEAN : g = ((j = i => n <= heap[i].size) /\ ~(j = i + 1 /\ n > Word + 1))
      OBVIOUS
    <2>3. new(j) = [heap[j] EXCEPT !.intact = heap[j].intact /\ g]
      BY <2>2
    <2> HIDE DEF new
    <2> QED
      BY <2>1, <2>3 DEF EntryState
  <1> HIDE DEF new
  <1> QED
    BY <1>1, <1>2

LEMMA WriteStep ==
  ASSUME IInv, NEW i \in Entry, NEW n \in 1 .. Word + 2, Write(i, n)
  PROVE  IInv'
  <1>1. UNCHANGED << last_p, seen, breach, iheap_max, big, broken >>
    BY DEF Write, large
  <1> QED
    BY <1>1, WriteEffect DEF IInv, TypeOK, EntriesSound

\* A write that goes further leaves an entry of the heap in any state.
LEMMA WriteNuseStep ==
  ASSUME IInv, NEW i \in Entry, NEW b \in NuseByte, WriteNuse(i, b)
  PROVE  IInv'
  <1>1. UNCHANGED << last_p, seen, iheap_max, big, broken >> /\ breach' = TRUE
    BY DEF WriteNuse, large
  <1>2. PICK k \in Entry : k = i + 1
    BY DEF WriteNuse
  <1>3. heap' = [[heap EXCEPT ![i] = [heap[i] EXCEPT !.intact = FALSE]] EXCEPT
                   ![k] = [heap[k] EXCEPT !.intact = FALSE, !.nuse = b]]
    <2>1. i # k
      BY <1>2 DEF Entry
    <2> QED
      BY <1>2, <2>1 DEF WriteNuse, IInv, TypeOK
  <1>4. [heap[i] EXCEPT !.intact = FALSE] \in EntryState
        /\ [heap[k] EXCEPT !.intact = FALSE, !.nuse = b] \in EntryState
    BY DEF IInv, TypeOK, EntryState
  <1>5. heap' \in [Entry -> EntryState]
    BY <1>3, <1>4 DEF IInv, TypeOK
  <1> QED
    BY <1>1, <1>5 DEF IInv, TypeOK, EntriesSound

LEMMA BigStepInv == ASSUME IInv, BigStep \/ UNCHANGED vars PROVE IInv'
  <1>1. UNCHANGED << heap, last_p, seen, breach >>
    BY DEF BigStep, MallocBig, MallocBigFails, FreeBig, Spoil, vars, small
  <1>2. iheap_max' \in Nat /\ big' \in [BigPos -> BigState] /\ broken' \in BOOLEAN
    <2>1. ASSUME NEW a \in BigPos, MallocBig(a) PROVE <1>2
      BY <2>1, HeapAssumption DEF MallocBig, IInv, TypeOK, BigState
    <2>2. ASSUME NEW a \in BigPos, FreeBig(a) PROVE <1>2
      <3>1. PICK ok \in BOOLEAN : /\ big' = IF ok THEN [big EXCEPT ![a] = "freed"] ELSE big
                                  /\ broken' = (ok /\ big[a] = "freed")
        <4>1. Passes(a) \subseteq BOOLEAN
          BY DEF Passes
        <4> QED
          BY <2>2, <4>1 DEF FreeBig
      <3> QED
        BY <2>2, <3>1 DEF FreeBig, IInv, TypeOK, BigState
    <2>3. ASSUME NEW a \in BigPos, Spoil(a) PROVE <1>2
      BY <2>3 DEF Spoil, IInv, TypeOK, BigState
    <2>4. CASE MallocBigFails \/ UNCHANGED vars
      BY <2>4 DEF MallocBigFails, vars, large, IInv, TypeOK
    <2> QED
      BY <2>1, <2>2, <2>3, <2>4 DEF BigStep
  <1> QED
    BY <1>1, <1>2 DEF IInv, TypeOK, EntriesSound

LEMMA NextIInv == IInv /\ [Next]_vars => IInv'
  BY MallocSmallStep, FreeSmallStep, WriteStep, WriteNuseStep, BigStepInv DEF Next, SmallStep

LEMMA Invariance == Spec => []IInv
  BY InitIInv, NextIInv, PTL DEF Spec

\* The heap's variables keep their types: above all s_last_p is always the
\* start of an entry of the heap, never its end.
THEOREM TypeCorrect == Spec => []TypeOK
  BY Invariance, PTL DEF IInv

\* An entry in use has a size of 1 to Word bytes and an unused one is erased,
\* so nothing of an earlier block survives in it.
THEOREM EntriesAlwaysSound == Spec => []EntriesSound
  BY Invariance, PTL DEF IInv

----------------------------------------------------------------------------
(* The libc blocks.                                                        *)

\* The positions of the blocks the client has.
Held == {a \in BigPos : big[a] \in {"out", "spoiled"}}

LEMMA HighBlocksStep ==
  ASSUME TypeOK, HighBlocksInRange, [Next]_vars
  PROVE  HighBlocksInRange'
  <1>1. ASSUME NEW a \in BigPos, MallocBig(a)
        PROVE  HighBlocksInRange'
    <2>1. a \in Int /\ iheap_max \in Nat /\ iheap_max' \in {a, iheap_max}
          /\ iheap_max' >= a /\ iheap_max' >= iheap_max
      BY <1>1, HeapAssumption DEF MallocBig, TypeOK
    <2>2. ASSUME NEW b \in Held' PROVE b > 0 => b <= iheap_max'
      <3>1. b = a \/ b \in Held
        BY <1>1, <2>2 DEF MallocBig, TypeOK, Held
      <3>2. b \in Int
        BY <2>2, HeapAssumption DEF Held
      <3>3. b \in Held /\ b > 0 => b <= iheap_max
        BY DEF HighBlocksInRange, Held
      <3> QED
        BY <2>1, <3>1, <3>2, <3>3
    <2> QED
      BY <2>2 DEF HighBlocksInRange, Held
  <1>2. ASSUME Held' \subseteq Held, iheap_max' = iheap_max
        PROVE  HighBlocksInRange'
    BY <1>2 DEF HighBlocksInRange, Held
  <1>3. (\E a \in BigPos : MallocBig(a)) \/ (Held' \subseteq Held /\ iheap_max' = iheap_max)
    <2>1. ASSUME NEW a \in BigPos, FreeBig(a) PROVE Held' \subseteq Held /\ iheap_max' = iheap_max
      <3>1. big' = big \/ big' = [big EXCEPT ![a] = "freed"]
        BY <2>1 DEF FreeBig
      <3> QED
        BY <2>1, <3>1 DEF FreeBig, TypeOK, Held
    <2>2. ASSUME NEW a \in BigPos, Spoil(a) PROVE Held' \subseteq Held /\ iheap_max' = iheap_max
      BY <2>2 DEF Spoil, TypeOK, Held
    <2>3. CASE SmallStep \/ MallocBigFails \/ UNCHANGED vars
      BY <2>3 DEF SmallStep, MallocSmall, FreeSmall, Write, WriteNuse, MallocBigFails, vars,
                  large, Held
    <2> QED
      BY <2>1, <2>2, <2>3 DEF Next, BigStep
  <1> QED
    BY <1>1, <1>2, <1>3

\* A libc block above the small heap can be freed as long as it is out: the
\* highest address ever given out is kept, not that of the last block
\* (179-181, 203).
THEOREM HighBlocksFreeable == Spec => []HighBlocksInRange
  <1>1. Init => HighBlocksInRange
    BY DEF Init, HighBlocksInRange
  <1> QED
    BY <1>1, HighBlocksStep, TypeCorrect, PTL DEF Spec

----------------------------------------------------------------------------
(* The small heap is a block pool.                                         *)

USE DEF InUse, Stops, Damaged

LEMMA MallocIsPoolStep ==
  ASSUME IInv, ~breach, NEW l \in SmallLen, MallocSmall(l)
  PROVE  Pool!Next
  <1>1. CASE Found = Null
    <2>1. InUse = Entry
      <3>1. Searched = Null
        BY <1>1, FoundIsSearched
      <3>2. Stops = {}
        BY <3>1, SearchedCorrect, HeapAssumption DEF IInv, TypeOK, Entry
      <3> QED
        BY <3>2
    <2>2. Pool!Exhausted
      BY <1>1, <2>1 DEF MallocSmall, Pool!Exhausted
    <2> QED
      BY <2>2 DEF Pool!Next
  <1>2. CASE Found # Null
    <2> DEFINE new == [nuse |-> "used", size |-> l, intact |-> TRUE]
    <2>1. Found \in Entry /\ Found \notin InUse
      BY <1>2, FoundInEntry
    <2>2. heap' = [heap EXCEPT ![Found] = new] /\ res' = << "malloc", Found >>
      BY <1>2 DEF MallocSmall
    <2>3. heap'[Found] = new /\ \A j \in Entry : j # Found => heap'[j] = heap[j]
      BY <2>1, <2>2 DEF IInv, TypeOK
    <2>4. new.nuse = "used" /\ new.intact
      OBVIOUS
    <2> HIDE DEF new
    <2>5. InUse' = InUse \cup {Found} /\ Damaged' = Damaged
      BY <2>1, <2>3, <2>4
    <2>6. PICK b \in Entry : b = Found
      BY <2>1
    <2>7. Pool!Alloc(b)
      BY <2>1, <2>2, <2>5, <2>6 DEF Pool!Alloc
    <2> QED
      BY <2>7 DEF Pool!Next
  <1> QED
    BY <1>1, <1>2

LEMMA FreeIsPoolStep ==
  ASSUME IInv, ~breach, NEW i \in Entry, FreeSmall(i)
  PROVE  Pool!Next
  <1> DEFINE ok == Freeable(i)
  <1>1. ok <=> i \in InUse \ Damaged
    BY DEF IInv, EntriesSound, Freeable
  <1>2. CASE ok
    <2>1. heap' = [heap EXCEPT ![i] = Erased] /\ res' = << "free", 0 >>
      BY <1>2 DEF FreeSmall
    <2>2. heap'[i] = Erased /\ \A j \in Entry : j # i => heap'[j] = heap[j]
      BY <2>1 DEF IInv, TypeOK
    <2>3. Erased.nuse # "used"
      BY DEF Erased
    <2>4. InUse' = InUse \ {i} /\ Damaged' = Damaged
      BY <1>1, <1>2, <2>2, <2>3
    <2>5. Pool!Free(i)
      <3> HIDE DEF ok
      <3> QED BY <1>1, <1>2, <2>1, <2>4 DEF Pool!Free
    <2> HIDE DEF ok
    <2> QED
      BY <2>5 DEF Pool!Next
  <1>3. CASE ~ok
    <2>1. heap' = heap /\ res' = << "free", -1 >>
      BY <1>3 DEF FreeSmall
    <2>2. InUse' = InUse /\ Damaged' = Damaged
      BY <2>1
    <2> HIDE DEF ok
    <2>3. Pool!Refuse(i)
      BY <1>1, <1>3, <2>1, <2>2 DEF Pool!Refuse
    <2> QED
      BY <2>3 DEF Pool!Next
  <1> QED
    BY <1>2, <1>3

LEMMA WriteIsPoolStep ==
  ASSUME IInv, NEW i \in Entry, NEW n \in 1 .. Word + 2, Write(i, n)
  PROVE  Pool!Next
  <1>1. InUse' = InUse /\ Damaged \subseteq Damaged' /\ Damaged' \subseteq InUse
    BY WriteEffect
  <1>2. res' = res
    BY DEF Write
  <1>3. PICK B \in SUBSET Entry : B = Damaged'
    BY <1>1
  <1>4. Pool!Damage(B)
    BY <1>1, <1>2, <1>3 DEF Pool!Damage
  <1> QED
    BY <1>4 DEF Pool!Next

LEMMA StepIsPoolStep ==
  IInv /\ [Next]_vars => [~breach' => Pool!Next]_<< InUse, Damaged, res >>
  <1> SUFFICES ASSUME IInv, [Next]_vars, ~breach'
               PROVE  Pool!Next \/ UNCHANGED << InUse, Damaged, res >>
    OBVIOUS
  <1>0. ~breach
    BY DEF Next, SmallStep, MallocSmall, FreeSmall, Write, WriteNuse, BigStep, MallocBig,
           MallocBigFails, FreeBig, Spoil, vars, small
  <1>1. CASE BigStep \/ UNCHANGED vars
    <2>1. heap' = heap /\ res' = res
      BY <1>1 DEF BigStep, MallocBig, MallocBigFails, FreeBig, Spoil, vars, small
    <2> QED
      BY <2>1
  <1>2. CASE SmallStep
    <2>1. ~ \E i \in Entry, b \in NuseByte : WriteNuse(i, b)
      BY DEF WriteNuse
    <2> QED
      BY <1>0, <1>2, <2>1, MallocIsPoolStep, FreeIsPoolStep, WriteIsPoolStep DEF SmallStep
  <1> QED
    BY <1>1, <1>2 DEF Next

\* The small heap implements the abstract pool as long as no client wrote over a
\* nuse byte: an entry has one holder at a time, a request fails only when all
\* entries are out, and _free succeeds exactly for an entry that is out and was not
\* written over (133-167, 186-202).
THEOREM HeapIsPool == Spec => ImplementsPool
  <1>1. Init => Pool!Init
    <2> SUFFICES ASSUME Init PROVE Pool!Init
      OBVIOUS
    <2>1. InUse = {} /\ Damaged = {}
      BY DEF Init, _initialize, Erased
    <2> QED
      BY <2>1 DEF Init, Pool!Init
  <1>2. Spec => [][~breach' => Pool!Next]_<< InUse, Damaged, res >>
    BY StepIsPoolStep, Invariance, PTL DEF Spec
  <1> QED
    BY <1>1, <1>2, PTL DEF Spec, ImplementsPool

----------------------------------------------------------------------------
(* Next-fit gives the entries out in turn.                                 *)

\* The entries the cursor has passed since entry i was given out last.
Passed(i) ==
  {j \in Entry : j # i /\ (IF last_p > i THEN i < j /\ j < last_p ELSE j > i \/ j < last_p)}

\* Whatever is in use has been seen in use by everyone, and the cursor only
\* passes entries that were in use, while no nuse byte was written over.
TurnInv == ~breach => \A i \in Entry : InUse \subseteq seen[i] /\ Passed(i) \subseteq seen[i]

LEMMA InitTurn == Init => TurnInv
  BY DEF Init, TurnInv, Passed

\* The entries the search stepped over are in use.
LEMMA SteppedOver ==
  ASSUME IInv, NEW k \in Entry, k = Found, NEW j \in Entry,
         IF k >= last_p THEN last_p <= j /\ j < k ELSE last_p <= j \/ j < k
  PROVE  j \in InUse
  <1>1. last_p \in Entry /\ Found # Null
    BY HeapAssumption DEF IInv, TypeOK, Entry
  <1>2. Found = Searched
    BY <1>1 DEF Found
  <1>3. j \notin Stops
    BY <1>1, <1>2, SearchedCorrect
  <1> QED
    BY <1>3

\* A step that gives out entry k: those passed after it were passed before it,
\* were in use under the cursor, or are k.
LEMMA TurnOnMalloc ==
  ASSUME IInv, TurnInv, NEW l \in SmallLen, MallocSmall(l)
  PROVE  TurnInv'
  <1>1. CASE Found = Null
    BY <1>1 DEF MallocSmall, TurnInv, Passed
  <1>2. CASE Found # Null
    <2> DEFINE new == [nuse |-> "used", size |-> l, intact |-> TRUE]
    <2>1. PICK k \in Entry : k = Found
      BY <1>2, FoundInEntry
    <2>2. /\ heap' = [heap EXCEPT ![k] = new]
          /\ last_p' = Following(k)
          /\ seen' = [i \in Entry |-> IF i = k THEN InUse' ELSE seen[i] \cup InUse']
      BY <1>2, <2>1 DEF MallocSmall, Observe
    <2>3. new.nuse = "used"
      OBVIOUS
    <2> HIDE DEF new
    <2>4. last_p \in Entry
      BY DEF IInv, TypeOK
    <2>5. InUse' = InUse \cup {k}
      BY <2>2, <2>3 DEF IInv, TypeOK
    <2>6. \A i \in Entry : InUse' \subseteq seen'[i]
      BY <2>2
    <2>7. Passed(k)' = {}
      BY <2>2, <2>4, HeapAssumption DEF Passed, Following, Entry
    <2>8. ASSUME NEW i \in Entry, i # k, NEW j \in Passed(i)'
          PROVE  j \in Passed(i) \cup InUse'
      <3>1. CASE j = k
        BY <2>5, <3>1
      <3>2. CASE IF k >= last_p THEN last_p <= j /\ j < k ELSE last_p <= j \/ j < k
        <4>1. j \in Entry
          BY <2>8 DEF Passed
        <4> QED
          BY <2>1, <2>5, <3>2, <4>1, SteppedOver
      <3>3. CASE j # k /\ ~ (IF k >= last_p THEN last_p <= j /\ j < k ELSE last_p <= j \/ j < k)
        BY <2>2, <2>4, <2>8, <3>3, HeapAssumption DEF Passed, Following, Entry
      <3> QED
        BY <3>1, <3>2, <3>3
    <2>9. ASSUME ~breach, NEW i \in Entry PROVE (Passed(i) \subseteq seen[i])'
      <3>1. CASE i = k
        BY <2>7, <3>1
      <3>2. CASE i # k
        BY <2>2, <2>8, <2>9, <3>2 DEF TurnInv
      <3> QED
        BY <3>1, <3>2
    <2>10. breach' = breach
      BY DEF MallocSmall
    <2> QED
      BY <2>6, <2>9, <2>10 DEF TurnInv
  <1> QED
    BY <1>1, <1>2

\* Every other step leaves the cursor and the history, and puts no entry in use but
\* by a write over its nuse byte.
LEMMA TurnOtherwise ==
  ASSUME IInv, TurnInv, [Next]_vars, ~breach', ~ \E l \in SmallLen : MallocSmall(l)
  PROVE  TurnInv' /\ InUse' \subseteq InUse
  <1>1. last_p' = last_p /\ seen' = seen /\ ~breach
    <2>1. ASSUME NEW i \in Entry, FreeSmall(i) PROVE <1>1
      BY <2>1 DEF FreeSmall
    <2>2. ASSUME NEW i \in Entry, NEW n \in 1 .. Word + 2, Write(i, n) PROVE <1>1
      BY <2>2 DEF Write
    <2>3. CASE BigStep \/ UNCHANGED vars
      <3>1. UNCHANGED small
        BY <2>3 DEF BigStep, MallocBig, MallocBigFails, FreeBig, Spoil, vars
      <3> QED
        BY <3>1 DEF small
    <2>4. ~ \E i \in Entry, b \in NuseByte : WriteNuse(i, b)
      BY DEF WriteNuse
    <2> QED
      BY <2>1, <2>2, <2>3, <2>4 DEF Next, SmallStep
  <1>2. InUse' \subseteq InUse
    <2>1. ASSUME NEW i \in Entry, FreeSmall(i) PROVE InUse' \subseteq InUse
      <3>1. heap' = heap \/ heap' = [heap EXCEPT ![i] = Erased]
        BY <2>1 DEF FreeSmall
      <3> QED
        BY <3>1 DEF Erased, IInv, TypeOK
    <2>2. ASSUME NEW i \in Entry, NEW n \in 1 .. Word + 2, Write(i, n)
          PROVE  InUse' \subseteq InUse
      BY <2>2, WriteEffect
    <2>3. CASE BigStep \/ UNCHANGED vars
      BY <2>3 DEF BigStep, MallocBig, MallocBigFails, FreeBig, Spoil, vars, small
    <2>4. ~ \E i \in Entry, b \in NuseByte : WriteNuse(i, b)
      BY DEF WriteNuse
    <2> QED
      BY <2>1, <2>2, <2>3, <2>4 DEF Next, SmallStep
  <1> QED
    BY <1>1, <1>2 DEF TurnInv, Passed

\* Between two times the same entry is given out, every other entry was in use,
\* unless a client wrote over a nuse byte: a freed entry is given out again as late
\* as the load allows (142-159).
THEOREM GivenOutInTurn == Spec => RoundRobin
  <1> DEFINE Turn == ~breach' => \A i \in Entry :
                       i \notin InUse /\ i \in InUse' => Entry \subseteq seen[i] \cup {i}
  <1>1. IInv /\ TurnInv /\ [Next]_vars => TurnInv'
    <2>1. breach' => TurnInv'
      BY DEF TurnInv
    <2> QED
      BY <2>1, TurnOnMalloc, TurnOtherwise
  <1>2. ASSUME IInv, TurnInv, [Next]_vars, ~breach'
        PROVE  \A i \in Entry : i \notin InUse /\ i \in InUse' => Entry \subseteq seen[i] \cup {i}
    <2>1. ASSUME NEW l \in SmallLen, MallocSmall(l),
                 NEW i \in Entry, i \notin InUse, i \in InUse'
          PROVE  Entry \subseteq seen[i] \cup {i}
      <3>1. i = Found
        <4>1. CASE Found = Null
          BY <2>1, <4>1 DEF MallocSmall
        <4>2. CASE Found # Null
          <5>1. heap' = [heap EXCEPT ![Found] = heap'[Found]]
            BY <1>2, <4>2, <2>1, FoundInEntry DEF MallocSmall, IInv, TypeOK
          <5> QED
            BY <1>2, <2>1, <5>1 DEF IInv, TypeOK
        <4> QED
          BY <4>1, <4>2
      <3>2. last_p \in Entry /\ ~breach
        BY <1>2, <2>1 DEF IInv, TypeOK, MallocSmall
      <3>3. ASSUME NEW j \in Entry, j # i PROVE j \in Passed(i) \cup InUse
        <4>1. CASE IF i >= last_p THEN last_p <= j /\ j < i ELSE last_p <= j \/ j < i
          BY <1>2, <3>1, <4>1, SteppedOver
        <4>2. CASE ~ (IF i >= last_p THEN last_p <= j /\ j < i ELSE last_p <= j \/ j < i)
          BY <3>2, <3>3, <4>2, HeapAssumption DEF Passed, Entry
        <4> QED
          BY <4>1, <4>2
      <3> QED
        BY <1>2, <3>2, <3>3 DEF TurnInv
    <2>2. CASE ~ \E l \in SmallLen : MallocSmall(l)
      BY <1>2, <2>2, TurnOtherwise
    <2> QED
      BY <2>1, <2>2
  <1>3. IInv /\ TurnInv /\ [Next]_vars => [Turn]_vars
    BY <1>2
  <1> HIDE DEF Turn
  <1>4. Spec => []TurnInv
    BY <1>1, InitTurn, Invariance, PTL DEF Spec
  <1>5. Spec => [][Turn]_vars
    BY <1>3, <1>4, Invariance, PTL DEF Spec
  <1> QED
    BY <1>5 DEF RoundRobin, Turn
=============================================================================
