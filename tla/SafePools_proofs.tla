-------------------------- MODULE SafePools_proofs --------------------------
(***************************************************************************)
(* The block lists of safe-malloc-free.c for every length of the lists and *)
(* every set of addresses: the list of libc blocks describes what libc     *)
(* gave out, so the index cached by xptr_valid is harmless, and the list   *)
(* of small blocks is a block pool until it is asked for more than it has. *)
(***************************************************************************)
EXTENDS SafePools, LinearScan_proofs, FiniteSetTheorems

IInv == TypeOK /\ ListDescribesLibc

\* A search over a whole list ends at an entry it looks for or behind the list.
LEMMA FullScan ==
  ASSUME NEW avail
  PROVE  /\ Scan(0, MaxLen, avail) \in 0 .. MaxLen
         /\ Scan(0, MaxLen, avail) < MaxLen =>
              Scan(0, MaxLen, avail) \in Index /\ Scan(0, MaxLen, avail) \in avail
         /\ \A j \in Index : j < Scan(0, MaxLen, avail) => j \notin avail
  <1>1. MaxLen \in Nat /\ 0 <= MaxLen
    BY PoolsAssumption
  <1>2. /\ Scan(0, MaxLen, avail) \in 0 .. MaxLen
        /\ Scan(0, MaxLen, avail) < MaxLen => Scan(0, MaxLen, avail) \in avail
        /\ \A j \in 0 .. MaxLen - 1 : j < Scan(0, MaxLen, avail) => j \notin avail
    BY <1>1, ScanCorrect
  <1> QED
    BY <1>1, <1>2 DEF Index

\* The values written to entries are entries.
LEMMA EntryTypes ==
  /\ IErased \in IEntry /\ BErased \in BEntry
  /\ \A u, g, z \in BOOLEAN : [used |-> u, magic |-> g, sized |-> z] \in IEntry
  /\ \A a \in Addr : [used |-> TRUE, val |-> a] \in BEntry
  BY DEF IErased, BErased, IEntry, BEntry

LEMMA InitIInv == Init => IInv
  <1> SUFFICES ASSUME Init PROVE IInv
    OBVIOUS
  <1>1. TypeOK
    <2>1. imem \in [Index -> IEntry] /\ bmem \in [Index -> BEntry]
      BY EntryTypes DEF Init
    <2>2. libc \in SUBSET Addr /\ aborted \in BOOLEAN /\ breach \in BOOLEAN
      BY DEF Init
    <2>4. spoiled \in [Addr -> {"no", "magic", "length"}]
      BY DEF Init
    <2>3. cache \in 0 .. MaxLen /\ index \in 0 .. MaxLen /\ fails \in 0 .. MaxFail
      BY PoolsAssumption DEF Init
    <2> QED
      BY <2>1, <2>2, <2>3, <2>4 DEF TypeOK
  <1>2. ListDescribesLibc
    BY DEF Init, ListDescribesLibc, BErased
  <1> QED
    BY <1>1, <1>2 DEF IInv

\* A write past a block changes magic bytes only.
LEMMA OverrunEffect ==
  ASSUME IInv, NEW i \in Index, NEW n \in 1 .. 2, Overrun(i, n)
  PROVE  /\ imem' \in [Index -> IEntry]
         /\ \A j \in Index : /\ imem'[j].used = imem[j].used
                             /\ imem'[j].sized = imem[j].sized
                             /\ imem'[j].magic => imem[j].magic
  <1> DEFINE new(j) == [imem[j] EXCEPT !.magic = @ /\ j # i /\ ~(n > 1 /\ j = i + 1 /\ imem[j].used)]
  <1>1. imem' = [j \in Index |-> new(j)]
    BY DEF Overrun
  <1>2. ASSUME NEW j \in Index
        PROVE  /\ new(j) \in IEntry
               /\ new(j).used = imem[j].used
               /\ new(j).sized = imem[j].sized
               /\ new(j).magic => imem[j].magic
    <2>1. imem[j] \in IEntry
      BY DEF IInv, TypeOK
    <2>2. PICK g \in BOOLEAN : g = (j # i /\ ~(n > 1 /\ j = i + 1 /\ imem[j].used))
      OBVIOUS
    <2>3. new(j) = [imem[j] EXCEPT !.magic = imem[j].magic /\ g]
      BY <2>2
    <2> HIDE DEF new
    <2> QED
      BY <2>1, <2>3 DEF IEntry
  <1> HIDE DEF new
  <1> QED
    BY <1>1, <1>2

LEMMA SmallSteps ==
  ASSUME IInv, SmallStep
  PROVE  IInv' /\ UNCHANGED << bmem, libc, spoiled, cache, fails >>
  <1>1. UNCHANGED << bmem, libc, spoiled, cache, fails >>
    BY DEF SmallStep, MallocSmall, Overrun, OverrunFlags, FreeSmall, xptr_valid_small, bvars
  <1>2. index' \in 0 .. MaxLen /\ aborted' \in BOOLEAN /\ breach' \in BOOLEAN
    <2>1. CASE MallocSmall
      BY <2>1, FullScan DEF MallocSmall, FirstSmall, IInv, TypeOK
    <2>2. ASSUME NEW i \in Index, FreeSmall(i) PROVE <1>2
      BY <2>2 DEF FreeSmall, IInv, TypeOK
    <2>3. ASSUME NEW i \in Index, NEW n \in 1 .. 2, Overrun(i, n) PROVE <1>2
      BY <2>3 DEF Overrun, IInv, TypeOK
    <2>4. ASSUME NEW i \in Index, NEW u \in BOOLEAN, NEW z \in BOOLEAN, OverrunFlags(i, u, z)
          PROVE  <1>2
      BY <2>4 DEF OverrunFlags, IInv, TypeOK
    <2>5. ASSUME NEW i \in Index, NEW inside \in BOOLEAN, xptr_valid_small(i, inside)
          PROVE  <1>2
      BY <2>5 DEF xptr_valid_small, IInv, TypeOK
    <2> QED
      BY <2>1, <2>2, <2>3, <2>4, <2>5 DEF SmallStep
  <1>3. imem' \in [Index -> IEntry]
    <2>1. CASE MallocSmall
      <3>1. CASE FirstSmall < MaxLen
        BY <2>1, <3>1, FullScan, EntryTypes DEF MallocSmall, FirstSmall, IInv, TypeOK
      <3>2. CASE ~ FirstSmall < MaxLen
        BY <2>1, <3>2 DEF MallocSmall, IInv, TypeOK
      <3> QED
        BY <3>1, <3>2
    <2>2. ASSUME NEW i \in Index, FreeSmall(i) PROVE <1>3
      <3>1. imem' = imem \/ imem' = [imem EXCEPT ![i] = IErased]
        BY <2>2 DEF FreeSmall
      <3> QED
        BY <3>1, EntryTypes DEF IInv, TypeOK
    <2>3. ASSUME NEW i \in Index, NEW n \in 1 .. 2, Overrun(i, n) PROVE <1>3
      BY <2>3, OverrunEffect
    <2>4. ASSUME NEW i \in Index, NEW u \in BOOLEAN, NEW z \in BOOLEAN, OverrunFlags(i, u, z)
          PROVE  <1>3
      <3>1. PICK k \in Index : k = i + 1
        BY <2>4 DEF OverrunFlags
      <3>2. i # k
        BY <3>1 DEF Index
      <3>3. PICK e \in IEntry : e = IF u THEN [used |-> TRUE, magic |-> FALSE, sized |-> z] ELSE IErased
        BY EntryTypes
      <3>4. imem' = [[imem EXCEPT ![i] = [imem[i] EXCEPT !.magic = FALSE]] EXCEPT ![k] = e]
        BY <2>4, <3>1, <3>2, <3>3 DEF OverrunFlags, IInv, TypeOK
      <3>5. [imem[i] EXCEPT !.magic = FALSE] \in IEntry
        BY DEF IInv, TypeOK, IEntry
      <3> QED
        BY <3>4, <3>5 DEF IInv, TypeOK
    <2>5. ASSUME NEW i \in Index, NEW inside \in BOOLEAN, xptr_valid_small(i, inside)
          PROVE  <1>3
      BY <2>5 DEF xptr_valid_small, ivars, IInv, TypeOK
    <2> QED
      BY <2>1, <2>2, <2>3, <2>4, <2>5 DEF SmallStep
  <1> QED
    BY <1>1, <1>2, <1>3 DEF IInv, TypeOK, ListDescribesLibc

LEMMA TakeBigStep ==
  ASSUME IInv, NEW a \in Addr, TakeBig(a)
  PROVE  IInv'
  <1> DEFINE e == [used |-> TRUE, val |-> a]
  <1>1. PICK i \in Index : i = FirstBig
    BY FullScan DEF TakeBig, FirstBig
  <1>2. ~bmem[i].used
    BY <1>1, FullScan DEF TakeBig, FirstBig, BigUse
  <1>3. bmem[i].val = Null
    BY <1>2 DEF IInv, ListDescribesLibc
  <1>4. /\ bmem' = [bmem EXCEPT ![i] = e] /\ libc' = libc \cup {a} /\ a \notin libc
        /\ index' = i
        /\ UNCHANGED << imem, spoiled, cache, fails, aborted, breach >>
    BY <1>1 DEF TakeBig, ivars
  <1>5. e \in BEntry /\ e.used /\ e.val = a
    BY EntryTypes
  <1> HIDE DEF e
  <1>6. bmem'[i] = e /\ \A j \in Index : j # i => bmem'[j] = bmem[j]
    BY <1>4 DEF IInv, TypeOK
  <1>7. TypeOK'
    BY <1>4, <1>5, PoolsAssumption DEF IInv, TypeOK, Index
  <1>8. ListDescribesLibc'
    <2>1. \A j \in Index : bmem'[j].val # Null => bmem'[j].used /\ bmem'[j].val \in libc'
      BY <1>4, <1>5, <1>6 DEF IInv, ListDescribesLibc
    <2>2. \A b \in libc' : \E j \in Index : bmem'[j].val = b
      <3> SUFFICES ASSUME NEW b \in libc' PROVE \E j \in Index : bmem'[j].val = b
        OBVIOUS
      <3>1. CASE b = a
        BY <1>5, <1>6, <3>1
      <3>2. CASE b \in libc
        <4>1. PICK j \in Index : bmem[j].val = b
          BY <3>2 DEF IInv, ListDescribesLibc
        <4>2. j # i
          BY <4>1, <3>2, <1>3, PoolsAssumption DEF IInv, TypeOK
        <4> QED
          BY <4>1, <4>2, <1>6
      <3> QED
        BY <3>1, <3>2, <1>4
    <2>3. \A j, k \in Index : bmem'[j].val = bmem'[k].val /\ bmem'[j].val # Null => j = k
      BY <1>4, <1>5, <1>6 DEF IInv, ListDescribesLibc
    <2> QED
      BY <2>1, <2>2, <2>3 DEF ListDescribesLibc
  <1> QED
    BY <1>7, <1>8 DEF IInv

LEMMA TakeBigFailsStep ==
  ASSUME IInv, TakeBigFails
  PROVE  IInv'
  <1>1. PICK i \in Index : i = FirstBig
    BY FullScan DEF TakeBigFails, FirstBig
  <1> DEFINE e == [bmem[i] EXCEPT !.used = TRUE]
  <1>2. /\ bmem' = [bmem EXCEPT ![i] = e] /\ libc' = libc /\ index' = i
        /\ fails' = fails + 1 /\ fails < MaxFail
        /\ UNCHANGED << imem, spoiled, cache, aborted, breach >>
    BY <1>1 DEF TakeBigFails, ivars
  <1>3. bmem[i] \in BEntry
    BY DEF IInv, TypeOK
  <1>4. e \in BEntry /\ e.used /\ e.val = bmem[i].val
    BY <1>3 DEF BEntry
  <1> HIDE DEF e
  <1>5. bmem'[i] = e /\ \A j \in Index : j # i => bmem'[j] = bmem[j]
    BY <1>2 DEF IInv, TypeOK
  <1>6. TypeOK'
    BY <1>2, <1>4, PoolsAssumption DEF IInv, TypeOK, Index
  <1>7. \A j \in Index : bmem'[j].val = bmem[j].val /\ (bmem[j].used => bmem'[j].used)
    BY <1>4, <1>5
  <1>8. ListDescribesLibc'
    BY <1>2, <1>7 DEF IInv, ListDescribesLibc
  <1> QED
    BY <1>6, <1>8 DEF IInv

\* A free erases the entry and gives the block back, or does neither.
LEMMA FreeBigChoice ==
  ASSUME NEW a \in Addr, FreeBig(a)
  PROVE  \E ok \in BOOLEAN :
           LET i == Scan(0, MaxLen, {j \in BigUse : bmem[j].val = a}) IN
           /\ ok => i < MaxLen
           /\ aborted' = ~ok
           /\ bmem' = IF ok THEN [bmem EXCEPT ![i] = BErased] ELSE bmem
           /\ libc' = IF ok THEN libc \ {a} ELSE libc
           /\ spoiled' = IF ok THEN [spoiled EXCEPT ![a] = "no"] ELSE spoiled
  <1> DEFINE i == Scan(0, MaxLen, {j \in BigUse : bmem[j].val = a})
  <1>1. PICK ok \in IF i < MaxLen THEN Passes(a) ELSE {FALSE} :
          /\ aborted' = ~ok
          /\ bmem' = IF ok THEN [bmem EXCEPT ![i] = BErased] ELSE bmem
          /\ libc' = IF ok THEN libc \ {a} ELSE libc
          /\ spoiled' = IF ok THEN [spoiled EXCEPT ![a] = "no"] ELSE spoiled
    BY DEF FreeBig
  <1> HIDE DEF i
  <1>2. Passes(a) \subseteq BOOLEAN
    BY DEF Passes
  <1>3. ok \in BOOLEAN /\ (ok => i < MaxLen)
    BY <1>2
  <1> QED
    BY <1>1, <1>3 DEF i

LEMMA FreeBigStep ==
  ASSUME IInv, NEW a \in Addr, FreeBig(a)
  PROVE  IInv'
  <1> DEFINE i == Scan(0, MaxLen, {j \in BigUse : bmem[j].val = a})
  <1>0. PICK ok \in BOOLEAN :
          /\ ok => i < MaxLen
          /\ aborted' = ~ok
          /\ bmem' = IF ok THEN [bmem EXCEPT ![i] = BErased] ELSE bmem
          /\ libc' = IF ok THEN libc \ {a} ELSE libc
          /\ spoiled' = IF ok THEN [spoiled EXCEPT ![a] = "no"] ELSE spoiled
    BY FreeBigChoice
  <1>1. /\ UNCHANGED << imem, cache, fails, index, breach >> /\ aborted' \in BOOLEAN
        /\ spoiled' \in [Addr -> {"no", "magic", "length"}]
    BY <1>0 DEF FreeBig, ivars, IInv, TypeOK
  <1>2. CASE ok
    <2>1. i \in Index /\ bmem[i].val = a
      BY <1>0, <1>2, FullScan
    <2>2. bmem' = [bmem EXCEPT ![i] = BErased] /\ libc' = libc \ {a}
      BY <1>0, <1>2
    <2> HIDE DEF i
    <2>3. bmem'[i] = BErased /\ \A j \in Index : j # i => bmem'[j] = bmem[j]
      BY <2>1, <2>2 DEF IInv, TypeOK
    <2>4. TypeOK'
      BY <1>1, <2>1, <2>2, EntryTypes DEF IInv, TypeOK
    <2>5. a # Null /\ BErased.val = Null
      BY PoolsAssumption DEF BErased
    <2>6. \A j \in Index : bmem'[j].val # Null => bmem'[j].used /\ bmem'[j].val \in libc'
      BY <2>1, <2>2, <2>3, <2>5 DEF IInv, ListDescribesLibc
    <2>7. \A b \in libc' : \E j \in Index : bmem'[j].val = b
      BY <2>1, <2>2, <2>3 DEF IInv, ListDescribesLibc
    <2>8. \A j, k \in Index : bmem'[j].val = bmem'[k].val /\ bmem'[j].val # Null => j = k
      BY <2>3, <2>5 DEF IInv, ListDescribesLibc
    <2> QED
      BY <2>4, <2>6, <2>7, <2>8 DEF IInv, ListDescribesLibc
  <1>3. CASE ~ok
    <2>1. UNCHANGED << bmem, libc >>
      BY <1>0, <1>3
    <2> QED
      BY <1>1, <2>1 DEF IInv, TypeOK, ListDescribesLibc
  <1> QED
    BY <1>2, <1>3

LEMMA LookupType ==
  ASSUME IInv, NEW a
  PROVE  Lookup(a) \in 0 .. MaxLen
  BY FullScan DEF Lookup, IInv, TypeOK

LEMMA NextIInv == IInv /\ [Next]_vars => IInv'
  <1> SUFFICES ASSUME IInv, [Next]_vars PROVE IInv'
    OBVIOUS
  <1>1. CASE SmallStep
    BY <1>1, SmallSteps
  <1>2. CASE TakeBigFails
    BY <1>2, TakeBigFailsStep
  <1>3. CASE TakeBigBehind
    BY <1>3, PoolsAssumption DEF TakeBigBehind, IInv, TypeOK, ListDescribesLibc, ivars, bvars
  <1>4. ASSUME NEW a \in Addr, TakeBig(a) PROVE IInv'
    BY <1>4, TakeBigStep
  <1>5. ASSUME NEW a \in Addr, NEW what \in {"magic", "length"}, Spoil(a, what) PROVE IInv'
    BY <1>5 DEF Spoil, IInv, TypeOK, ListDescribesLibc, ivars
  <1>6. ASSUME NEW a \in Addr, FreeBig(a) PROVE IInv'
    BY <1>6, FreeBigStep
  <1>7. ASSUME NEW a \in Addr, NEW inside \in BOOLEAN, xptr_valid(a, inside) PROVE IInv'
    BY <1>7, LookupType DEF xptr_valid, IInv, TypeOK, ListDescribesLibc, ivars
  <1>8. CASE UNCHANGED vars
    BY <1>8 DEF IInv, TypeOK, ListDescribesLibc, vars, ivars, bvars
  <1> QED
    BY <1>1, <1>2, <1>3, <1>4, <1>5, <1>6, <1>7, <1>8 DEF Next, BigStep

LEMMA Invariance == Spec => []IInv
  BY InitIInv, NextIInv, PTL DEF Spec

\* Every variable of the lists keeps its type, the cached index and the index
\* of the last search included (94-215).
THEOREM TypeCorrect == Spec => []TypeOK
  <1>1. IInv => TypeOK
    BY DEF IInv
  <1> QED
    BY <1>1, Invariance, PTL

\* bmemblock_list describes exactly the libc blocks that are out (111-125,
\* 148-169).
THEOREM ListIsExact == Spec => []ListDescribesLibc
  <1>1. IInv => ListDescribesLibc
    BY DEF IInv
  <1> QED
    BY <1>1, Invariance, PTL

\* xptr_valid reads only blocks that are out, whatever was freed since it
\* cached its index (188-210).
THEOREM CacheIsHarmless == Spec => []ReadsLiveMemory
  <1>1. ASSUME IInv PROVE ReadsLiveMemory
    <2> SUFFICES ASSUME NEW a \in Addr, Reads(a) PROVE a \in libc
      BY DEF ReadsLiveMemory
    <2>1. Lookup(a) \in Index /\ bmem[Lookup(a)].val = a
      <3>1. CASE Hit(a)
        BY <1>1, <3>1, PoolsAssumption DEF Reads, Lookup, Hit, IInv, TypeOK, Index
      <3>2. CASE ~Hit(a)
        BY <3>2, FullScan DEF Reads, Lookup
      <3> QED
        BY <3>1, <3>2
    <2>2. a # Null
      BY PoolsAssumption
    <2> QED
      BY <1>1, <2>1, <2>2 DEF IInv, ListDescribesLibc
  <1> QED
    BY <1>1, Invariance, PTL

----------------------------------------------------------------------------
(* The small blocks are a block pool.                                      *)

LEMMA MallocIsPoolStep ==
  ASSUME IInv, MallocSmall, index' < MaxLen
  PROVE  Pool!Next
  <1> DEFINE e == [used |-> TRUE, magic |-> TRUE, sized |-> TRUE]
  <1>1. PICK i \in Index : i = FirstSmall /\ i \notin InUse
    BY FullScan DEF MallocSmall, FirstSmall
  <1>2. imem' = [imem EXCEPT ![i] = e] /\ res' = << "malloc", i >>
    BY <1>1 DEF MallocSmall
  <1>3. e.used /\ e.magic /\ e.sized
    OBVIOUS
  <1> HIDE DEF e
  <1>4. imem'[i] = e /\ \A j \in Index : j # i => imem'[j] = imem[j]
    BY <1>2 DEF IInv, TypeOK
  <1>5. InUse' = InUse \cup {i}
    BY <1>3, <1>4 DEF InUse
  <1>6. Damaged' = Damaged
    BY <1>1, <1>3, <1>4, <1>5 DEF Damaged, InUse
  <1>7. Pool!Alloc(i)
    BY <1>1, <1>2, <1>5, <1>6 DEF Pool!Alloc
  <1> QED
    BY <1>7 DEF Pool!Next

LEMMA OverrunIsPoolStep ==
  ASSUME IInv, NEW i \in Index, NEW n \in 1 .. 2, Overrun(i, n)
  PROVE  Pool!Next
  <1>1. InUse' = InUse /\ Damaged \subseteq Damaged' /\ Damaged' \subseteq InUse
    BY OverrunEffect DEF Damaged, InUse
  <1>2. res' = res
    BY DEF Overrun
  <1>3. PICK B \in SUBSET Index : B = Damaged'
    BY <1>1 DEF InUse
  <1>4. Pool!Damage(B)
    BY <1>1, <1>2, <1>3 DEF Pool!Damage
  <1> QED
    BY <1>4 DEF Pool!Next

LEMMA FreeIsPoolStep ==
  ASSUME IInv, NEW i \in Index, FreeSmall(i)
  PROVE  Pool!Next
  <1>1. CASE imem[i].used /\ imem[i].magic /\ imem[i].sized
    <2>1. imem' = [imem EXCEPT ![i] = IErased] /\ res' = << "free", 0 >>
      BY <1>1 DEF FreeSmall
    <2>2. imem'[i] = IErased /\ \A j \in Index : j # i => imem'[j] = imem[j]
      BY <2>1 DEF IInv, TypeOK
    <2>3. ~IErased.used
      BY DEF IErased
    <2>4. InUse' = InUse \ {i}
      BY <2>2, <2>3 DEF InUse
    <2>5. Damaged' = Damaged
      BY <1>1, <2>2, <2>4 DEF Damaged, InUse
    <2>6. i \in InUse \ Damaged
      BY <1>1 DEF InUse, Damaged
    <2>7. Pool!Free(i)
      BY <2>1, <2>4, <2>5, <2>6 DEF Pool!Free
    <2> QED
      BY <2>7 DEF Pool!Next
  <1>2. CASE ~(imem[i].used /\ imem[i].magic /\ imem[i].sized)
    <2>1. imem' = imem /\ res' = << "free", -1 >>
      BY <1>2 DEF FreeSmall
    <2>2. i \notin InUse \ Damaged
      BY <1>2 DEF InUse, Damaged
    <2>3. InUse' = InUse /\ Damaged' = Damaged
      BY <2>1 DEF InUse, Damaged
    <2>4. Pool!Refuse(i)
      BY <2>1, <2>2, <2>3 DEF Pool!Refuse
    <2> QED
      BY <2>4 DEF Pool!Next
  <1> QED
    BY <1>1, <1>2

\* The list of small blocks is a block pool until the entry behind it is taken or a
\* client writes over not_used (94-110, 129-147).
THEOREM ListIsPool == Spec => ImplementsPool
  <1> DEFINE Step == index' < MaxLen /\ ~breach' => Pool!Next
  <1>1. Init => Pool!Init
    <2> SUFFICES ASSUME Init PROVE Pool!Init
      OBVIOUS
    <2>1. \A i \in Index : imem[i] = IErased
      BY DEF Init
    <2>2. InUse = {}
      BY <2>1 DEF InUse, IErased
    <2>3. Damaged = {}
      BY <2>2 DEF Damaged
    <2> QED
      BY <2>2, <2>3 DEF Init, Pool!Init
  <1>2. IInv /\ [Next]_vars => [Step]_<< InUse, Damaged, res >>
    <2> SUFFICES ASSUME IInv, [Next]_vars
                 PROVE  Step \/ UNCHANGED << InUse, Damaged, res >>
      OBVIOUS
    <2>1. CASE MallocSmall
      BY <2>1, MallocIsPoolStep
    <2>2. ASSUME NEW i \in Index, NEW n \in 1 .. 2, Overrun(i, n) PROVE Step
      BY <2>2, OverrunIsPoolStep
    <2>3. ASSUME NEW i \in Index, FreeSmall(i) PROVE Step
      BY <2>3, FreeIsPoolStep
    <2>4. ASSUME NEW i \in Index, NEW u \in BOOLEAN, NEW z \in BOOLEAN, OverrunFlags(i, u, z)
          PROVE  Step
      BY <2>4 DEF OverrunFlags
    <2>5. CASE \/ BigStep \/ UNCHANGED vars
               \/ \E i \in Index, inside \in BOOLEAN : xptr_valid_small(i, inside)
      <3>1. imem' = imem /\ res' = res
        BY <2>5 DEF BigStep, TakeBigFails, TakeBigBehind, TakeBig, Spoil, FreeBig, xptr_valid,
                    xptr_valid_small, vars, ivars
      <3> QED
        BY <3>1 DEF InUse, Damaged
    <2> HIDE DEF Step
    <2> QED
      BY <2>1, <2>2, <2>3, <2>4, <2>5 DEF Next, SmallStep
  <1> HIDE DEF Step
  <1>3. Spec => [][Step]_<< InUse, Damaged, res >>
    BY <1>2, Invariance, PTL DEF Spec
  <1> QED
    BY <1>1, <1>3, PTL DEF Spec, ImplementsPool, Step

----------------------------------------------------------------------------
(* How long the list of libc blocks lasts.                                 *)

\* Every entry in use stands for a block that is out or a failed request, and
\* the entry behind a list is only taken when the list is full.
CountInv ==
  /\ IsFiniteSet(libc)
  /\ Cardinality(BigUse) = Cardinality(libc) + fails
  /\ index = MaxLen => InUse = Index \/ BigUse = Index

LEMMA IndexFinite ==
  /\ IsFiniteSet(Index) /\ Cardinality(Index) = MaxLen
  /\ \A S \in SUBSET Index : IsFiniteSet(S)
  <1>1. IsFiniteSet(Index) /\ Cardinality(Index) = MaxLen
    BY FS_Interval, PoolsAssumption DEF Index
  <1> QED
    BY <1>1, FS_Subset

LEMMA InitCount == Init => CountInv
  <1> SUFFICES ASSUME Init PROVE CountInv
    OBVIOUS
  <1>1. BigUse = {}
    BY DEF Init, BigUse, BErased
  <1>2. index # MaxLen
    BY PoolsAssumption DEF Init
  <1> QED
    BY <1>1, <1>2, FS_EmptySet DEF Init, CountInv

LEMMA NextCount == IInv /\ CountInv /\ [Next]_vars => CountInv'
  <1> SUFFICES ASSUME IInv, CountInv, [Next]_vars PROVE CountInv'
    OBVIOUS
  <1> USE DEF CountInv
  <1>0. /\ IsFiniteSet(BigUse)
        /\ Cardinality(libc) \in Nat /\ Cardinality(BigUse) \in Nat /\ fails \in Nat
    BY IndexFinite, FS_CardinalityType, PoolsAssumption DEF BigUse, IInv, TypeOK
  <1>1. CASE SmallStep
    <2>1. bmem' = bmem /\ libc' = libc /\ fails' = fails
      BY <1>1, SmallSteps
    <2>2. CASE MallocSmall
      <3>1. CASE FirstSmall = MaxLen
        <4>1. \A j \in Index : j \notin Index \ InUse
          BY <3>1, FullScan, PoolsAssumption DEF FirstSmall, Index
        <4>2. imem' = imem
          BY <2>2, <3>1, PoolsAssumption DEF MallocSmall
        <4>3. InUse = Index
          BY <4>1 DEF InUse
        <4> QED
          BY <2>1, <4>2, <4>3 DEF InUse, BigUse
      <3>2. CASE FirstSmall # MaxLen
        BY <2>1, <2>2, <3>2 DEF MallocSmall, BigUse
      <3> QED
        BY <3>1, <3>2
    <2>3. CASE ~MallocSmall
      <3>1. index' = index /\ index < MaxLen
        BY <1>1, <2>3 DEF SmallStep, Overrun, OverrunFlags, FreeSmall, xptr_valid_small, Running
      <3> QED
        BY <2>1, <3>1, PoolsAssumption DEF BigUse, IInv, TypeOK
    <2> QED
      BY <2>2, <2>3
  <1>2. CASE TakeBigFails
    <2>1. PICK i \in Index : i = FirstBig /\ i \notin BigUse
      BY <1>2, FullScan DEF TakeBigFails, FirstBig
    <2>2. /\ bmem' = [bmem EXCEPT ![i].used = TRUE] /\ libc' = libc
          /\ fails' = fails + 1 /\ index' = i
      BY <1>2, <2>1 DEF TakeBigFails
    <2>3. BigUse' = BigUse \cup {i}
      <3>1. bmem[i] \in BEntry
        BY DEF IInv, TypeOK
      <3>2. bmem'[i].used /\ \A j \in Index : j # i => bmem'[j] = bmem[j]
        BY <2>2, <3>1 DEF IInv, TypeOK, BEntry
      <3> QED
        BY <3>2 DEF BigUse
    <2>4. Cardinality(BigUse') = Cardinality(BigUse) + 1
      BY <1>0, <2>1, <2>3, FS_AddElement
    <2> QED
      BY <1>0, <2>2, <2>4, <2>1, PoolsAssumption DEF Index
  <1>3. CASE TakeBigBehind
    <2>1. UNCHANGED << bmem, libc, fails >>
      BY <1>3 DEF TakeBigBehind, bvars
    <2>2. \A j \in Index : j \notin Index \ BigUse
      BY <1>3, FullScan, PoolsAssumption DEF TakeBigBehind, FirstBig, Index
    <2> QED
      BY <2>1, <2>2 DEF BigUse
  <1>4. ASSUME NEW a \in Addr, TakeBig(a) PROVE CountInv'
    <2>1. PICK i \in Index : i = FirstBig /\ i \notin BigUse
      BY <1>4, FullScan DEF TakeBig, FirstBig
    <2>2. /\ bmem' = [bmem EXCEPT ![i] = [used |-> TRUE, val |-> a]]
          /\ libc' = libc \cup {a} /\ a \notin libc /\ fails' = fails /\ index' = i
      BY <1>4, <2>1 DEF TakeBig
    <2>3. BigUse' = BigUse \cup {i}
      <3>1. bmem'[i].used /\ \A j \in Index : j # i => bmem'[j] = bmem[j]
        BY <2>2 DEF IInv, TypeOK
      <3> QED
        BY <3>1 DEF BigUse
    <2>4. Cardinality(BigUse') = Cardinality(BigUse) + 1
      BY <1>0, <2>1, <2>3, FS_AddElement
    <2>5. IsFiniteSet(libc') /\ Cardinality(libc') = Cardinality(libc) + 1
      BY <2>2, FS_AddElement
    <2> QED
      BY <1>0, <2>1, <2>2, <2>4, <2>5, PoolsAssumption DEF Index
  <1>5. ASSUME NEW a \in Addr, FreeBig(a) PROVE CountInv'
    <2> DEFINE i == Scan(0, MaxLen, {j \in BigUse : bmem[j].val = a})
    <2>1. index' = index /\ index < MaxLen /\ fails' = fails
      BY <1>5 DEF FreeBig, Running
    <2>0. PICK ok \in BOOLEAN :
            /\ ok => i < MaxLen
            /\ bmem' = IF ok THEN [bmem EXCEPT ![i] = BErased] ELSE bmem
            /\ libc' = IF ok THEN libc \ {a} ELSE libc
      BY <1>5, FreeBigChoice
    <2>2. CASE ok
      <3>1. i \in BigUse /\ bmem[i].val = a
        BY <2>0, <2>2, FullScan
      <3>2. bmem' = [bmem EXCEPT ![i] = BErased] /\ libc' = libc \ {a}
        BY <2>0, <2>2
      <3> HIDE DEF i
      <3>3. a \in libc
        BY <3>1, PoolsAssumption DEF IInv, ListDescribesLibc, BigUse
      <3>4. BigUse' = BigUse \ {i}
        <4>1. bmem'[i] = BErased /\ \A j \in Index : j # i => bmem'[j] = bmem[j]
          BY <3>1, <3>2 DEF IInv, TypeOK, BigUse
        <4> QED
          BY <4>1 DEF BigUse, BErased
      <3>5. Cardinality(BigUse') = Cardinality(BigUse) - 1
        BY <1>0, <3>1, <3>4, FS_RemoveElement
      <3>6. IsFiniteSet(libc') /\ Cardinality(libc') = Cardinality(libc) - 1
        BY <3>2, <3>3, FS_RemoveElement
      <3> QED
        BY <1>0, <2>1, <3>5, <3>6, PoolsAssumption DEF IInv, TypeOK
    <2>3. CASE ~ok
      <3>1. UNCHANGED << bmem, libc >>
        BY <2>0, <2>3
      <3> QED
        BY <2>1, <3>1, PoolsAssumption DEF BigUse, IInv, TypeOK
    <2> QED
      BY <2>2, <2>3
  <1>6. CASE \/ UNCHANGED vars
             \/ \E a \in Addr, what \in {"magic", "length"} : Spoil(a, what)
             \/ \E a \in Addr, inside \in BOOLEAN : xptr_valid(a, inside)
    BY <1>6 DEF Spoil, xptr_valid, vars, ivars, bvars, BigUse, InUse
  <1> QED
    BY <1>1, <1>2, <1>3, <1>4, <1>5, <1>6 DEF Next, BigStep

\* The entry behind a list is only taken when as many blocks are out as the
\* list has entries, counting the requests libc could not serve (101-117).
THEOREM ListsLast == Spec => []ListSuffices
  <1>1. ASSUME CountInv PROVE ListSuffices
    BY <1>1, IndexFinite DEF CountInv, ListSuffices
  <1> QED
    BY <1>1, InitCount, NextCount, Invariance, PTL DEF Spec
=============================================================================
