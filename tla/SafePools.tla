----------------------------- MODULE SafePools ------------------------------
(***************************************************************************)
(* The allocator of safe-malloc-free.c: a list of MaxLen entries that hold *)
(* small blocks themselves (imemblock_list) and a list of MaxLen entries   *)
(* that describe libc blocks (bmemblock_list), both searched from their    *)
(* first entry, and xptr_valid with the list index it caches.  Clients     *)
(* write past the end of small blocks into the next entry, write over the  *)
(* header of libc blocks, and free addresses they freed before.            *)
(*                                                                         *)
(* The loop body of both searches is the assertion on the index; when the  *)
(* list is full nothing stops the entry behind it from being taken.  What  *)
(* the program does after that is undefined, and the model stops there.    *)
(***************************************************************************)
EXTENDS LinearScan, FiniteSets

CONSTANTS
  MaxLen,    \* MEM_BLOCKS_MAX_LEN
  Addr,      \* the addresses libc's malloc can return
  MaxFail,   \* bound: times libc's malloc fails
  Null

ASSUME PoolsAssumption ==
  /\ MaxLen \in Nat \ {0}
  /\ MaxFail \in Nat
  /\ Null \notin Addr \cup Int

VARIABLES
  imem,     \* imemblock_list: is the entry in use, are its magic bytes and its size sound
  bmem,     \* bmemblock_list: is the entry in use, the address it describes
  libc,     \* the libc blocks that are out
  spoiled,  \* what was written over in the block that is out at each address
  cache,    \* the static index of xptr_valid
  index,    \* i of the last _malloc
  fails,    \* times libc's malloc failed
  aborted,  \* an assertion ended the program
  res,      \* the result of the last call for a small block
  bres,     \* the result of the last call for a libc block, and of xptr_valid
  breach    \* history: a client wrote over not_used and bytes of an entry

ivars == << imem, res >>
bvars == << bmem, libc, spoiled, cache, fails, bres >>
vars  == << ivars, bvars, index, aborted, breach >>

Index  == 0 .. MaxLen - 1
IEntry == [used : BOOLEAN, magic : BOOLEAN, sized : BOOLEAN]
BEntry == [used : BOOLEAN, val : Addr \cup {Null}]

\* Nothing is read of an entry that is not in use, and _malloc sets all of it.
IErased == [used |-> FALSE, magic |-> TRUE, sized |-> FALSE]
BErased == [used |-> FALSE, val |-> Null]

InUse  == {i \in Index : imem[i].used}
BigUse == {i \in Index : bmem[i].used}

\* The program runs: no assertion failed and no entry behind a list was taken.
Running == ~aborted /\ index < MaxLen

Init ==
  /\ imem = [i \in Index |-> IErased]
  /\ bmem = [i \in Index |-> BErased]
  /\ libc = {}
  /\ spoiled = [a \in Addr |-> "no"]
  /\ cache = MaxLen
  /\ index = 0
  /\ fails = 0
  /\ aborted = FALSE
  /\ res = << "none", Null >>
  /\ bres = << "none", Null >>
  /\ breach = FALSE

----------------------------------------------------------------------------
\* Faulty FirstSmall: entries in use are not stepped over.
FirstSmallAny == 0

FirstSmall == Scan(0, MaxLen, Index \ InUse)

MallocSmall ==
  /\ Running
  /\ index' = FirstSmall
  /\ res' = << "malloc", FirstSmall >>
  /\ imem' = IF FirstSmall < MaxLen
             THEN [imem EXCEPT ![FirstSmall] = [used |-> TRUE, magic |-> TRUE, sized |-> TRUE]]
             ELSE imem
  /\ UNCHANGED << bvars, aborted, breach >>

\* The client writes n bytes past the eight of a small block: the first is res1 of
\* its entry, the second res0 of the next.  Bound: nothing is written behind the list.
Overrun(i, n) ==
  /\ Running /\ imem[i].used /\ ~breach
  /\ n > 1 => i + 1 \in Index
  /\ imem' = [j \in Index |->
       [imem[j] EXCEPT !.magic = @ /\ j # i /\ ~(n > 1 /\ j = i + 1 /\ imem[j].used)]]
  /\ UNCHANGED << res, bvars, index, aborted, breach >>

\* The client writes a third byte, which is not_used (now ~u) and bytes (s: it is
\* still the size of a small block) of the next entry.  Bound: no write goes further,
\* and clients do not write past a block after it.
OverrunFlags(i, u, s) ==
  /\ Running /\ imem[i].used /\ ~breach
  /\ i + 1 \in Index
  /\ imem' = [imem EXCEPT ![i].magic = FALSE,
                          ![i + 1] = IF u THEN [used |-> TRUE, magic |-> FALSE, sized |-> s]
                                     ELSE IErased]
  /\ breach' = TRUE
  /\ UNCHANGED << res, bvars, index, aborted >>

\* _free of a pointer to a small entry, held or freed before; a refusal of
\* _xfree fails the assertion in _free.
FreeSmall(i) ==
  /\ Running
  /\ IF imem[i].used /\ imem[i].magic /\ imem[i].sized
     THEN /\ imem' = [imem EXCEPT ![i] = IErased]
          /\ res' = << "free", 0 >>
          /\ UNCHANGED aborted
     ELSE /\ aborted' = TRUE
          /\ res' = << "free", -1 >>
          /\ UNCHANGED imem
  /\ UNCHANGED << bvars, index, breach >>

\* xptr_valid of a pointer to a small entry, held or freed before; inside: pos + len
\* is at most bytes.  The magic bytes are not looked at.
xptr_valid_small(i, inside) ==
  /\ Running
  /\ bres' = << "valid", IF imem[i].used /\ imem[i].sized /\ inside THEN i ELSE Null >>
  /\ UNCHANGED << ivars, bmem, libc, spoiled, cache, fails, index, aborted, breach >>

----------------------------------------------------------------------------
FirstBig == Scan(0, MaxLen, Index \ BigUse)

\* The entry is marked before libc is asked, which places the block at a.
TakeBig(a) ==
  /\ Running /\ FirstBig < MaxLen
  /\ a \in Addr \ libc
  /\ index' = FirstBig
  /\ bmem' = [bmem EXCEPT ![FirstBig] = [used |-> TRUE, val |-> a]]
  /\ libc' = libc \cup {a}
  /\ bres' = << "malloc", a >>
  /\ UNCHANGED << ivars, spoiled, cache, fails, aborted, breach >>

\* libc has no memory: _malloc returns NULL with the entry marked.
TakeBigFails ==
  /\ Running /\ FirstBig < MaxLen
  /\ fails < MaxFail
  /\ fails' = fails + 1
  /\ index' = FirstBig
  /\ bmem' = [bmem EXCEPT ![FirstBig].used = TRUE]
  /\ bres' = << "malloc", Null >>
  /\ UNCHANGED << ivars, libc, spoiled, cache, aborted, breach >>

\* The list is full and the entry behind it is taken.
TakeBigBehind ==
  /\ Running /\ FirstBig = MaxLen
  /\ index' = FirstBig
  /\ UNCHANGED << ivars, bvars, aborted, breach >>

\* The client writes over a magic byte of its libc block or over its length.
Spoil(a, what) ==
  /\ Running /\ a \in libc /\ spoiled[a] = "no"
  /\ spoiled' = [spoiled EXCEPT ![a] = what]
  /\ UNCHANGED << ivars, bmem, libc, cache, fails, bres, index, aborted, breach >>

\* Whether the bytes around a libc block pass the tests.  With another length they
\* look for the last magic byte in another place and find anything.
Passes(a) == CASE spoiled[a] = "no" -> {TRUE} [] spoiled[a] = "magic" -> {FALSE} [] OTHER -> BOOLEAN

\* Faulty FreeBig: the block goes back to libc, its entry stays as it is.
FreeBigKeepsEntry(a) ==
  LET i == Scan(0, MaxLen, {j \in BigUse : bmem[j].val = a}) IN
  /\ Running
  /\ \E ok \in IF i < MaxLen THEN Passes(a) ELSE {FALSE} :
       /\ aborted' = ~ok
       /\ bmem' = bmem
       /\ libc' = IF ok THEN libc \ {a} ELSE libc
       /\ spoiled' = IF ok THEN [spoiled EXCEPT ![a] = "no"] ELSE spoiled
       /\ bres' = << "free", IF ok THEN 0 ELSE -1 >>
  /\ UNCHANGED << ivars, cache, fails, index, breach >>

\* _free of a libc block's address, held or freed before; a refusal of _xfree fails
\* the assertion in _free.
FreeBig(a) ==
  LET i == Scan(0, MaxLen, {j \in BigUse : bmem[j].val = a}) IN
  /\ Running
  /\ \E ok \in IF i < MaxLen THEN Passes(a) ELSE {FALSE} :
       /\ aborted' = ~ok
       /\ bmem' = IF ok THEN [bmem EXCEPT ![i] = BErased] ELSE bmem
       /\ libc' = IF ok THEN libc \ {a} ELSE libc
       /\ spoiled' = IF ok THEN [spoiled EXCEPT ![a] = "no"] ELSE spoiled
       /\ bres' = << "free", IF ok THEN 0 ELSE -1 >>
  /\ UNCHANGED << ivars, cache, fails, index, breach >>

\* Faulty Hit: any cached index is taken.
HitAny(a) == cache < MaxLen

\* xptr_valid of an address: the cached entry is taken on its address alone,
\* any other is looked up and checked; then the block's own bytes are read.
Hit(a) == cache < MaxLen /\ bmem[cache].val = a

\* Faulty Lookup: the search goes one entry too far.
LookupPast(a) == IF Hit(a) THEN cache ELSE Scan(0, MaxLen + 1, {j \in Index : bmem[j].val = a})

Lookup(a) == IF Hit(a) THEN cache ELSE Scan(0, MaxLen, {j \in Index : bmem[j].val = a})

\* xptr_valid gets as far as reading the bytes in front of the address.
Reads(a) == Lookup(a) < MaxLen /\ (Hit(a) \/ bmem[Lookup(a)].used)

\* inside: pos + len is at most the length the block's bytes say.
xptr_valid(a, inside) ==
  /\ Running
  /\ cache' = Lookup(a)
  /\ \E ok \in IF Reads(a) THEN Passes(a) ELSE {FALSE} :
       bres' = << "valid", IF ok /\ inside THEN a ELSE Null >>
  /\ UNCHANGED << ivars, bmem, libc, spoiled, fails, index, aborted, breach >>

----------------------------------------------------------------------------
SmallStep ==
  \/ MallocSmall
  \/ \E i \in Index :
       \/ \E n \in 1 .. 2 : Overrun(i, n)
       \/ \E u, s \in BOOLEAN : OverrunFlags(i, u, s)
       \/ FreeSmall(i)
       \/ \E inside \in BOOLEAN : xptr_valid_small(i, inside)

BigStep ==
  \/ TakeBigFails
  \/ TakeBigBehind
  \/ \E a \in Addr :
       \/ TakeBig(a)
       \/ \E what \in {"magic", "length"} : Spoil(a, what)
       \/ FreeBig(a)
       \/ \E inside \in BOOLEAN : xptr_valid(a, inside)

Next == SmallStep \/ BigStep

Spec == Init /\ [][Next]_vars

----------------------------------------------------------------------------
TypeOK ==
  /\ imem \in [Index -> IEntry]
  /\ bmem \in [Index -> BEntry]
  /\ libc \in SUBSET Addr
  /\ spoiled \in [Addr -> {"no", "magic", "length"}]
  /\ cache \in 0 .. MaxLen
  /\ index \in 0 .. MaxLen
  /\ fails \in 0 .. MaxFail
  /\ aborted \in BOOLEAN
  /\ breach \in BOOLEAN

\* bmemblock_list describes exactly the libc blocks that are out, each in one
\* entry that is in use, so the block of an address can be found to be freed
\* and none is lost (_malloc 111-125, _xfree 148-169).
ListDescribesLibc ==
  /\ \A i \in Index : bmem[i].val # Null => bmem[i].used /\ bmem[i].val \in libc
  /\ \A a \in libc : \E i \in Index : bmem[i].val = a
  /\ \A i, j \in Index : bmem[i].val = bmem[j].val /\ bmem[i].val # Null => i = j

\* xptr_valid only goes on to the bytes of a block that is out, also when it trusts
\* the index it cached in an earlier call and the block was freed since (188-210).
\* The last magic byte is the block's own as long as its length is (210).
ReadsLiveMemory == \A a \in Addr : Reads(a) => a \in libc

\* The list lasts as long as the promise on its size can be kept: the entry
\* behind a list is only taken when as many blocks are out as the list has
\* entries, counting one for each request libc could not serve, whose entry is
\* never used again (113-117).
ListSuffices ==
  index = MaxLen => \/ InUse = Index
                    \/ Cardinality(libc) + fails = MaxLen

\* What the assertions at lines 103 and 112 say: the search of _malloc ends at
\* an entry of its list.
AssertedIndex == index < MaxLen

Damaged == {i \in InUse : ~(imem[i].magic /\ imem[i].sized)}

Pool == INSTANCE BlockPool WITH
  Blocks  <- Index,
  live    <- InUse,
  damaged <- Damaged,
  res     <- res

\* Until the entry behind a list is taken or a client writes over not_used, the small
\* blocks are a block pool: one holder per entry, and a block comes back exactly when
\* it is out and undamaged (94-146).
ImplementsPool ==
  /\ Pool!Init
  /\ [][index' < MaxLen /\ ~breach' => Pool!Next]_<< InUse, Damaged, res >>
=============================================================================
