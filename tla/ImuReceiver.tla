---------------------------- MODULE ImuReceiver ----------------------------
(***************************************************************************)
(* The IMU receiver of can_scoket1.c: the thread IMUCanRecv writes the     *)
(* 8-byte CAN frames of IMU packets into the ring P_IMU_DATA and any       *)
(* number of threads call GetIMU to copy one record out of it.  One mutex, *)
(* imu_lock, protects the ring; the receiver takes it at the head frame of *)
(* a packet and keeps it over all the frames of the packet.                *)
(*                                                                         *)
(* The frames are arbitrary here (any frame may arrive at any time); the   *)
(* module ImuBus composes the receiver with a sender and a lossy bus.      *)
(*                                                                         *)
(* A byte position of the code is kept as a record [slot, part]: byte      *)
(* 8 * (slot * ImuFrames + part), where a slot is one imu_body and a part  *)
(* is the 8 bytes one data frame appends.                                  *)
(***************************************************************************)
EXTENDS Integers

CONSTANTS
  MaxImu,     \* MAX_IMU_NUM, the records of the ring
  ImuFrames,  \* sizeof(imu_body) / 8, the data frames of one record
  Pkt,        \* identities of the packets on the bus
  NoPkt,      \* the identity in memory no packet was written to
  DataCell,   \* the data-frame contents the bus may carry
  Reader,     \* the threads that call GetIMU
  Recv,       \* the receiver thread, as an owner of imu_lock
  Free        \* imu_lock is not held

Part == 0 .. ImuFrames - 1

\* The decoded content of one data frame: which packet, which part of it,
\* and whether its share of the quaternion keeps the norm of the whole in
\* the range Check4Q accepts.
Cell == [pkt : Pkt \cup {NoPkt}, part : Part, unit : BOOLEAN]

ASSUME ImuAssumption ==
  /\ MaxImu \in Nat \ {0}
  /\ ImuFrames \in Nat \ {0}
  /\ DataCell \subseteq Cell
  /\ Recv \notin Reader
  /\ Free \notin Reader \cup {Recv}
  /\ NoPkt \notin Pkt

VARIABLES
  buf,        \* P_IMU_DATA, MaxImu + 1 slots
  fetch_pos,  \* start of the packet being received, or of the last one
  store_pos,  \* where the next data frame goes
  bReady,     \* the ring has been filled once
  bIsAtti,    \* local to IMUCanRecv: inside a packet
  running,    \* imu_receive_running
  lock,       \* the owner of imu_lock
  rpc,        \* where the receiver thread is
  gpc,        \* where each reader is in GetIMU
  get_pos,    \* the slot each reader copies from
  copied,     \* how many parts each reader has copied
  imu,        \* each reader's output structure
  served      \* the last result of each reader's GetIMU

rvars == << buf, fetch_pos, store_pos, bReady, bIsAtti, rpc >>
gvars == << gpc, get_pos, copied, imu, served >>
vars  == << rvars, gvars, running, lock >>

----------------------------------------------------------------------------
(* Frames.  "atti" is the head of an IMU packet, "head" any other head,    *)
(* "tail8" a data frame whose last four bytes are the tail marker, "odd" a *)
(* frame whose length is neither 8 nor 4.                                  *)

Kind  == {"atti", "head", "data", "tail8", "tail4", "short4", "odd"}
Frame == [kind : Kind, cell : DataCell]

Dlc4(f)        == f.kind \in {"tail4", "short4"}
CheckIsAtti(f) == f.kind = "atti"
CheckIsHead(f) == f.kind \in {"atti", "head"}
CheckIsTail(f) == f.kind \in {"tail8", "tail4"}

Zero   == [pkt |-> NoPkt, part |-> 0, unit |-> FALSE]
Record == [Part -> Cell]

\* The quaternion of a record has components and a norm in range.
Check4Q(rec) == \A i \in Part : rec[i].unit

Begin == [slot |-> 0, part |-> 0]

\* store_pos after the eight bytes of one data frame.
After(pos) ==
  IF pos.part + 1 = ImuFrames
  THEN [slot |-> pos.slot + 1, part |-> 0]
  ELSE [slot |-> pos.slot, part |-> pos.part + 1]

----------------------------------------------------------------------------
Init ==
  /\ buf = [s \in 0 .. MaxImu |-> [i \in Part |-> Zero]]
  /\ fetch_pos = [slot |-> -1, part |-> 0]
  /\ store_pos = Begin
  /\ bReady = FALSE
  /\ bIsAtti = FALSE
  /\ running = TRUE
  /\ lock = Free
  /\ rpc = "setup"
  /\ gpc = [r \in Reader |-> "idle"]
  /\ get_pos = [r \in Reader |-> 0]
  /\ copied = [r \in Reader |-> 0]
  /\ imu = [r \in Reader |-> [i \in Part |-> Zero]]
  /\ served = [r \in Reader |-> FALSE]

----------------------------------------------------------------------------
(* The receiver thread.                                                    *)

\* SetFilter, GetKey, SetFilter, WaitImuReady: the thread returns when a
\* filter cannot be set (module ImuHandshake has the steps in between).
Setup ==
  /\ rpc = "setup"
  /\ rpc' \in {"clear", "done"}
  /\ UNCHANGED << buf, fetch_pos, store_pos, bReady, bIsAtti, running, lock, gvars >>

ClearReady ==
  /\ rpc = "clear"
  /\ bReady' = FALSE
  /\ rpc' = "test"
  /\ UNCHANGED << buf, fetch_pos, store_pos, bIsAtti, running, lock, gvars >>

\* Faulty TestRunning: the loop never looks at imu_receive_running.
LoopForever ==
  /\ rpc = "test"
  /\ rpc' = "read"
  /\ UNCHANGED << buf, fetch_pos, store_pos, bReady, bIsAtti, running, lock, gvars >>

TestRunning ==
  /\ rpc = "test"
  /\ rpc' = IF running THEN "read" ELSE "done"
  /\ UNCHANGED << buf, fetch_pos, store_pos, bReady, bIsAtti, running, lock, gvars >>

ReadFails ==
  /\ rpc = "read"
  /\ rpc' = "test"
  /\ UNCHANGED << buf, fetch_pos, store_pos, bReady, bIsAtti, running, lock, gvars >>

\* A frame that is not the head of an IMU packet, outside a packet.
Ignore(f) ==
  /\ rpc = "read" /\ ~bIsAtti /\ ~CheckIsAtti(f)
  /\ rpc' = "test"
  /\ UNCHANGED << buf, fetch_pos, store_pos, bReady, bIsAtti, running, lock, gvars >>

\* The head of an IMU packet: the receiver goes for the lock.
AttiHead(f) ==
  /\ rpc = "read" /\ ~bIsAtti /\ CheckIsAtti(f)
  /\ bIsAtti' = TRUE
  /\ rpc' = "lock"
  /\ UNCHANGED << buf, fetch_pos, store_pos, bReady, running, lock, gvars >>

\* Faulty LockRing: the packet is started without waiting for imu_lock.
StartUnlocked ==
  /\ rpc = "lock"
  /\ fetch_pos' = store_pos
  /\ rpc' = "test"
  /\ UNCHANGED << buf, store_pos, bReady, bIsAtti, running, lock, gvars >>

LockRing ==
  /\ rpc = "lock" /\ lock = Free
  /\ lock' = Recv
  /\ fetch_pos' = store_pos
  /\ rpc' = "test"
  /\ UNCHANGED << buf, store_pos, bReady, bIsAtti, running, gvars >>

\* A data frame inside a packet: its bytes go to store_pos.
Append8(f) ==
  /\ rpc = "read" /\ bIsAtti /\ f.kind = "data"
  /\ buf' = [buf EXCEPT ![store_pos.slot][store_pos.part] = f.cell]
  /\ store_pos' = After(store_pos)
  /\ rpc' = "wrap"
  /\ UNCHANGED << fetch_pos, bReady, bIsAtti, running, lock, gvars >>

\* Faulty Abort: the frames stored so far are not taken back.
AbortKeepsFrames(f) ==
  /\ rpc = "read" /\ bIsAtti
  /\ ~Dlc4(f) /\ f.kind # "data"
  /\ bIsAtti' = FALSE
  /\ lock' = Free
  /\ rpc' = "wrap"
  /\ UNCHANGED << buf, fetch_pos, store_pos, bReady, running, gvars >>

\* Faulty Abort: the early way out of a packet forgets the unlock.
AbortKeepsLock(f) ==
  /\ rpc = "read" /\ bIsAtti
  /\ ~Dlc4(f) /\ f.kind # "data"
  /\ store_pos' = fetch_pos
  /\ bIsAtti' = FALSE
  /\ rpc' = "wrap"
  /\ UNCHANGED << buf, fetch_pos, bReady, running, lock, gvars >>

\* A head or a tail where data is due, or a frame of another length.
Abort(f) ==
  /\ rpc = "read" /\ bIsAtti
  /\ ~Dlc4(f) /\ f.kind # "data"
  /\ store_pos' = fetch_pos
  /\ bIsAtti' = FALSE
  /\ lock' = Free
  /\ rpc' = "wrap"
  /\ UNCHANGED << buf, fetch_pos, bReady, running, gvars >>

\* Faulty Accepts: the length of the packet is not tested.
AcceptsAnyLength(f) == CheckIsTail(f) /\ Check4Q(buf[fetch_pos.slot])

\* A 4-byte frame ends the packet; its record stays when it is complete,
\* the frame is the tail and the quaternion of the first record is sound.
Accepts(f) ==
  /\ store_pos.part = 0
  /\ CheckIsTail(f)
  /\ Check4Q(buf[fetch_pos.slot])

EndPacket(f) ==
  /\ rpc = "read" /\ bIsAtti /\ Dlc4(f)
  /\ store_pos' = IF Accepts(f) THEN store_pos ELSE fetch_pos
  /\ bIsAtti' = FALSE
  /\ lock' = Free
  /\ rpc' = "wrap"
  /\ UNCHANGED << buf, fetch_pos, bReady, running, gvars >>

\* Faulty Wrap: off by one at the end of the ring.
WrapLate ==
  /\ rpc = "wrap"
  /\ IF store_pos.slot > MaxImu
     THEN store_pos' = Begin /\ bReady' = TRUE
     ELSE UNCHANGED << store_pos, bReady >>
  /\ rpc' = "test"
  /\ UNCHANGED << buf, fetch_pos, bIsAtti, running, lock, gvars >>

\* Faulty Wrap: the ring is only wrapped when the packet is over.
WrapAfterPacket ==
  /\ rpc = "wrap"
  /\ IF store_pos.slot >= MaxImu /\ ~bIsAtti
     THEN store_pos' = Begin /\ bReady' = TRUE
     ELSE UNCHANGED << store_pos, bReady >>
  /\ rpc' = "test"
  /\ UNCHANGED << buf, fetch_pos, bIsAtti, running, lock, gvars >>

\* The code after each frame of a packet; it runs after the unlock too.
Wrap ==
  /\ rpc = "wrap"
  /\ IF store_pos.slot >= MaxImu
     THEN store_pos' = Begin /\ bReady' = TRUE
     ELSE UNCHANGED << store_pos, bReady >>
  /\ rpc' = "test"
  /\ UNCHANGED << buf, fetch_pos, bIsAtti, running, lock, gvars >>

RecvFrame(f) ==
  Ignore(f) \/ AttiHead(f) \/ Append8(f) \/ Abort(f) \/ EndPacket(f)

----------------------------------------------------------------------------
(* GetIMU, in the thread r.                                                *)

GetIMU(r) ==
  /\ gpc[r] = "idle"
  /\ gpc' = [gpc EXCEPT ![r] = "lock"]
  /\ UNCHANGED << rvars, running, lock, get_pos, copied, imu, served >>

\* Faulty SlotToGet: the record the receiver writes next.
SlotInProgress == fetch_pos.slot

\* The record before the packet that was started last.
SlotToGet == IF fetch_pos = Begin THEN MaxImu - 1 ELSE fetch_pos.slot - 1

Acquire(r) ==
  /\ gpc[r] = "lock" /\ lock = Free
  /\ lock' = r
  /\ IF bReady
     THEN /\ get_pos' = [get_pos EXCEPT ![r] = SlotToGet]
          /\ copied' = [copied EXCEPT ![r] = 0]
          /\ gpc' = [gpc EXCEPT ![r] = "copy"]
          /\ UNCHANGED served
     ELSE /\ served' = [served EXCEPT ![r] = FALSE]
          /\ gpc' = [gpc EXCEPT ![r] = "unlock"]
          /\ UNCHANGED << get_pos, copied >>
  /\ UNCHANGED << rvars, running, imu >>

CopyPart(r) ==
  /\ gpc[r] = "copy" /\ copied[r] < ImuFrames
  /\ imu' = [imu EXCEPT ![r][copied[r]] = buf[get_pos[r]][copied[r]]]
  /\ copied' = [copied EXCEPT ![r] = @ + 1]
  /\ UNCHANGED << rvars, running, lock, gpc, get_pos, served >>

Copied(r) ==
  /\ gpc[r] = "copy" /\ copied[r] = ImuFrames
  /\ served' = [served EXCEPT ![r] = TRUE]
  /\ gpc' = [gpc EXCEPT ![r] = "unlock"]
  /\ UNCHANGED << rvars, running, lock, get_pos, copied, imu >>

Unlock(r) ==
  /\ gpc[r] = "unlock"
  /\ lock' = Free
  /\ gpc' = [gpc EXCEPT ![r] = "idle"]
  /\ UNCHANGED << rvars, running, get_pos, copied, imu, served >>

\* exit_imu_receive, from any thread; it takes no lock.
exit_imu_receive ==
  /\ running
  /\ running' = FALSE
  /\ UNCHANGED << rvars, lock, gvars >>

----------------------------------------------------------------------------
ReaderStep(r) == GetIMU(r) \/ Acquire(r) \/ CopyPart(r) \/ Copied(r) \/ Unlock(r)
ReceiverStep  == Setup \/ ClearReady \/ TestRunning \/ ReadFails \/ LockRing \/ Wrap

Next ==
  \/ ReceiverStep
  \/ \E f \in Frame : RecvFrame(f)
  \/ \E r \in Reader : ReaderStep(r)
  \/ exit_imu_receive

Spec == Init /\ [][Next]_vars

\* The scheduler runs both threads; frames keep coming, and among them ones
\* that end the packet being received; a waiter gets a mutex that is freed
\* again and again (the receiver sleeps in read() after each unlock).
Fairness ==
  /\ WF_vars(ClearReady \/ TestRunning \/ Wrap)
  /\ WF_vars(\E f \in Frame : RecvFrame(f))
  /\ SF_vars(\E f \in Frame : Abort(f) \/ EndPacket(f))
  /\ SF_vars(LockRing)
  /\ \A r \in Reader : SF_vars(Acquire(r)) /\ WF_vars(CopyPart(r) \/ Copied(r) \/ Unlock(r))

LiveSpec == Spec /\ Fairness

----------------------------------------------------------------------------
TypeOK ==
  /\ buf \in [0 .. MaxImu -> Record]
  /\ fetch_pos \in [slot : -1 .. MaxImu, part : Part]
  /\ store_pos \in [slot : 0 .. MaxImu, part : Part]
  /\ bReady \in BOOLEAN
  /\ bIsAtti \in BOOLEAN
  /\ running \in BOOLEAN
  /\ lock \in Reader \cup {Recv, Free}
  /\ rpc \in {"setup", "clear", "test", "read", "lock", "wrap", "done"}
  /\ gpc \in [Reader -> {"idle", "lock", "copy", "unlock"}]
  /\ get_pos \in [Reader -> -1 .. MaxImu]
  /\ copied \in [Reader -> 0 .. ImuFrames]
  /\ imu \in [Reader -> Record]
  /\ served \in [Reader -> BOOLEAN]

\* imu_lock has the owner the control flow says it has: the receiver exactly
\* while it is inside a packet it has started, a reader exactly while it is
\* between its lock and its unlock (IMUCanRecv 156-207, GetIMU 225-257).
LockOwner ==
  /\ lock = Recv <=> (bIsAtti /\ rpc # "lock")
  /\ \A r \in Reader : lock = r <=> gpc[r] \in {"copy", "unlock"}

\* The writes stay inside the ring: when a data frame can arrive store_pos is
\* below end_pos, so the spare record behind the ring is never written, and
\* outside a packet it is at the start of a record; store_pos reaches end_pos
\* only inside a packet; fetch_pos is the start of a record, of a real one as
\* soon as a packet or a reader needs it (lines 152-213, 229-236).
StoreInRing ==
  /\ rpc # "wrap" \/ ~bIsAtti => store_pos.slot < MaxImu
  /\ rpc = "lock" \/ ~bIsAtti \/ store_pos.slot = MaxImu => store_pos.part = 0
  /\ fetch_pos.part = 0 /\ fetch_pos.slot < MaxImu
  /\ bReady \/ (bIsAtti /\ rpc # "lock") => fetch_pos.slot >= 0
  /\ rpc = "lock" => bIsAtti
  /\ rpc \in {"setup", "clear"} => ~bIsAtti /\ ~bReady
  /\ buf[MaxImu] = [i \in Part |-> Zero]

\* A reader copies from a record of the ring, and what it has copied is what
\* the ring still holds there: no frame lands in it meanwhile (225-257).
NoTornRead ==
  \A r \in Reader : gpc[r] = "copy" =>
    /\ get_pos[r] \in 0 .. MaxImu - 1
    /\ \A i \in Part : i < copied[r] => imu[r][i] = buf[get_pos[r]][i]

\* The wrap test stands after the unlock (lines 206-213), but the wrap itself,
\* and the announcement that the ring is full, only happens with the lock.
WrapUnderLock ==
  [][(bReady' # bReady \/ store_pos'.slot < store_pos.slot) => lock = Recv]_vars

\* A thread waiting in GetIMU gets its turn, unless the receiver returned in
\* the middle of a packet and took the lock with it (152, 218, 413).
ReaderServed ==
  \A r \in Reader :
    gpc[r] = "lock" ~> (gpc[r] = "unlock" \/ (rpc = "done" /\ lock = Recv))

\* After exit_imu_receive the receiver thread ends: no lock and no packet it
\* waits for keeps it (413, 152).
ExitEnds == (~running /\ rpc # "setup") ~> rpc = "done"
=============================================================================
