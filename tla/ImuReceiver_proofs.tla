------------------------ MODULE ImuReceiver_proofs -------------------------
(***************************************************************************)
(* Safety of the IMU receiver for every ring size, every record length,    *)
(* every set of reader threads and every stream of frames; and, for the    *)
(* frames of the bus, that readers get whole records and that the ring     *)
(* implements the latched register.                                        *)
(***************************************************************************)
EXTENDS ImuBus, TLAPS

\* The inductive invariant: none of the conjuncts is inductive alone.  The
\* bounds of the positions need the lock's owner (a position below the end is
\* only passed inside a packet), the lock's owner needs the phases of the
\* receiver, and a reader's copy needs both.
IInv == TypeOK /\ LockOwner /\ StoreInRing /\ NoTornRead

LEMMA PartFacts == 0 \in Part /\ Zero \in Cell /\ [i \in Part |-> Zero] \in Record
  <1>1. 0 \in Part
    BY ImuAssumption DEF Part
  <1>2. Zero \in Cell
    BY <1>1 DEF Zero, Cell
  <1> QED
    BY <1>1, <1>2 DEF Record

\* A frame of any content: those of Spec and those of the bus.
AnyFrame == [kind : Kind, cell : Cell]

LEMMA FrameIsAny == Frame \subseteq AnyFrame
  BY ImuAssumption DEF Frame, AnyFrame

\* store_pos moves to the next part, or to the start of the next slot.
LEMMA AfterType ==
  ASSUME NEW pos \in [slot : 0 .. MaxImu, part : Part], pos.slot < MaxImu
  PROVE  /\ After(pos) \in [slot : 0 .. MaxImu, part : Part]
         /\ After(pos).slot = MaxImu => After(pos).part = 0
  BY ImuAssumption DEF After, Part

LEMMA InitIInv == Init => IInv
  <1> SUFFICES ASSUME Init PROVE IInv
    OBVIOUS
  <1>1. TypeOK
    <2>1. buf \in [0 .. MaxImu -> Record] /\ imu \in [Reader -> Record]
      BY PartFacts DEF Init
    <2>2. /\ fetch_pos \in [slot : -1 .. MaxImu, part : Part]
          /\ store_pos \in [slot : 0 .. MaxImu, part : Part]
      BY PartFacts, ImuAssumption DEF Init, Begin
    <2>3. lock \in Reader \cup {Recv, Free}
      BY DEF Init
    <2>4. /\ get_pos \in [Reader -> -1 .. MaxImu]
          /\ copied \in [Reader -> 0 .. ImuFrames]
      BY ImuAssumption DEF Init
    <2> QED
      BY <2>1, <2>2, <2>3, <2>4 DEF Init, TypeOK
  <1>2. LockOwner
    BY ImuAssumption DEF Init, LockOwner
  <1>3. StoreInRing
    BY ImuAssumption DEF Init, StoreInRing, Begin
  <1>4. NoTornRead
    BY DEF Init, NoTornRead
  <1> QED
    BY <1>1, <1>2, <1>3, <1>4 DEF IInv

\* The receiver holds the lock only inside a packet it has started; then no
\* reader is copying.
LEMMA HoldingExcludesReaders ==
  ASSUME IInv, bIsAtti, rpc # "lock"
  PROVE  lock = Recv /\ \A r \in Reader : gpc[r] \notin {"copy", "unlock"}
  BY ImuAssumption DEF IInv, LockOwner

\* The steps of the receiver that touch neither the ring nor the lock.
LEMMA QuietReceiver ==
  ASSUME IInv, Setup \/ TestRunning \/ ReadFails \/ (\E f \in AnyFrame : Ignore(f))
  PROVE  IInv'
  <1> USE DEF IInv, Setup, TestRunning, ReadFails, Ignore, gvars
  <1>1. TypeOK'
    BY DEF TypeOK
  <1>2. LockOwner'
    BY DEF LockOwner, StoreInRing
  <1>3. StoreInRing'
    BY DEF StoreInRing
  <1>4. NoTornRead'
    BY DEF NoTornRead
  <1> QED
    BY <1>1, <1>2, <1>3, <1>4

LEMMA ClearReadyStep == ASSUME IInv, ClearReady PROVE IInv'
  <1> USE DEF IInv, ClearReady, gvars
  <1>1. TypeOK'
    BY DEF TypeOK
  <1>2. LockOwner'
    BY DEF LockOwner, StoreInRing
  <1>3. StoreInRing'
    BY DEF StoreInRing
  <1>4. NoTornRead'
    BY DEF NoTornRead
  <1> QED
    BY <1>1, <1>2, <1>3, <1>4

LEMMA AttiHeadStep == ASSUME IInv, NEW f \in AnyFrame, AttiHead(f) PROVE IInv'
  <1> USE DEF IInv, AttiHead, gvars
  <1>1. TypeOK'
    BY DEF TypeOK
  <1>2. LockOwner'
    BY DEF LockOwner
  <1>3. StoreInRing'
    BY DEF StoreInRing
  <1>4. NoTornRead'
    BY DEF NoTornRead
  <1> QED
    BY <1>1, <1>2, <1>3, <1>4

LEMMA LockRingStep == ASSUME IInv, LockRing PROVE IInv'
  <1> USE DEF IInv, LockRing, gvars
  <1>1. TypeOK'
    BY DEF TypeOK, StoreInRing
  <1>2. LockOwner'
    BY ImuAssumption DEF LockOwner, StoreInRing
  <1>3. StoreInRing'
    BY DEF StoreInRing, TypeOK
  <1>4. NoTornRead'
    BY DEF NoTornRead
  <1> QED
    BY <1>1, <1>2, <1>3, <1>4

LEMMA Append8Step == ASSUME IInv, NEW f \in AnyFrame, Append8(f) PROVE IInv'
  <1> USE DEF IInv, Append8, gvars
  <1>0. /\ store_pos.slot < MaxImu
        /\ store_pos.slot \in 0 .. MaxImu - 1
        /\ store_pos.part \in Part
    BY ImuAssumption DEF TypeOK, StoreInRing
  <1>1. TypeOK'
    <2>1. f.cell \in Cell
      BY DEF AnyFrame
    <2>2. buf' \in [0 .. MaxImu -> Record]
      BY <2>1 DEF TypeOK, Record
    <2>3. store_pos' \in [slot : 0 .. MaxImu, part : Part]
      BY <1>0, AfterType DEF TypeOK
    <2> QED
      BY <2>2, <2>3 DEF TypeOK
  <1>2. LockOwner'
    BY DEF LockOwner
  <1>3. StoreInRing'
    <2>1. store_pos'.slot = MaxImu => store_pos'.part = 0
      BY <1>0, AfterType DEF TypeOK
    <2>2. buf'[MaxImu] = buf[MaxImu]
      BY <1>0, ImuAssumption DEF TypeOK
    <2> QED
      BY <2>1, <2>2 DEF StoreInRing
  <1>4. NoTornRead'
    BY HoldingExcludesReaders DEF NoTornRead
  <1> QED
    BY <1>1, <1>2, <1>3, <1>4

LEMMA AbortStep == ASSUME IInv, NEW f \in AnyFrame, Abort(f) PROVE IInv'
  <1> USE DEF IInv, Abort, gvars
  <1>1. TypeOK'
    <2>1. fetch_pos \in [slot : 0 .. MaxImu, part : Part]
      BY DEF TypeOK, StoreInRing
    <2> QED
      BY <2>1 DEF TypeOK
  <1>2. LockOwner'
    BY HoldingExcludesReaders, ImuAssumption DEF LockOwner
  <1>3. StoreInRing'
    BY ImuAssumption DEF StoreInRing, TypeOK
  <1>4. NoTornRead'
    BY DEF NoTornRead
  <1> QED
    BY <1>1, <1>2, <1>3, <1>4

LEMMA EndPacketStep == ASSUME IInv, NEW f \in AnyFrame, EndPacket(f) PROVE IInv'
  <1> USE DEF IInv, EndPacket, gvars
  <1>1. TypeOK'
    <2>1. fetch_pos \in [slot : 0 .. MaxImu, part : Part]
      BY DEF TypeOK, StoreInRing
    <2>2. store_pos' \in [slot : 0 .. MaxImu, part : Part]
      BY <2>1 DEF TypeOK
    <2> QED
      BY <2>2 DEF TypeOK
  <1>2. LockOwner'
    BY HoldingExcludesReaders, ImuAssumption DEF LockOwner
  <1>3. StoreInRing'
    BY ImuAssumption DEF StoreInRing, TypeOK, Accepts
  <1>4. NoTornRead'
    BY DEF NoTornRead
  <1> QED
    BY <1>1, <1>2, <1>3, <1>4

LEMMA WrapStep == ASSUME IInv, Wrap PROVE IInv'
  <1> USE DEF IInv, Wrap, gvars
  <1>1. TypeOK'
    <2>1. Begin \in [slot : 0 .. MaxImu, part : Part]
      BY PartFacts, ImuAssumption DEF Begin
    <2>2. store_pos' \in [slot : 0 .. MaxImu, part : Part] /\ bReady' \in BOOLEAN
      BY <2>1 DEF TypeOK
    <2> QED
      BY <2>2 DEF TypeOK
  <1>2. LockOwner'
    BY DEF LockOwner
  <1>3. StoreInRing'
    BY ImuAssumption DEF StoreInRing, TypeOK, Begin
  <1>4. NoTornRead'
    BY DEF NoTornRead
  <1> QED
    BY <1>1, <1>2, <1>3, <1>4

LEMMA GetIMUStep == ASSUME IInv, NEW r \in Reader, GetIMU(r) PROVE IInv'
  <1> USE DEF IInv, GetIMU, rvars
  <1>1. TypeOK'
    BY DEF TypeOK
  <1>2. LockOwner'
    BY DEF LockOwner, TypeOK
  <1>3. StoreInRing'
    BY DEF StoreInRing
  <1>4. NoTornRead'
    BY DEF NoTornRead, TypeOK
  <1> QED
    BY <1>1, <1>2, <1>3, <1>4

\* A reader that finds the ring ready is sent to a record of the ring.
LEMMA SlotToGetInRing ==
  ASSUME IInv, bReady
  PROVE  SlotToGet \in 0 .. MaxImu - 1
  BY ImuAssumption DEF IInv, TypeOK, StoreInRing, SlotToGet, Begin

LEMMA AcquireStep == ASSUME IInv, NEW r \in Reader, Acquire(r) PROVE IInv'
  <1> USE DEF IInv, Acquire, rvars
  <1>1. TypeOK'
    <2>1. CASE bReady
      <3>1. SlotToGet \in -1 .. MaxImu
        BY <2>1, SlotToGetInRing, ImuAssumption
      <3>2. 0 \in 0 .. ImuFrames
        BY ImuAssumption
      <3>3. /\ get_pos' = [get_pos EXCEPT ![r] = SlotToGet]
            /\ copied' = [copied EXCEPT ![r] = 0]
            /\ gpc' = [gpc EXCEPT ![r] = "copy"]
            /\ served' = served
        BY <2>1
      <3> QED
        BY <3>1, <3>2, <3>3 DEF TypeOK
    <2>2. CASE ~bReady
      BY <2>2 DEF TypeOK
    <2> QED
      BY <2>1, <2>2
  <1>2. LockOwner'
    <2>1. gpc' = [gpc EXCEPT ![r] = gpc'[r]] /\ gpc'[r] \in {"copy", "unlock"}
      BY DEF TypeOK
    <2> QED
      BY <2>1, ImuAssumption DEF LockOwner, TypeOK
  <1>3. StoreInRing'
    BY DEF StoreInRing
  <1>4. NoTornRead'
    <2>1. CASE bReady
      BY <2>1, SlotToGetInRing, ImuAssumption DEF NoTornRead, TypeOK, Part
    <2>2. CASE ~bReady
      BY <2>2 DEF NoTornRead, TypeOK
    <2> QED
      BY <2>1, <2>2
  <1> QED
    BY <1>1, <1>2, <1>3, <1>4

LEMMA CopyPartStep == ASSUME IInv, NEW r \in Reader, CopyPart(r) PROVE IInv'
  <1> USE DEF IInv, CopyPart, rvars
  <1>0. copied[r] \in Part /\ get_pos[r] \in 0 .. MaxImu
    BY ImuAssumption DEF TypeOK, Part, NoTornRead
  <1>1. TypeOK'
    <2>1. imu' \in [Reader -> Record]
      BY <1>0 DEF TypeOK, Record
    <2>2. copied' \in [Reader -> 0 .. ImuFrames]
      BY ImuAssumption DEF TypeOK
    <2> QED
      BY <2>1, <2>2 DEF TypeOK
  <1>2. LockOwner'
    BY DEF LockOwner
  <1>3. StoreInRing'
    BY DEF StoreInRing
  <1>4. NoTornRead'
    <2> SUFFICES ASSUME NEW q \in Reader, gpc[q] = "copy", NEW i \in Part, i < copied'[q]
                 PROVE  imu'[q][i] = buf[get_pos[q]][i]
      BY DEF NoTornRead
    <2>1. CASE q = r
      <3>1. imu'[q] = [imu[q] EXCEPT ![copied[q]] = buf[get_pos[q]][copied[q]]]
        BY <2>1 DEF TypeOK
      <3>2. copied'[q] = copied[q] + 1
        BY <2>1 DEF TypeOK
      <3>3. i = copied[q] \/ i < copied[q]
        BY <3>2 DEF TypeOK, Part
      <3> QED
        BY <3>1, <3>3 DEF NoTornRead, TypeOK, Record
    <2>2. CASE q # r
      BY <2>2 DEF NoTornRead, TypeOK
    <2> QED
      BY <2>1, <2>2
  <1> QED
    BY <1>1, <1>2, <1>3, <1>4

LEMMA CopiedStep == ASSUME IInv, NEW r \in Reader, Copied(r) PROVE IInv'
  <1> USE DEF IInv, Copied, rvars
  <1>1. TypeOK'
    BY DEF TypeOK
  <1>2. LockOwner'
    BY DEF LockOwner, TypeOK
  <1>3. StoreInRing'
    BY DEF StoreInRing
  <1>4. NoTornRead'
    BY DEF NoTornRead, TypeOK
  <1> QED
    BY <1>1, <1>2, <1>3, <1>4

LEMMA UnlockStep == ASSUME IInv, NEW r \in Reader, Unlock(r) PROVE IInv'
  <1> USE DEF IInv, Unlock, rvars
  <1>1. TypeOK'
    BY DEF TypeOK
  <1>2. LockOwner'
    BY ImuAssumption DEF LockOwner, TypeOK
  <1>3. StoreInRing'
    BY DEF StoreInRing
  <1>4. NoTornRead'
    BY DEF NoTornRead, TypeOK
  <1> QED
    BY <1>1, <1>2, <1>3, <1>4

LEMMA ExitStep == ASSUME IInv, exit_imu_receive \/ UNCHANGED vars PROVE IInv'
  <1> USE DEF IInv, exit_imu_receive, vars, rvars, gvars
  <1>1. TypeOK'
    BY DEF TypeOK
  <1>2. LockOwner' /\ StoreInRing' /\ NoTornRead'
    BY DEF LockOwner, StoreInRing, NoTornRead
  <1> QED
    BY <1>1, <1>2

LEMMA RecvFrameStep == ASSUME IInv, NEW f \in AnyFrame, RecvFrame(f) PROVE IInv'
  BY QuietReceiver, AttiHeadStep, Append8Step, AbortStep, EndPacketStep DEF RecvFrame

LEMMA ReceiverSteps == ASSUME IInv, ReceiverStep PROVE IInv'
  BY QuietReceiver, ClearReadyStep, LockRingStep, WrapStep DEF ReceiverStep

LEMMA ReaderSteps == ASSUME IInv, NEW r \in Reader, ReaderStep(r) PROVE IInv'
  BY GetIMUStep, AcquireStep, CopyPartStep, CopiedStep, UnlockStep DEF ReaderStep

LEMMA NextIInv == IInv /\ [Next]_vars => IInv'
  <1> SUFFICES ASSUME IInv, [Next]_vars PROVE IInv'
    OBVIOUS
  <1>1. ASSUME NEW f \in Frame, RecvFrame(f) PROVE IInv'
    BY <1>1, RecvFrameStep, FrameIsAny
  <1> QED
    BY <1>1, ReceiverSteps, ReaderSteps, ExitStep DEF Next

LEMMA Invariance == Spec => []IInv
  BY InitIInv, NextIInv, PTL DEF Spec

----------------------------------------------------------------------------
\* Every variable of the receiver and of the readers keeps its type, for any
\* stream of frames.
THEOREM TypeCorrect == Spec => []TypeOK
  <1>1. IInv => TypeOK
    BY DEF IInv
  <1> QED
    BY <1>1, Invariance, PTL

\* imu_lock is held by the thread whose control flow says so, over every way
\* out of a packet and of GetIMU; so two threads are never inside together.
THEOREM LockOwnerCorrect == Spec => []LockOwner
  <1>1. IInv => LockOwner
    BY DEF IInv
  <1> QED
    BY <1>1, Invariance, PTL

\* The receiver never writes past the ring, whatever arrives and however the
\* packets are cut, joined or aborted.
THEOREM StoreStaysInRing == Spec => []StoreInRing
  <1>1. IInv => StoreInRing
    BY DEF IInv
  <1> QED
    BY <1>1, Invariance, PTL

\* No reader's copy is disturbed by the receiver.
THEOREM ReadsAreAtomic == Spec => []NoTornRead
  <1>1. IInv => NoTornRead
    BY DEF IInv
  <1> QED
    BY <1>1, Invariance, PTL

\* The ring wraps and is announced full only while the receiver holds the lock,
\* although the code that does it stands behind the unlock.
THEOREM WrapIsLocked == Spec => WrapUnderLock
  <1>1. IInv /\ [Next]_vars =>
          [(bReady' # bReady \/ store_pos'.slot < store_pos.slot) => lock = Recv]_vars
    <2> SUFFICES ASSUME IInv, Next, bReady' # bReady \/ store_pos'.slot < store_pos.slot
                 PROVE  lock = Recv
      OBVIOUS
    <2> USE DEF IInv
    <2>1. CASE Wrap
      BY <2>1, HoldingExcludesReaders, ImuAssumption DEF Wrap, StoreInRing, TypeOK
    <2>2. ASSUME NEW f \in Frame, Abort(f) \/ EndPacket(f) PROVE lock = Recv
      BY <2>2, HoldingExcludesReaders DEF Abort, EndPacket
    <2>3. ASSUME NEW f \in Frame, Append8(f) PROVE lock = Recv
      BY <2>3, HoldingExcludesReaders DEF Append8
    <2>4. ASSUME bReady' = bReady, store_pos' = store_pos PROVE FALSE
      BY <2>4 DEF TypeOK
    <2>5. CASE ClearReady
      <3>1. bReady = FALSE
        BY <2>5 DEF ClearReady, StoreInRing, TypeOK
      <3> QED
        BY <2>4, <2>5, <3>1 DEF ClearReady
    <2>6. CASE Setup \/ TestRunning \/ ReadFails \/ LockRing \/ exit_imu_receive
      BY <2>4, <2>6 DEF Setup, TestRunning, ReadFails, LockRing, exit_imu_receive, rvars
    <2>7. ASSUME NEW f \in Frame, Ignore(f) \/ AttiHead(f) PROVE lock = Recv
      BY <2>4, <2>7 DEF Ignore, AttiHead
    <2>8. ASSUME NEW r \in Reader, ReaderStep(r) PROVE lock = Recv
      BY <2>4, <2>8 DEF ReaderStep, GetIMU, Acquire, CopyPart, Copied, Unlock, rvars
    <2> QED
      BY <2>1, <2>2, <2>3, <2>5, <2>6, <2>7, <2>8 DEF Next, ReceiverStep, RecvFrame
  <1> QED
    BY <1>1, Invariance, PTL DEF Spec, WrapUnderLock

----------------------------------------------------------------------------
(* The receiver on the bus: what a reader gets, whatever is lost.          *)

\* The record the packet being received starts with: LockRing sets fetch_pos.
StartSlot == IF rpc = "lock" THEN store_pos.slot ELSE fetch_pos.slot

\* Data frames of the packet being sent that were sent.
Done == IF idx = 0 THEN 0 ELSE idx - 1

\* The receiver took the head d packets ago, e data frames were lost since, and
\* it has filled n records since: the position follows from these.
At(d, e, n) ==
  /\ e + 2 * d - (IF idx = 0 THEN 1 ELSE 0) <= lost
  /\ d = 0 => idx > 0 /\ e <= Done
  /\ \/ n = d /\ store_pos.part = Done - e
     \/ n = d + 1 /\ store_pos.part = Done - e - ImuFrames
     \/ n = d - 1 /\ store_pos.part = Done - e + ImuFrames
  /\ store_pos.slot \in {StartSlot + n, StartSlot + n - MaxImu}

\* As long as no data frame was lost, what was stored is whole.
Stored(d, e, n) ==
  e = 0 =>
    /\ n > 0 => Whole(buf[Pred(store_pos.slot)])
    /\ n = 1 /\ d = 0 => buf[Pred(store_pos.slot)][0].pkt = pkt
    /\ \A i \in Part : i < store_pos.part =>
         buf[store_pos.slot][i].part = i /\ buf[store_pos.slot][i].pkt = pkt

PacketInv == bIsAtti => \E d, e, n \in Nat : At(d, e, n) /\ Stored(d, e, n)

\* The record before the packet is whole, once there is one: this is the one
\* readers get.
RingInv ==
  /\ fetch_pos.slot >= 0 /\ (bReady \/ fetch_pos.slot > 0) => Whole(buf[Pred(fetch_pos.slot)])
  /\ lock # Recv /\ (bReady \/ store_pos.slot > 0) => Whole(buf[Pred(store_pos.slot)])

CopyInv ==
  \A r \in Reader :
    /\ gpc[r] = "copy" => Whole(buf[get_pos[r]])
    /\ Served(r) => Whole(imu[r])

StampInv == lost <= 1 => Stamped(buf[Pred(NextSlot)]) < pkt

BusType ==
  /\ pkt \in 1 .. MaxPkt + 1 /\ idx \in 0 .. ImuFrames + 1
  /\ unit \in BOOLEAN /\ lost \in Nat

BusInv == BusType /\ StampInv /\ (FewLost => PacketInv /\ RingInv /\ CopyInv)

LEMMA InitBusInv == BusInit => IInv /\ BusInv
  <1> SUFFICES ASSUME BusInit PROVE IInv /\ BusInv
    OBVIOUS
  <1>1. IInv
    BY InitIInv DEF BusInit
  <1>2. BusType
    BY ImuAssumption, BusAssumption DEF BusInit, BusType
  <1>3. StampInv
    <2>1. buf[Pred(NextSlot)] = BlankRecord
      BY ImuAssumption, BusAssumption DEF BusInit, Init, NextSlot, Begin, Pred, BlankRecord
    <2>2. BlankRecord[0] = Zero
      BY PartFacts DEF BlankRecord
    <2> QED
      BY <2>1, <2>2 DEF StampInv, Stamped, Zero, BusInit
  <1>4. PacketInv /\ RingInv /\ CopyInv
    BY DEF BusInit, Init, PacketInv, RingInv, CopyInv, Served, Begin
  <1> QED
    BY <1>1, <1>2, <1>3, <1>4 DEF BusInv

\* The frames the sender sends.
LEMMA SentIs ==
  ASSUME BusType, pkt <= MaxPkt, NEW f \in Sent
  PROVE  /\ f \in AnyFrame
         /\ idx = 0 => f.kind = "atti"
         /\ idx \in 1 .. ImuFrames =>
              /\ f.kind \in {"data", "head", "tail8"}
              /\ f.cell = [pkt |-> pkt, part |-> idx - 1, unit |-> unit]
         /\ idx = ImuFrames + 1 => f.kind = "tail4"
  <1> USE ImuAssumption, BusAssumption, PartFacts
  <1>1. CASE idx = 0
    BY <1>1 DEF Sent, AnyFrame, Kind
  <1>2. CASE idx \in 1 .. ImuFrames
    <2>1. /\ f.kind \in {"data", "head", "tail8"}
          /\ f.cell = [pkt |-> pkt, part |-> idx - 1, unit |-> unit]
          /\ f \in [kind : {"data"} \cup Noise, cell : {[pkt |-> pkt, part |-> idx - 1, unit |-> unit]}]
      BY <1>2 DEF Sent
    <2>2. f.cell \in Cell
      BY <1>2, <2>1 DEF Cell, Part, BusType
    <2> QED
      BY <1>2, <2>1, <2>2 DEF AnyFrame, Kind
  <1>3. CASE idx = ImuFrames + 1
    <2>1. f \in [kind : {"tail4"}, cell : {Zero}]
      BY <1>3 DEF Sent
    <2> QED
      BY <1>3, <2>1 DEF AnyFrame, Kind
  <1> QED
    BY <1>1, <1>2, <1>3 DEF BusType

LEMMA BusNextIInv == ASSUME IInv, BusType, [BusNext]_busvars PROVE IInv'
  <1>1. CASE Deliver
    BY <1>1, SentIs, RecvFrameStep DEF Deliver, Advance
  <1>2. CASE Lose \/ UNCHANGED busvars
    BY <1>2, ExitStep DEF Lose, busvars
  <1>3. CASE LocalStep
    BY <1>3, ReceiverSteps, ReaderSteps, ExitStep DEF LocalStep
  <1> QED
    BY <1>1, <1>2, <1>3 DEF BusNext

LEMMA BusTypeStep == ASSUME BusType, [BusNext]_busvars PROVE BusType'
  <1>1. ASSUME Advance, lost' \in {lost, lost + 1} PROVE BusType'
    BY <1>1, ImuAssumption, BusAssumption DEF Advance, BusType
  <1>2. CASE LocalStep \/ UNCHANGED busvars
    BY <1>2 DEF LocalStep, bvars, busvars, BusType
  <1> QED
    BY <1>1, <1>2 DEF BusNext, Deliver, Lose

\* Losses are never taken back.
LEMMA LostGrows == ASSUME BusType, [BusNext]_busvars PROVE lost' \in Nat /\ lost' >= lost
  BY DEF BusNext, Deliver, Lose, LocalStep, busvars, bvars, BusType

----------------------------------------------------------------------------
(* The packet being received.                                              *)

\* What the positions can be, and what few losses bound.
LEMMA Places ==
  ASSUME IInv, BusType
  PROVE  /\ MaxImu \in Nat /\ MaxImu > 1 /\ ImuFrames \in Nat /\ ImuFrames > 0
         /\ store_pos.slot \in 0 .. MaxImu /\ store_pos.part \in 0 .. ImuFrames - 1
         /\ fetch_pos.slot \in -1 .. MaxImu - 1 /\ fetch_pos.part = 0
         /\ rpc # "wrap" \/ ~bIsAtti => store_pos.slot < MaxImu
         /\ bIsAtti => StartSlot \in 0 .. MaxImu - 1
         /\ bIsAtti /\ rpc = "lock" => store_pos.part = 0
         /\ Done \in 0 .. ImuFrames
  BY ImuAssumption, BusAssumption
     DEF IInv, TypeOK, StoreInRing, Part, BusType, StartSlot, Done

LEMMA QuietPacket ==
  ASSUME PacketInv, UNCHANGED << buf, fetch_pos, store_pos, bIsAtti, bvars >>,
         (rpc = "lock") = (rpc' = "lock")
  PROVE  PacketInv'
  <1> SUFFICES ASSUME bIsAtti' PROVE \E d, e, n \in Nat : At(d, e, n)' /\ Stored(d, e, n)'
    BY DEF PacketInv
  <1>1. PICK d, e, n \in Nat : At(d, e, n) /\ Stored(d, e, n)
    BY DEF PacketInv
  <1>2. At(d, e, n)'
    BY <1>1 DEF At, Done, StartSlot, bvars
  <1>3. Stored(d, e, n)'
    BY <1>1 DEF Stored, bvars
  <1> QED
    BY <1>2, <1>3

LEMMA StartPacket ==
  ASSUME IInv, BusType, idx = 0, Advance, NEW f \in AnyFrame, AttiHead(f), UNCHANGED lost
  PROVE  PacketInv'
  <1>1. ~bIsAtti /\ rpc' = "lock" /\ UNCHANGED << buf, store_pos, lost, pkt >> /\ idx' = 1
    BY ImuAssumption DEF AttiHead, Advance
  <1>2. store_pos.part = 0 /\ store_pos.slot \in 0 .. MaxImu
    BY <1>1 DEF IInv, StoreInRing, TypeOK
  <1>3. At(0, 0, 0)'
    BY <1>1, <1>2 DEF At, Done, StartSlot, BusType
  <1>4. Stored(0, 0, 0)'
    BY <1>1, <1>2 DEF Stored, Part
  <1> QED
    BY <1>3, <1>4 DEF PacketInv

LEMMA LockPacket ==
  ASSUME PacketInv, LockRing, UNCHANGED bvars
  PROVE  PacketInv'
  <1> SUFFICES ASSUME bIsAtti' PROVE \E d, e, n \in Nat : At(d, e, n)' /\ Stored(d, e, n)'
    BY DEF PacketInv
  <1>1. PICK d, e, n \in Nat : At(d, e, n) /\ Stored(d, e, n)
    BY DEF PacketInv, LockRing
  <1>2. At(d, e, n)'
    BY <1>1 DEF At, Done, StartSlot, bvars, LockRing
  <1>3. Stored(d, e, n)'
    BY <1>1 DEF Stored, bvars, LockRing
  <1> QED
    BY <1>2, <1>3

\* How far a packet that is joined to the one before it reaches.
LEMMA Reach ==
  ASSUME IInv, BusType, FewLost, bIsAtti,
         NEW d \in Nat, NEW e \in Nat, NEW n \in Nat, At(d, e, n)
  PROVE  /\ 2 * d + e <= ImuFrames + 2 /\ d <= MaxImu - 1 /\ n <= MaxImu - 1
         /\ idx > 0 => 2 * d + e <= ImuFrames + 1 /\ d <= MaxImu - 2
         /\ idx \in 1 .. ImuFrames => n <= d
         /\ e = 0 /\ idx \in 1 .. ImuFrames => n = d /\ store_pos.part = idx - 1
  BY Places DEF FewLost, At, Done, BusType

LEMMA WrapPacket ==
  ASSUME IInv, BusType, FewLost, PacketInv, Wrap, UNCHANGED bvars
  PROVE  PacketInv'
  <1> SUFFICES ASSUME bIsAtti' PROVE \E d, e, n \in Nat : At(d, e, n)' /\ Stored(d, e, n)'
    BY DEF PacketInv
  <1>0. bIsAtti /\ rpc = "wrap" /\ rpc' = "test"
    BY DEF Wrap
  <1>1. CASE store_pos.slot < MaxImu
    <2>1. UNCHANGED << buf, fetch_pos, store_pos, bIsAtti, bvars >>
      BY <1>1, Places DEF Wrap
    <2> QED
      BY <1>0, <2>1, QuietPacket DEF PacketInv
  <1>2. CASE store_pos.slot = MaxImu
    <2>1. PICK d, e, n \in Nat : At(d, e, n) /\ Stored(d, e, n)
      BY <1>0 DEF PacketInv
    <2>2. store_pos.part = 0 /\ store_pos' = Begin
      BY <1>2, Places DEF IInv, StoreInRing, Wrap
    <2>3. At(d, e, n)'
      BY <1>0, <1>2, <2>1, <2>2, Places, Reach DEF At, Done, StartSlot, bvars, Wrap, Begin
    <2>4. Pred(store_pos'.slot) = Pred(store_pos.slot)
      BY <1>2, <2>2, Places DEF Pred, Begin
    <2>5. Stored(d, e, n)'
      BY <2>1, <2>2, <2>4 DEF Stored, bvars, Wrap, Begin, Part
    <2> QED
      BY <2>3, <2>5
  <1> QED
    BY <1>1, <1>2, Places

LEMMA LosePacket ==
  ASSUME IInv, BusType, FewLost, PacketInv, Lose
  PROVE  PacketInv'
  <1> SUFFICES ASSUME bIsAtti' PROVE \E d, e, n \in Nat : At(d, e, n)' /\ Stored(d, e, n)'
    BY DEF PacketInv
  <1>1. UNCHANGED << buf, fetch_pos, store_pos, bIsAtti, rpc >> /\ lost' = lost + 1 /\ Advance
    BY DEF Lose, vars, rvars
  <1>2. PICK d, e, n \in Nat : At(d, e, n) /\ Stored(d, e, n)
    BY <1>1 DEF PacketInv
  <1>3. CASE idx = 0
    <2>1. idx' = 1 /\ pkt' = pkt
      BY <1>1, <1>3, ImuAssumption DEF Advance
    <2>2. At(d, e, n)'
      BY <1>1, <1>2, <1>3, <2>1 DEF At, Done, StartSlot, BusType
    <2>3. Stored(d, e, n)'
      BY <1>1, <1>2, <2>1 DEF Stored
    <2> QED
      BY <2>2, <2>3
  <1>4. CASE idx \in 1 .. ImuFrames
    <2>1. idx' = idx + 1 /\ pkt' = pkt
      BY <1>1, <1>4, ImuAssumption DEF Advance
    <2>2. n <= d
      BY <1>1, <1>2, <1>4, Reach
    <2>3. At(d, e + 1, n)'
      BY <1>1, <1>2, <1>4, <2>1, <2>2, Places DEF At, Done, StartSlot, BusType
    <2>4. Stored(d, e + 1, n)'
      BY DEF Stored
    <2> QED
      BY <2>3, <2>4
  <1>5. CASE idx = ImuFrames + 1
    <2>1. idx' = 0 /\ pkt' = pkt + 1
      BY <1>1, <1>5, ImuAssumption DEF Advance
    <2>2. 2 * d + e <= ImuFrames + 1
      BY <1>1, <1>2, <1>5, Places, Reach
    <2>3. At(d + 1, e, n)'
      BY <1>1, <1>2, <1>5, <2>1, <2>2, Places DEF At, Done, StartSlot, BusType
    <2>4. e = 0 => store_pos.part = 0
      BY <1>2, <1>5, Places DEF At, Done
    <2>5. Stored(d + 1, e, n)'
      BY <1>1, <1>2, <2>4 DEF Stored, Part
    <2> QED
      BY <2>3, <2>5
  <1> QED
    BY <1>3, <1>4, <1>5, ImuAssumption DEF BusType

\* The cell a data frame goes to is in none of the records before the packet.
LEMMA AppendIs ==
  ASSUME IInv, BusType, FewLost, NEW f \in AnyFrame, Append8(f), idx \in 1 .. ImuFrames,
         f.cell = [pkt |-> pkt, part |-> idx - 1, unit |-> unit],
         NEW d \in Nat, NEW e \in Nat, NEW n \in Nat, At(d, e, n)
  PROVE  /\ bIsAtti /\ rpc = "read" /\ StartSlot = fetch_pos.slot
         /\ store_pos.slot \in 0 .. MaxImu - 1
         /\ store_pos.slot # Pred(store_pos.slot)
         /\ store_pos.slot # Pred(fetch_pos.slot)
         /\ \A s \in 0 .. MaxImu : s # store_pos.slot => buf'[s] = buf[s]
         /\ buf'[store_pos.slot] = [buf[store_pos.slot] EXCEPT ![store_pos.part] = f.cell]
         /\ buf'[store_pos.slot][store_pos.part] = f.cell
         /\ \A i \in Part : i # store_pos.part =>
              buf'[store_pos.slot][i] = buf[store_pos.slot][i]
  <1>1. bIsAtti /\ rpc = "read" /\ StartSlot = fetch_pos.slot
    BY DEF Append8, StartSlot
  <1>2. store_pos.slot \in 0 .. MaxImu - 1
    BY <1>1, Places
  <1>3. n <= MaxImu - 2
    BY <1>1, Places, Reach
  <1>4. store_pos.slot # Pred(store_pos.slot)
    BY <1>2, Places DEF Pred
  <1>5. store_pos.slot # Pred(fetch_pos.slot)
    <2>1. /\ store_pos.slot \in {fetch_pos.slot + n, fetch_pos.slot + n - MaxImu}
          /\ fetch_pos.slot \in 0 .. MaxImu - 1
      BY <1>1, Places DEF At
    <2> QED
      BY <1>2, <1>3, <2>1, Places DEF Pred
  <1>6. /\ buf \in [0 .. MaxImu -> Record] /\ store_pos.part \in Part
        /\ buf' = [buf EXCEPT ![store_pos.slot][store_pos.part] = f.cell]
    BY DEF Append8, IInv, TypeOK
  <1>7. /\ \A s \in 0 .. MaxImu : s # store_pos.slot => buf'[s] = buf[s]
        /\ buf'[store_pos.slot] = [buf[store_pos.slot] EXCEPT ![store_pos.part] = f.cell]
    <2>1. store_pos.slot \in 0 .. MaxImu
      BY Places
    <2> DEFINE sl == store_pos.slot
               rec == [buf[sl] EXCEPT ![store_pos.part] = f.cell]
    <2>2. buf' = [buf EXCEPT ![sl] = rec]
      BY <1>6
    <2> HIDE DEF rec
    <2>3. buf'[sl] = rec /\ \A s \in 0 .. MaxImu : s # sl => buf'[s] = buf[s]
      BY <1>6, <2>1, <2>2
    <2> QED
      BY <2>3 DEF rec
  <1>8. buf[store_pos.slot] \in [Part -> Cell]
    BY <1>2, <1>6, Places DEF Record
  <1> QED
    BY <1>1, <1>2, <1>4, <1>5, <1>6, <1>7, <1>8

LEMMA AppendPacket ==
  ASSUME IInv, BusType, FewLost, PacketInv, NEW f \in AnyFrame, Append8(f), Advance,
         idx \in 1 .. ImuFrames, pkt <= MaxPkt, UNCHANGED lost,
         f.cell = [pkt |-> pkt, part |-> idx - 1, unit |-> unit]
  PROVE  PacketInv'
  <1> SUFFICES \E d, e, n \in Nat : At(d, e, n)' /\ Stored(d, e, n)'
    BY DEF PacketInv
  <1>1. PICK d, e, n \in Nat : At(d, e, n) /\ Stored(d, e, n)
    BY DEF PacketInv, Append8
  <1>2. /\ idx' = idx + 1 /\ UNCHANGED << pkt, lost, fetch_pos, bIsAtti >>
        /\ store_pos' = After(store_pos) /\ rpc' = "wrap" /\ rpc = "read" /\ bIsAtti
    BY ImuAssumption DEF Advance, Append8
  <1>3. StartSlot' = StartSlot
    BY <1>2 DEF StartSlot
  <1>4. n <= d
    BY <1>1, <1>2, Reach
  <1>5. NoPkt # pkt
    BY ImuAssumption, BusAssumption DEF BusType
  <1>6. /\ e = 0 => n = d /\ store_pos.part = idx - 1
    BY <1>1, <1>2, Reach
  <1>7. /\ store_pos.slot \in 0 .. MaxImu - 1
        /\ store_pos.slot # Pred(store_pos.slot)
        /\ \A s \in 0 .. MaxImu : s # store_pos.slot => buf'[s] = buf[s]
        /\ buf'[store_pos.slot][store_pos.part] = f.cell
        /\ \A i \in Part : i # store_pos.part =>
             buf'[store_pos.slot][i] = buf[store_pos.slot][i]
    BY <1>1, AppendIs
  <1>8. e = 0 => \A i \in Part : i <= store_pos.part =>
           buf'[store_pos.slot][i].part = i /\ buf'[store_pos.slot][i].pkt = pkt
    <2> SUFFICES ASSUME e = 0, NEW i \in Part, i <= store_pos.part
                 PROVE  buf'[store_pos.slot][i].part = i /\ buf'[store_pos.slot][i].pkt = pkt
      OBVIOUS
    <2>1. CASE i = store_pos.part
      BY <1>6, <1>7, <2>1
    <2>2. CASE i # store_pos.part
      <3>1. i < store_pos.part
        BY <2>2, Places DEF Part
      <3> QED
        BY <1>1, <1>7, <2>2, <3>1 DEF Stored
    <2> QED
      BY <2>1, <2>2
  <1>9. CASE store_pos.part + 1 = ImuFrames
    <2>1. store_pos'.slot = store_pos.slot + 1 /\ store_pos'.part = 0
      BY <1>2, <1>9 DEF After
    <2>2. At(d, e, n + 1)'
      <3>1. Done = idx - 1 /\ Done' = idx /\ idx \in 1 .. ImuFrames /\ idx' # 0 /\ idx # 0
        BY <1>2, Places DEF Done
      <3>2. /\ e + 2 * d <= lost /\ (d = 0 => e <= Done)
            /\ \/ n = d /\ store_pos.part = Done - e
               \/ n = d - 1 /\ store_pos.part = Done - e + ImuFrames
        BY <1>1, <1>4, <3>1, Places DEF At
      <3>3. \/ n + 1 = d + 1 /\ 0 = idx - e - ImuFrames
            \/ n + 1 = d /\ 0 = idx - e
        <4>1. store_pos.part = ImuFrames - 1 /\ ImuFrames \in Nat /\ idx \in Nat
          BY <1>9, <3>1, Places
        <4>2. CASE n = d /\ store_pos.part = Done - e
          BY <3>1, <4>1, <4>2
        <4>3. CASE n = d - 1 /\ store_pos.part = Done - e + ImuFrames
          BY <3>1, <4>1, <4>3
        <4> QED
          BY <3>2, <4>2, <4>3
      <3>4. store_pos'.slot \in {StartSlot + (n + 1), StartSlot + (n + 1) - MaxImu}
        BY <1>1, <1>2, <2>1, Places DEF At
      <3>5. d = 0 => e <= idx
        BY <3>1, <3>2
      <3> QED
        BY <1>2, <1>3, <2>1, <3>1, <3>2, <3>3, <3>4, <3>5 DEF At
    <2>3. Pred(store_pos'.slot) = store_pos.slot
      BY <2>1, <1>7, Places DEF Pred
    <2>4. ASSUME e = 0
          PROVE  Whole(buf'[store_pos.slot]) /\ buf'[store_pos.slot][0].pkt = pkt
      <3>1. \A i \in Part : i <= store_pos.part
        BY <1>9, Places DEF Part
      <3>2. \A i \in Part : buf'[store_pos.slot][i].part = i /\ buf'[store_pos.slot][i].pkt = pkt
        BY <1>8, <2>4, <3>1
      <3>3. 0 \in Part
        BY PartFacts
      <3> QED
        BY <1>5, <3>2, <3>3 DEF Whole
    <2>5. Stored(d, e, n + 1)'
      BY <1>2, <2>1, <2>3, <2>4 DEF Stored, Part
    <2> QED
      BY <2>2, <2>5
  <1>10. CASE store_pos.part + 1 # ImuFrames
    <2>1. store_pos'.slot = store_pos.slot /\ store_pos'.part = store_pos.part + 1
      BY <1>2, <1>10 DEF After
    <2>2. At(d, e, n)'
      BY <1>1, <1>2, <1>3, <1>4, <1>10, <2>1, Places DEF At, Done
    <2>3. Pred(store_pos.slot) \in 0 .. MaxImu /\ buf'[Pred(store_pos.slot)] = buf[Pred(store_pos.slot)]
      BY <1>7, Places DEF Pred
    <2>4. Stored(d, e, n)'
      <3> SUFFICES ASSUME e = 0 PROVE Stored(d, e, n)'
        BY DEF Stored
      <3>1. \A i \in Part : i < store_pos.part + 1 => i <= store_pos.part
        BY Places DEF Part
      <3>2. \A i \in Part : i < store_pos.part + 1 =>
              buf'[store_pos.slot][i].part = i /\ buf'[store_pos.slot][i].pkt = pkt
        BY <1>8, <3>1
      <3> QED
        BY <1>1, <1>2, <2>1, <2>3, <3>2 DEF Stored
    <2> QED
      BY <2>2, <2>4
  <1> QED
    BY <1>9, <1>10

LEMMA PacketStep ==
  ASSUME IInv, BusType, FewLost, PacketInv, [BusNext]_busvars
  PROVE  PacketInv'
  <1>1. CASE Deliver
    <2>1. PICK f \in Sent : RecvFrame(f)
      BY <1>1 DEF Deliver
    <2>2. Advance /\ pkt <= MaxPkt /\ UNCHANGED lost
      BY <1>1 DEF Deliver, Advance
    <2>3. f \in AnyFrame
      BY <2>2, SentIs
    <2>4. CASE Ignore(f) \/ Abort(f) \/ EndPacket(f)
      BY <2>4 DEF Ignore, Abort, EndPacket, PacketInv
    <2>5. CASE AttiHead(f)
      <3>1. idx = 0
        BY <2>2, <2>5, SentIs, ImuAssumption DEF AttiHead, CheckIsAtti, BusType
      <3> QED
        BY <2>2, <2>3, <2>5, <3>1, StartPacket
    <2>6. CASE Append8(f)
      <3>1. idx \in 1 .. ImuFrames
        BY <2>2, <2>6, SentIs, ImuAssumption DEF Append8, BusType
      <3> QED
        BY <2>2, <2>3, <2>6, <3>1, SentIs, AppendPacket
    <2> QED
      BY <2>1, <2>4, <2>5, <2>6 DEF RecvFrame
  <1>2. CASE Lose
    BY <1>2, LosePacket
  <1>3. CASE LocalStep
    <2>1. UNCHANGED bvars
      BY <1>3 DEF LocalStep
    <2>2. CASE LockRing
      BY <2>1, <2>2, LockPacket
    <2>3. CASE Wrap
      BY <2>1, <2>3, WrapPacket
    <2>4. CASE Setup \/ ClearReady \/ TestRunning \/ ReadFails
      BY <2>1, <2>4, QuietPacket DEF Setup, ClearReady, TestRunning, ReadFails
    <2>5. ASSUME exit_imu_receive \/ \E r \in Reader : ReaderStep(r) PROVE PacketInv'
      <3>1. UNCHANGED rvars
        BY <2>5 DEF exit_imu_receive, ReaderStep, GetIMU, Acquire, CopyPart, Copied, Unlock
      <3> QED
        BY <2>1, <3>1, QuietPacket DEF rvars
    <2> QED
      BY <1>3, <2>2, <2>3, <2>4, <2>5 DEF LocalStep, ReceiverStep
  <1>4. CASE UNCHANGED busvars
    BY <1>4, QuietPacket DEF busvars, vars, rvars
  <1> QED
    BY <1>1, <1>2, <1>3, <1>4 DEF BusNext

----------------------------------------------------------------------------
(* The records readers get.                                                *)

\* At the tail of a packet whose data frames are all there: either none of them
\* was lost, or all of one packet and nothing was stored.
LEMMA TailIs ==
  ASSUME IInv, BusType, FewLost, PacketInv, pkt <= MaxPkt,
         NEW f \in Sent, EndPacket(f), store_pos.part = 0
  PROVE  /\ idx = ImuFrames + 1
         /\ \/ store_pos.slot = fetch_pos.slot
            \/ /\ Whole(buf[Pred(store_pos.slot)])
               /\ lost <= 1 => /\ Pred(store_pos.slot) = fetch_pos.slot
                               /\ buf[Pred(store_pos.slot)][0].pkt = pkt
  <1>1. bIsAtti /\ rpc = "read" /\ Dlc4(f)
    BY DEF EndPacket
  <1>2. idx = ImuFrames + 1
    BY <1>1, SentIs, ImuAssumption DEF Dlc4, BusType
  <1>3. StartSlot = fetch_pos.slot /\ fetch_pos.slot \in 0 .. MaxImu - 1
        /\ store_pos.slot \in 0 .. MaxImu - 1
    BY <1>1, Places DEF StartSlot
  <1>4. PICK d, e, n \in Nat : At(d, e, n) /\ Stored(d, e, n)
    BY <1>1 DEF PacketInv
  <1>5. 2 * d + e <= ImuFrames + 1 /\ 2 * d + e <= lost
    BY <1>1, <1>2, <1>4, Places, Reach DEF At, BusType
  <1>6. (e = 0 /\ n = d + 1) \/ n = 0
    BY <1>2, <1>4, <1>5, Places DEF At, Done
  <1>7. store_pos.slot \in {fetch_pos.slot + n, fetch_pos.slot + n - MaxImu}
    BY <1>3, <1>4 DEF At
  <1>8. CASE n = 0
    BY <1>2, <1>3, <1>7, <1>8, Places
  <1>9. CASE e = 0 /\ n = d + 1
    <2>1. Whole(buf[Pred(store_pos.slot)])
      BY <1>4, <1>9 DEF Stored
    <2>2. ASSUME lost <= 1
          PROVE  Pred(store_pos.slot) = fetch_pos.slot /\ buf[Pred(store_pos.slot)][0].pkt = pkt
      <3>1. d = 0 /\ n = 1
        BY <1>5, <1>9, <2>2 DEF BusType
      <3>2. buf[Pred(store_pos.slot)][0].pkt = pkt
        BY <1>4, <1>9, <3>1 DEF Stored
      <3>3. Pred(store_pos.slot) = fetch_pos.slot
        BY <1>3, <1>7, <3>1, Places DEF Pred
      <3> QED
        BY <3>2, <3>3
    <2> QED
      BY <1>2, <2>1, <2>2
  <1> QED
    BY <1>6, <1>8, <1>9

\* A reader's step takes nothing from the receiver.
LEMMA ReaderKeeps ==
  ASSUME IInv, NEW r \in Reader, ReaderStep(r)
  PROVE  UNCHANGED rvars /\ (lock' = Recv) = (lock = Recv)
  <1>1. UNCHANGED rvars
    BY DEF ReaderStep, GetIMU, Acquire, CopyPart, Copied, Unlock
  <1>2. lock' = lock \/ (lock # Recv /\ lock' # Recv)
    <2>1. CASE GetIMU(r) \/ CopyPart(r) \/ Copied(r)
      BY <2>1 DEF GetIMU, CopyPart, Copied
    <2>2. CASE Acquire(r)
      BY <2>2, ImuAssumption DEF Acquire
    <2>3. CASE Unlock(r)
      BY <2>3, ImuAssumption DEF Unlock, IInv, LockOwner
    <2> QED
      BY <2>1, <2>2, <2>3 DEF ReaderStep
  <1> QED
    BY <1>1, <1>2

LEMMA QuietRing ==
  ASSUME RingInv, UNCHANGED << buf, fetch_pos, store_pos >>,
         bReady' => bReady, (lock' = Recv) = (lock = Recv)
  PROVE  RingInv'
  BY DEF RingInv

LEMMA AppendRing ==
  ASSUME IInv, BusType, FewLost, PacketInv, RingInv, pkt <= MaxPkt,
         NEW f \in Sent, f \in AnyFrame, Append8(f)
  PROVE  /\ RingInv'
         /\ lock = Recv /\ lock' = Recv /\ UNCHANGED << fetch_pos, gvars >>
         /\ buf'[Pred(fetch_pos.slot)] = buf[Pred(fetch_pos.slot)]
         /\ fetch_pos.slot >= 0
  <1>1. idx \in 1 .. ImuFrames
    BY SentIs, ImuAssumption DEF Append8, BusType
  <1>2. f.cell = [pkt |-> pkt, part |-> idx - 1, unit |-> unit]
    BY <1>1, SentIs
  <1>3. PICK d, e, n \in Nat : At(d, e, n) /\ Stored(d, e, n)
    BY DEF Append8, PacketInv
  <1>4. /\ bIsAtti /\ rpc = "read" /\ StartSlot = fetch_pos.slot
        /\ store_pos.slot # Pred(fetch_pos.slot)
        /\ \A s \in 0 .. MaxImu : s # store_pos.slot => buf'[s] = buf[s]
    BY <1>1, <1>2, <1>3, AppendIs
  <1>5. Pred(fetch_pos.slot) \in 0 .. MaxImu /\ fetch_pos.slot >= 0
    BY <1>4, Places DEF Pred
  <1>6. lock = Recv /\ lock' = Recv /\ UNCHANGED << fetch_pos, gvars, bReady >>
    BY HoldingExcludesReaders DEF Append8
  <1>7. buf'[Pred(fetch_pos.slot)] = buf[Pred(fetch_pos.slot)]
    BY <1>4, <1>5
  <1>8. RingInv'
    BY <1>6, <1>7 DEF RingInv
  <1> QED
    BY <1>5, <1>6, <1>7, <1>8

LEMMA EndRing ==
  ASSUME IInv, BusType, FewLost, PacketInv, RingInv, pkt <= MaxPkt,
         NEW f \in Sent, Abort(f) \/ EndPacket(f)
  PROVE  RingInv'
  <1>1. /\ bIsAtti /\ rpc = "read" /\ UNCHANGED << buf, fetch_pos, bReady >>
        /\ fetch_pos.slot >= 0
    BY Places DEF Abort, EndPacket, StartSlot
  <1>2. CASE store_pos' = fetch_pos
    BY <1>1, <1>2 DEF RingInv
  <1>3. CASE EndPacket(f) /\ Accepts(f)
    <2>1. store_pos' = store_pos /\ store_pos.part = 0
      BY <1>3 DEF EndPacket, Accepts
    <2>2. \/ store_pos.slot = fetch_pos.slot
          \/ Whole(buf[Pred(store_pos.slot)])
      BY <1>3, <2>1, TailIs
    <2> QED
      BY <1>1, <2>1, <2>2 DEF RingInv
  <1> QED
    BY <1>2, <1>3 DEF Abort, EndPacket

LEMMA WrapRing ==
  ASSUME IInv, BusType, FewLost, PacketInv, RingInv, Wrap
  PROVE  RingInv'
  <1>1. rpc = "wrap" /\ UNCHANGED << buf, fetch_pos, lock >>
    BY DEF Wrap
  <1>2. CASE store_pos.slot < MaxImu
    <2>1. UNCHANGED << store_pos, bReady >>
      BY <1>2, Places DEF Wrap
    <2> QED
      BY <1>1, <2>1, QuietRing
  <1>3. CASE store_pos.slot = MaxImu
    <2>1. bIsAtti
      BY <1>3, Places
    <2>2. PICK d, e, n \in Nat : At(d, e, n) /\ Stored(d, e, n)
      BY <2>1 DEF PacketInv
    <2>3. fetch_pos.slot > 0
      BY <1>1, <1>3, <2>1, <2>2, Places, Reach DEF At, StartSlot
    <2>4. lock = Recv
      BY <1>1, <2>1, HoldingExcludesReaders
    <2> QED
      BY <1>1, <2>3, <2>4 DEF RingInv
  <1> QED
    BY <1>2, <1>3, Places

LEMMA LockRingRing == ASSUME RingInv, LockRing PROVE RingInv'
  BY ImuAssumption DEF RingInv, LockRing

LEMMA RingStep ==
  ASSUME IInv, BusType, FewLost, PacketInv, RingInv, [BusNext]_busvars
  PROVE  RingInv'
  <1>1. CASE Deliver
    <2>1. PICK f \in Sent : RecvFrame(f)
      BY <1>1 DEF Deliver
    <2>2. pkt <= MaxPkt
      BY <1>1 DEF Deliver, Advance
    <2>3. f \in AnyFrame
      BY <2>2, SentIs
    <2>4. CASE Ignore(f) \/ AttiHead(f)
      BY <2>4, QuietRing DEF Ignore, AttiHead
    <2> QED
      BY <2>1, <2>2, <2>3, <2>4, AppendRing, EndRing DEF RecvFrame
  <1>2. CASE Lose \/ UNCHANGED busvars
    BY <1>2, QuietRing DEF Lose, busvars, vars, rvars
  <1>3. CASE LocalStep
    <2>1. CASE Setup \/ ClearReady \/ TestRunning \/ ReadFails \/ exit_imu_receive
      BY <2>1, QuietRing DEF Setup, ClearReady, TestRunning, ReadFails, exit_imu_receive, rvars
    <2>2. ASSUME NEW r \in Reader, ReaderStep(r) PROVE RingInv'
      BY <2>2, ReaderKeeps, QuietRing DEF rvars
    <2> QED
      BY <1>3, <2>1, <2>2, LockRingRing, WrapRing DEF LocalStep, ReceiverStep
  <1> QED
    BY <1>1, <1>2, <1>3 DEF BusNext

\* Two records with the same parts are both whole.
LEMMA SameWhole ==
  ASSUME NEW a, NEW b, \A i \in Part : a[i] = b[i], Whole(a)
  PROVE  Whole(b)
  BY PartFacts DEF Whole

\* A reader that finds the ring ready gets the record before the packet.
LEMMA GetsWhole ==
  ASSUME IInv, BusType, RingInv, bReady
  PROVE  SlotToGet = Pred(fetch_pos.slot) /\ fetch_pos.slot >= 0 /\ Whole(buf[SlotToGet])
  <1>1. fetch_pos.slot >= 0 /\ fetch_pos.part = 0 /\ fetch_pos \in [slot : -1 .. MaxImu, part : Part]
    BY DEF IInv, StoreInRing, TypeOK
  <1>2. SlotToGet = Pred(fetch_pos.slot)
    BY <1>1 DEF SlotToGet, Pred, Begin
  <1> QED
    BY <1>1, <1>2 DEF RingInv

LEMMA CopyReader ==
  ASSUME IInv, BusType, RingInv, CopyInv, NEW r \in Reader, ReaderStep(r)
  PROVE  CopyInv'
  <1> SUFFICES ASSUME NEW q \in Reader
               PROVE  /\ gpc'[q] = "copy" => Whole(buf'[get_pos'[q]])
                      /\ gpc'[q] = "unlock" /\ served'[q] => Whole(imu'[q])
    BY DEF CopyInv, Served
  <1>0. /\ buf' = buf /\ gpc \in [Reader -> {"idle", "lock", "copy", "unlock"}]
        /\ DOMAIN get_pos = Reader /\ DOMAIN imu = Reader /\ DOMAIN served = Reader
    BY ReaderKeeps DEF IInv, TypeOK, rvars
  <1>1. /\ gpc[q] = "copy" => Whole(buf[get_pos[q]])
        /\ gpc[q] = "unlock" /\ served[q] => Whole(imu[q])
    BY DEF CopyInv, Served
  <1>2. CASE q # r
    <2>1. gpc'[q] = gpc[q] /\ get_pos'[q] = get_pos[q] /\ served'[q] = served[q] /\ imu'[q] = imu[q]
      BY <1>0, <1>2 DEF ReaderStep, GetIMU, Acquire, CopyPart, Copied, Unlock
    <2> QED
      BY <1>0, <1>1, <2>1
  <1>3. CASE q = r /\ (GetIMU(r) \/ Unlock(r))
    BY <1>0, <1>3 DEF GetIMU, Unlock
  <1>4. CASE q = r /\ Acquire(r)
    <2>1. CASE bReady
      BY <1>0, <1>4, <2>1, GetsWhole DEF Acquire
    <2>2. CASE ~bReady
      BY <1>0, <1>4, <2>2 DEF Acquire
    <2> QED
      BY <2>1, <2>2
  <1>5. CASE q = r /\ CopyPart(r)
    BY <1>0, <1>1, <1>5 DEF CopyPart
  <1>6. CASE q = r /\ Copied(r)
    <2>1. \A i \in Part : buf[get_pos[q]][i] = imu[q][i]
      <3>1. gpc[q] = "copy" /\ copied[q] = ImuFrames
        BY <1>6 DEF Copied
      <3>2. \A i \in Part : i < ImuFrames
        BY ImuAssumption DEF Part
      <3> QED
        BY <3>1, <3>2 DEF IInv, NoTornRead
    <2>2. Whole(imu[q])
      BY <1>1, <1>6, <2>1, SameWhole DEF Copied
    <2> QED
      BY <1>0, <1>6, <2>2 DEF Copied
  <1> QED
    BY <1>2, <1>3, <1>4, <1>5, <1>6 DEF ReaderStep

LEMMA QuietCopy == ASSUME CopyInv, UNCHANGED << buf, gvars >> PROVE CopyInv'
  BY DEF CopyInv, Served, gvars

LEMMA CopyStep ==
  ASSUME IInv, BusType, RingInv, CopyInv, [BusNext]_busvars
  PROVE  CopyInv'
  <1>1. CASE Deliver
    <2>1. PICK f \in Sent : RecvFrame(f)
      BY <1>1 DEF Deliver
    <2>2. CASE Ignore(f) \/ AttiHead(f) \/ Abort(f) \/ EndPacket(f)
      BY <2>2, QuietCopy DEF Ignore, AttiHead, Abort, EndPacket
    <2>3. CASE Append8(f)
      <3>1. UNCHANGED gvars /\ \A r \in Reader : gpc[r] # "copy"
        BY <2>3, HoldingExcludesReaders DEF Append8
      <3> QED
        BY <3>1 DEF CopyInv, Served, gvars
    <2> QED
      BY <2>1, <2>2, <2>3 DEF RecvFrame
  <1>2. CASE Lose \/ UNCHANGED busvars
    BY <1>2, QuietCopy DEF Lose, busvars, vars, rvars
  <1>3. CASE LocalStep
    <2>1. CASE ReceiverStep \/ exit_imu_receive
      BY <2>1, QuietCopy DEF ReceiverStep, Setup, ClearReady, TestRunning, ReadFails, LockRing,
                            Wrap, exit_imu_receive, rvars
    <2> QED
      BY <1>3, <2>1, CopyReader DEF LocalStep
  <1> QED
    BY <1>1, <1>2, <1>3 DEF BusNext

----------------------------------------------------------------------------
(* The age of the records.                                                 *)

LEMMA OneLossIsFew == ASSUME BusType, lost <= 1 PROVE FewLost
  BY ImuAssumption, BusAssumption DEF FewLost, BusType

\* The stamp of a record of the ring is a number.
LEMMA StampIs ==
  ASSUME IInv, BusType
  PROVE  /\ Pred(NextSlot) \in 0 .. MaxImu - 1
         /\ Stamped(buf[Pred(NextSlot)]) \in Nat
  <1>1. Pred(NextSlot) \in 0 .. MaxImu - 1
    <2>1. lock = Recv => fetch_pos.slot >= 0
      BY DEF IInv, LockOwner, StoreInRing
    <2> QED
      BY <2>1, Places DEF NextSlot, Pred
  <1>2. buf[Pred(NextSlot)][0] \in Cell
    BY <1>1, PartFacts, Places DEF IInv, TypeOK, Record
  <1>3. buf[Pred(NextSlot)][0].pkt \in 1 .. MaxPkt \cup {NoPkt}
    BY <1>2, BusAssumption DEF Cell
  <1> QED
    BY <1>1, <1>3, BusAssumption DEF Stamped

\* A record keeps its stamp.
LEMMA QuietStamp ==
  ASSUME IInv, BusType, StampInv, lost <= lost', pkt <= pkt', lost' \in Nat, pkt' \in Nat,
         buf'[Pred(NextSlot')] = buf[Pred(NextSlot)]
  PROVE  StampInv'
  <1> SUFFICES ASSUME lost' <= 1 PROVE Stamped(buf'[Pred(NextSlot')]) < pkt'
    BY DEF StampInv
  <1>1. Stamped(buf[Pred(NextSlot)]) < pkt
    BY DEF StampInv, BusType
  <1>2. Stamped(buf[Pred(NextSlot)]) < pkt'
    BY <1>1, StampIs DEF BusType
  <1> QED
    BY <1>2

\* Where the newest record is: only an accepted packet moves it.
LEMMA NewestStep ==
  ASSUME IInv, BusType, FewLost, PacketInv, RingInv, [BusNext]_busvars
  PROVE  \/ buf'[Pred(NextSlot')] = buf[Pred(NextSlot)]
         \/ /\ pkt' = pkt + 1 /\ \E f \in Sent : EndPacket(f) /\ Accepts(f)
            /\ pkt <= MaxPkt /\ UNCHANGED << buf, fetch_pos, lost, gvars >>
            /\ lock = Recv /\ lock' # Recv /\ NextSlot' = store_pos.slot
            /\ store_pos.part = 0 /\ store_pos.slot # fetch_pos.slot
  <1>1. CASE Deliver
    <2>1. PICK f \in Sent : RecvFrame(f)
      BY <1>1 DEF Deliver
    <2>2. Advance /\ pkt <= MaxPkt /\ lost' = lost
      BY <1>1 DEF Deliver, Advance
    <2>3. CASE Ignore(f) \/ AttiHead(f)
      BY <2>3 DEF Ignore, AttiHead, NextSlot
    <2>4. CASE Append8(f)
      BY <2>2, <2>4, SentIs, AppendRing DEF NextSlot
    <2>5. ASSUME Abort(f) \/ EndPacket(f)
          PROVE  /\ lock = Recv /\ lock' # Recv /\ UNCHANGED << buf, fetch_pos, gvars >>
                 /\ NextSlot = fetch_pos.slot /\ NextSlot' = store_pos'.slot
      BY <2>5, HoldingExcludesReaders, ImuAssumption DEF Abort, EndPacket, NextSlot
    <2>6. CASE Abort(f)
      BY <2>5, <2>6 DEF Abort
    <2>7. CASE EndPacket(f) /\ store_pos'.slot = fetch_pos.slot
      BY <2>5, <2>7
    <2>8. CASE EndPacket(f) /\ store_pos'.slot # fetch_pos.slot
      <3>1. store_pos' = store_pos /\ Accepts(f) /\ store_pos.part = 0
        BY <2>8 DEF EndPacket, Accepts
      <3>2. idx = ImuFrames + 1
        BY <2>2, <2>8, <3>1, TailIs
      <3>3. pkt' = pkt + 1
        BY <2>2, <3>2, ImuAssumption DEF Advance
      <3> QED
        BY <2>2, <2>5, <2>8, <3>1, <3>3
    <2> QED
      BY <2>1, <2>3, <2>4, <2>6, <2>7, <2>8 DEF RecvFrame
  <1>2. CASE Lose \/ UNCHANGED busvars
    BY <1>2 DEF Lose, busvars, vars, rvars, NextSlot
  <1>3. CASE LocalStep
    <2>1. CASE Setup \/ ClearReady \/ TestRunning \/ ReadFails \/ exit_imu_receive
      BY <2>1 DEF Setup, ClearReady, TestRunning, ReadFails, exit_imu_receive, rvars, NextSlot
    <2>2. CASE LockRing
      BY <2>2, ImuAssumption DEF LockRing, NextSlot
    <2>3. CASE Wrap
      <3>1. UNCHANGED << buf, fetch_pos, lock >>
        BY <2>3 DEF Wrap
      <3>2. CASE lock = Recv
        BY <3>1, <3>2 DEF NextSlot
      <3>3. CASE lock # Recv
        <4>1. ~bIsAtti
          BY <2>3, <3>3, HoldingExcludesReaders DEF Wrap
        <4>2. store_pos' = store_pos
          BY <2>3, <4>1, Places DEF Wrap
        <4> QED
          BY <3>1, <3>3, <4>2 DEF NextSlot
      <3> QED
        BY <3>2, <3>3
    <2>4. ASSUME NEW r \in Reader, ReaderStep(r)
          PROVE  buf'[Pred(NextSlot')] = buf[Pred(NextSlot)]
      BY <2>4, ReaderKeeps DEF rvars, NextSlot
    <2> QED
      BY <1>3, <2>1, <2>2, <2>3, <2>4 DEF LocalStep, ReceiverStep
  <1> QED
    BY <1>1, <1>2, <1>3 DEF BusNext

\* What is accepted with at most one loss: the packet just sent.
LEMMA AcceptedIs ==
  ASSUME IInv, BusType, PacketInv, FewLost, lost <= 1, pkt <= MaxPkt,
         NEW f \in Sent, EndPacket(f), Accepts(f), store_pos.slot # fetch_pos.slot
  PROVE  /\ Pred(store_pos.slot) = fetch_pos.slot
         /\ Whole(buf[fetch_pos.slot]) /\ Check4Q(buf[fetch_pos.slot])
         /\ buf[fetch_pos.slot][0].pkt = pkt
         /\ Stamped(buf[fetch_pos.slot]) = pkt
         /\ buf[fetch_pos.slot] \in SoundRecords
  <1>1. /\ Pred(store_pos.slot) = fetch_pos.slot
        /\ Whole(buf[fetch_pos.slot]) /\ Check4Q(buf[fetch_pos.slot])
        /\ buf[fetch_pos.slot][0].pkt = pkt
    BY TailIs DEF Accepts
  <1>2. pkt \in Pkt /\ pkt # NoPkt
    BY ImuAssumption, BusAssumption DEF BusType
  <1>3. Stamped(buf[fetch_pos.slot]) = pkt
    BY <1>1, <1>2 DEF Stamped
  <1>4. buf[fetch_pos.slot] \in [Part -> Cell]
    <2>1. fetch_pos.slot \in 0 .. MaxImu
      BY Places DEF EndPacket, StartSlot
    <2> QED
      BY <2>1 DEF IInv, TypeOK, Record
  <1>5. \A i \in Part : buf[fetch_pos.slot][i] = [pkt |-> pkt, part |-> i, unit |-> TRUE]
    <2> SUFFICES ASSUME NEW i \in Part
                 PROVE  buf[fetch_pos.slot][i] = [pkt |-> pkt, part |-> i, unit |-> TRUE]
      OBVIOUS
    <2>1. /\ buf[fetch_pos.slot][i] \in [pkt : Pkt \cup {NoPkt}, part : Part, unit : BOOLEAN]
          /\ buf[fetch_pos.slot][i].unit
      BY <1>1, <1>4 DEF Cell, Check4Q
    <2>2. buf[fetch_pos.slot][i].part = i /\ buf[fetch_pos.slot][i].pkt = pkt
      BY <1>1 DEF Whole
    <2> QED
      BY <2>1, <2>2
  <1>6. buf[fetch_pos.slot] = [i \in Part |-> [pkt |-> pkt, part |-> i, unit |-> TRUE]]
    BY <1>4, <1>5
  <1> QED
    BY <1>1, <1>2, <1>3, <1>6 DEF SoundRecords

LEMMA StampStep ==
  ASSUME IInv, BusType, StampInv, FewLost => PacketInv /\ RingInv, [BusNext]_busvars
  PROVE  StampInv'
  <1> SUFFICES ASSUME lost' <= 1 PROVE StampInv'
    BY DEF StampInv
  <1>1. lost' \in Nat /\ lost <= 1 /\ lost <= lost' /\ pkt' \in Nat
    BY LostGrows, BusTypeStep, BusAssumption DEF BusType
  <1>2. FewLost /\ PacketInv /\ RingInv
    BY <1>1, OneLossIsFew
  <1>3. CASE buf'[Pred(NextSlot')] = buf[Pred(NextSlot)]
    <2>1. pkt <= pkt'
      BY DEF BusNext, Deliver, Lose, Advance, LocalStep, busvars, bvars, BusType
    <2> QED
      BY <1>1, <1>3, <2>1, QuietStamp
  <1>4. ASSUME buf'[Pred(NextSlot')] # buf[Pred(NextSlot)] PROVE StampInv'
    <2>1. PICK f \in Sent :
            /\ pkt' = pkt + 1 /\ EndPacket(f) /\ Accepts(f)
            /\ pkt <= MaxPkt /\ UNCHANGED buf
            /\ NextSlot' = store_pos.slot /\ store_pos.slot # fetch_pos.slot
      BY <1>2, <1>4, NewestStep
    <2>2. Stamped(buf'[Pred(NextSlot')]) = pkt
      BY <1>1, <1>2, <2>1, AcceptedIs
    <2> QED
      BY <2>1, <2>2 DEF StampInv, BusType
  <1> QED
    BY <1>3, <1>4

LEMMA BusInvStep == IInv /\ BusInv /\ [BusNext]_busvars => IInv' /\ BusInv'
  <1> SUFFICES ASSUME IInv, BusInv, [BusNext]_busvars PROVE IInv' /\ BusInv'
    OBVIOUS
  <1>1. IInv' /\ BusType'
    BY BusNextIInv, BusTypeStep DEF BusInv
  <1>2. StampInv'
    BY StampStep DEF BusInv
  <1>3. FewLost' => FewLost
    BY LostGrows, ImuAssumption, BusAssumption DEF BusInv, BusType, FewLost
  <1>4. FewLost' => PacketInv' /\ RingInv' /\ CopyInv'
    BY <1>3, PacketStep, RingStep, CopyStep DEF BusInv
  <1> QED
    BY <1>1, <1>2, <1>4 DEF BusInv

LEMMA BusInvariance == BusSpec => [](IInv /\ BusInv)
  BY InitBusInv, BusInvStep, PTL DEF BusSpec

\* The record a reader leaves GetIMU with is all of one packet, whatever is
\* sent, as long as fewer frames were lost than splice two packets and than
\* bring the packet being received round to the record before it.
THEOREM ReadersGetWhole == BusSpec => []ServedWhole
  <1>1. BusInv => ServedWhole
    BY DEF BusInv, CopyInv, ServedWhole
  <1> QED
    BY <1>1, BusInvariance, PTL

----------------------------------------------------------------------------
(* The ring implements the latched register.                               *)

Newest == buf[Pred(NextSlot)]
Shown == IF fetch_pos.slot = -1 THEN BlankRecord ELSE buf[Pred(fetch_pos.slot)]
Out == [r \in Reader |-> IF gpc[r] = "copy" THEN buf[get_pos[r]] ELSE imu[r]]
Kept == lost <= 1

LEMMA InitSample == BusInit => Sample!Init
  <1> SUFFICES ASSUME BusInit PROVE Sample!Init
    OBVIOUS
  <1>1. lost <= 1 /\ fetch_pos.slot = -1
    BY DEF BusInit, Init
  <1>2. buf[Pred(NextSlot)] = BlankRecord
    BY ImuAssumption, BusAssumption DEF BusInit, Init, NextSlot, Begin, Pred, BlankRecord
  <1>3. [r \in Reader |-> IF gpc[r] = "copy" THEN buf[get_pos[r]] ELSE imu[r]]
          = [r \in Reader |-> BlankRecord]
    BY DEF BusInit, Init, BlankRecord
  <1> QED
    BY <1>1, <1>2, <1>3 DEF Sample!Init

\* What readers got changes when one of them acquires the lock.
LEMMA OutQuiet ==
  ASSUME UNCHANGED gvars, buf' = buf \/ \A r \in Reader : gpc[r] # "copy"
  PROVE  Out' = Out
  BY DEF Out, gvars

LEMMA OutReader ==
  ASSUME IInv, NEW r \in Reader, GetIMU(r) \/ CopyPart(r) \/ Copied(r) \/ Unlock(r)
  PROVE  Out' = Out
  <1> SUFFICES ASSUME NEW q \in Reader
               PROVE  (IF gpc'[q] = "copy" THEN buf'[get_pos'[q]] ELSE imu'[q])
                        = (IF gpc[q] = "copy" THEN buf[get_pos[q]] ELSE imu[q])
    BY DEF Out
  <1>0. /\ buf' = buf /\ gpc \in [Reader -> {"idle", "lock", "copy", "unlock"}]
        /\ DOMAIN get_pos = Reader /\ DOMAIN imu = Reader
        /\ get_pos' = get_pos
    BY DEF IInv, TypeOK, rvars, GetIMU, CopyPart, Copied, Unlock
  <1>1. CASE q # r
    BY <1>0, <1>1 DEF GetIMU, CopyPart, Copied, Unlock
  <1>2. CASE q = r /\ (GetIMU(r) \/ Unlock(r))
    <2>1. gpc[r] # "copy" /\ gpc'[r] # "copy"
      BY <1>0, <1>2, ImuAssumption DEF GetIMU, Unlock
    <2> QED
      BY <1>2, <2>1 DEF GetIMU, Unlock
  <1>3. CASE q = r /\ CopyPart(r)
    BY <1>0, <1>3 DEF CopyPart
  <1>4. CASE q = r /\ Copied(r)
    <2>1. gpc[r] = "copy" /\ copied[r] = ImuFrames /\ gpc'[r] = "unlock" /\ imu' = imu
      BY <1>0, <1>4 DEF Copied
    <2>2. \A i \in Part : i < ImuFrames
      BY ImuAssumption DEF Part
    <2>3. \A i \in Part : imu[r][i] = buf[get_pos[r]][i]
      BY <2>1, <2>2 DEF IInv, NoTornRead
    <2>4. imu[r] \in [Part -> Cell] /\ buf[get_pos[r]] \in [Part -> Cell]
      <3>1. get_pos[r] \in 0 .. MaxImu - 1
        BY <2>1 DEF IInv, NoTornRead
      <3> QED
        BY <3>1, ImuAssumption DEF IInv, TypeOK, Record
    <2> QED
      BY <1>0, <1>4, <2>1, <2>3, <2>4
  <1> QED
    BY <1>1, <1>2, <1>3, <1>4

LEMMA OutAcquire ==
  ASSUME IInv, BusType, RingInv, NEW r \in Reader, Acquire(r)
  PROVE  Out' = Out \/ (Shown # BlankRecord /\ Out' = [Out EXCEPT ![r] = Shown])
  <1>0. /\ buf' = buf /\ imu' = imu /\ gpc \in [Reader -> {"idle", "lock", "copy", "unlock"}]
        /\ get_pos \in [Reader -> -1 .. MaxImu] /\ gpc[r] = "lock"
    BY DEF IInv, TypeOK, rvars, Acquire
  <1>1. CASE bReady
    <2>1. Shown = buf[SlotToGet] /\ Whole(Shown)
      BY <1>1, GetsWhole DEF Shown
    <2>2. Shown # BlankRecord
      BY <2>1, PartFacts DEF Whole, BlankRecord, Zero
    <2>3. get_pos' = [get_pos EXCEPT ![r] = SlotToGet] /\ gpc' = [gpc EXCEPT ![r] = "copy"]
      BY <1>1 DEF Acquire
    <2>4. \A q \in Reader : (IF gpc'[q] = "copy" THEN buf'[get_pos'[q]] ELSE imu'[q])
                              = [Out EXCEPT ![r] = Shown][q]
      BY <1>0, <2>1, <2>3 DEF Out
    <2>5. Out' = [Out EXCEPT ![r] = Shown]
      BY <2>4 DEF Out
    <2> QED
      BY <2>2, <2>5
  <1>2. CASE ~bReady
    <2>1. get_pos' = get_pos /\ gpc' = [gpc EXCEPT ![r] = "unlock"]
      BY <1>2 DEF Acquire
    <2>2. \A q \in Reader : (IF gpc'[q] = "copy" THEN buf'[get_pos'[q]] ELSE imu'[q])
                              = (IF gpc[q] = "copy" THEN buf[get_pos[q]] ELSE imu[q])
      BY <1>0, <2>1
    <2> QED
      BY <2>2 DEF Out
  <1> QED
    BY <1>1, <1>2

\* Each step with at most one frame lost is one of the register, or none.
SampleStep ==
  \/ UNCHANGED << Newest, Shown, Out >>
  \/ /\ Newest' \in SoundRecords /\ SoundRecord(Newest') /\ Stamped(Newest') > Stamped(Newest)
     /\ Shown = Newest /\ UNCHANGED << Shown, Out >>
  \/ Shown' = Newest /\ UNCHANGED << Newest, Out >>
  \/ Shown # BlankRecord /\ UNCHANGED << Newest, Shown >>
     /\ \E r \in Reader : Out' = [Out EXCEPT ![r] = Shown]

LEMMA ShownKept == ASSUME UNCHANGED << buf, fetch_pos >> PROVE Shown' = Shown
  BY DEF Shown

LEMMA KeptStep ==
  ASSUME IInv, BusInv, Kept, Kept', [BusNext]_busvars
  PROVE  SampleStep
  <1>1. BusType /\ FewLost /\ PacketInv /\ RingInv /\ StampInv
    BY OneLossIsFew DEF BusInv, Kept
  <1>2. CASE Newest' # Newest
    <2>1. PICK f \in Sent :
            /\ EndPacket(f) /\ Accepts(f) /\ pkt <= MaxPkt
            /\ UNCHANGED << buf, fetch_pos, gvars >>
            /\ lock = Recv /\ NextSlot' = store_pos.slot /\ store_pos.slot # fetch_pos.slot
      BY <1>1, <1>2, NewestStep DEF Newest
    <2>2. /\ Pred(store_pos.slot) = fetch_pos.slot
          /\ Whole(buf[fetch_pos.slot]) /\ Check4Q(buf[fetch_pos.slot])
          /\ Stamped(buf[fetch_pos.slot]) = pkt
          /\ buf[fetch_pos.slot] \in SoundRecords
      BY <1>1, <2>1, AcceptedIs DEF Kept
    <2>3. Newest' = buf[fetch_pos.slot]
      BY <2>1, <2>2 DEF Newest
    <2>4. Stamped(Newest) < pkt /\ Stamped(Newest) \in Nat /\ pkt \in Nat
      BY <1>1, StampIs DEF StampInv, Kept, Newest, BusType
    <2>5. Shown = Newest
      BY <1>1, <2>1, Places DEF Shown, Newest, NextSlot, EndPacket, StartSlot
    <2>6. UNCHANGED << Shown, Out >>
      BY <2>1, OutQuiet, ShownKept
    <2> QED
      BY <2>2, <2>3, <2>4, <2>5, <2>6 DEF SampleStep, SoundRecord
  <1>3. CASE Newest' = Newest
    <2>1. CASE Deliver
      <3>1. PICK f \in Sent : RecvFrame(f)
        BY <2>1 DEF Deliver
      <3>2. pkt <= MaxPkt /\ f \in AnyFrame
        BY <1>1, <2>1, SentIs DEF Deliver, Advance
      <3>3. CASE Ignore(f) \/ AttiHead(f) \/ Abort(f) \/ EndPacket(f)
        <4>1. UNCHANGED << buf, fetch_pos, gvars >>
          BY <3>3 DEF Ignore, AttiHead, Abort, EndPacket
        <4> QED
          BY <1>3, <4>1, OutQuiet, ShownKept DEF SampleStep
      <3>4. CASE Append8(f)
        <4>1. /\ UNCHANGED << fetch_pos, gvars >> /\ fetch_pos.slot >= 0
              /\ buf'[Pred(fetch_pos.slot)] = buf[Pred(fetch_pos.slot)]
          BY <1>1, <3>2, <3>4, AppendRing
        <4>2. \A r \in Reader : gpc[r] # "copy"
          BY <3>4, HoldingExcludesReaders DEF Append8
        <4>3. Shown' = Shown
          BY <4>1 DEF Shown
        <4> QED
          BY <1>3, <4>1, <4>2, <4>3, OutQuiet DEF SampleStep
      <3> QED
        BY <3>1, <3>3, <3>4 DEF RecvFrame
    <2>2. CASE Lose \/ UNCHANGED busvars
      <3>1. UNCHANGED << buf, fetch_pos, gvars >>
        BY <2>2 DEF Lose, busvars, vars, rvars
      <3> QED
        BY <1>3, <3>1, OutQuiet, ShownKept DEF SampleStep
    <2>3. CASE Setup \/ ClearReady \/ TestRunning \/ ReadFails \/ Wrap \/ exit_imu_receive
      <3>1. UNCHANGED << buf, fetch_pos, gvars >>
        BY <2>3 DEF Setup, ClearReady, TestRunning, ReadFails, Wrap, exit_imu_receive, rvars
      <3> QED
        BY <1>3, <3>1, OutQuiet, ShownKept DEF SampleStep
    <2>4. CASE LockRing
      <3>1. UNCHANGED << buf, gvars >> /\ fetch_pos' = store_pos /\ NextSlot = store_pos.slot
        BY <2>4, ImuAssumption DEF LockRing, NextSlot
      <3>2. store_pos.slot # -1
        BY <1>1, Places
      <3>3. Shown' = Newest
        BY <3>1, <3>2 DEF Shown, Newest
      <3> QED
        BY <1>3, <3>1, <3>3, OutQuiet DEF SampleStep
    <2>5. ASSUME NEW r \in Reader, ReaderStep(r) PROVE SampleStep
      <3>1. Shown' = Shown
        BY <2>5, ReaderKeeps, ShownKept DEF rvars
      <3>2. CASE Acquire(r)
        BY <1>1, <1>3, <3>1, <3>2, OutAcquire DEF SampleStep
      <3>3. CASE GetIMU(r) \/ CopyPart(r) \/ Copied(r) \/ Unlock(r)
        BY <1>3, <3>1, <3>3, OutReader DEF SampleStep
      <3> QED
        BY <2>5, <3>2, <3>3 DEF ReaderStep
    <2> QED
      BY <2>1, <2>2, <2>3, <2>4, <2>5 DEF BusNext, LocalStep, ReceiverStep
  <1> QED
    BY <1>2, <1>3

LEMMA ImplementsStep ==
  IInv /\ BusInv /\ [BusNext]_busvars
    => [Sample!Next]_<< lost <= 1, Newest, Shown, Out >>
  <1> SUFFICES ASSUME IInv, BusInv, [BusNext]_busvars
               PROVE  [Sample!Next]_<< lost <= 1, Newest, Shown, Out >>
    OBVIOUS
  <1>1. CASE ~Kept'
    BY <1>1 DEF Kept, Sample!Next, Sample!Void
  <1>2. CASE Kept'
    <2>1. Kept
      BY <1>2, LostGrows DEF Kept, BusInv, BusType
    <2>2. SampleStep
      BY <1>2, <2>1, KeptStep
    <2>3. (lost <= 1)' = (lost <= 1)
      BY <1>2, <2>1 DEF Kept
    <2>4. CASE UNCHANGED << Newest, Shown, Out >>
      BY <2>3, <2>4
    <2>5. CASE /\ Newest' \in SoundRecords /\ SoundRecord(Newest')
               /\ Stamped(Newest') > Stamped(Newest)
               /\ Shown = Newest /\ UNCHANGED << Shown, Out >>
      <3>1. Sample!Accept(Newest')
        BY <2>5 DEF Sample!Accept, Newest, Shown, Out
      <3> QED
        BY <1>2, <2>1, <2>5, <3>1 DEF Sample!Next, Kept
    <2>6. CASE Shown' = Newest /\ UNCHANGED << Newest, Out >>
      <3>1. Sample!Latch
        BY <2>6 DEF Sample!Latch, Newest, Shown, Out
      <3> QED
        BY <1>2, <2>1, <3>1 DEF Sample!Next, Kept
    <2>7. CASE Shown # BlankRecord /\ UNCHANGED << Newest, Shown >>
               /\ \E r \in Reader : Out' = [Out EXCEPT ![r] = Shown]
      <3>1. PICK r \in Reader : Out' = [Out EXCEPT ![r] = Shown]
        BY <2>7
      <3>2. Sample!Serve(r)
        BY <2>7, <3>1 DEF Sample!Serve, Newest, Shown, Out
      <3> QED
        BY <1>2, <2>1, <3>2 DEF Sample!Next, Kept
    <2> QED
      BY <2>2, <2>4, <2>5, <2>6, <2>7 DEF SampleStep
  <1> QED
    BY <1>1, <1>2

\* The ring, its mutex and GetIMU implement the latched register as long as at
\* most one frame was lost: a reader gets one whole checked record, the newest
\* when the packet that is being received started, and never an older one than
\* before, for any ring size, record length, readers and packets.
THEOREM RingIsRegister == BusSpec => ImplementsSample
  <1>1. BusInit => Sample!Init
    BY InitSample
  <1>2. IInv /\ BusInv /\ [BusNext]_busvars
          => [Sample!Next]_<< lost <= 1, buf[Pred(NextSlot)],
               IF fetch_pos.slot = -1 THEN BlankRecord ELSE buf[Pred(fetch_pos.slot)],
               [r \in Reader |-> IF gpc[r] = "copy" THEN buf[get_pos[r]] ELSE imu[r]] >>
    BY ImplementsStep DEF Newest, Shown, Out
  <1> QED
    BY <1>1, <1>2, BusInvariance, PTL DEF BusSpec, ImplementsSample, Sample!Spec
=============================================================================
