------------------------------ MODULE ImuBus -------------------------------
(***************************************************************************)
(* The receiver of can_scoket1.c on a bus: a sender (the IMU, outside the  *)
(* repository) sends packets of a head frame, ImuFrames data frames and a  *)
(* tail frame in order, and frames get lost on the way to read(), at most  *)
(* MaxLost of them.  The receiver's own steps are those of ImuReceiver.    *)
(***************************************************************************)
EXTENDS ImuReceiver

CONSTANTS
  MaxPkt,   \* bound: packets the sender sends
  MaxLost,  \* bound: frames lost
  Noise     \* the kinds a data frame's payload can be mistaken for

ASSUME BusAssumption ==
  /\ MaxImu > 1  \* MAX_IMU_NUM is 20 (33)
  /\ MaxPkt \in Nat /\ MaxLost \in Nat
  /\ Pkt = 1 .. MaxPkt
  /\ Noise \subseteq {"head", "tail8"}

VARIABLES
  pkt,   \* the packet being sent
  idx,   \* the next frame of it: 0 the head, ImuFrames + 1 the tail
  unit,  \* the quaternion of the packet passes Check4Q
  lost   \* frames lost so far

bvars == << pkt, idx, unit, lost >>
busvars == << vars, bvars >>

BusInit == Init /\ pkt = 1 /\ idx = 0 /\ unit \in BOOLEAN /\ lost = 0

\* The frame the sender sends now, as the receiver sees it.
Sent ==
  CASE idx = 0 -> [kind : {"atti"}, cell : {Zero}]
    [] idx \in 1 .. ImuFrames ->
         [kind : {"data"} \cup Noise, cell : {[pkt |-> pkt, part |-> idx - 1, unit |-> unit]}]
    [] OTHER -> [kind : {"tail4"}, cell : {Zero}]

Advance ==
  /\ pkt <= MaxPkt
  /\ IF idx <= ImuFrames
     THEN idx' = idx + 1 /\ UNCHANGED << pkt, unit >>
     ELSE idx' = 0 /\ pkt' = pkt + 1 /\ unit' \in BOOLEAN

Deliver ==
  /\ Advance
  /\ \E f \in Sent : RecvFrame(f)
  /\ UNCHANGED lost

Lose ==
  /\ lost < MaxLost
  /\ Advance
  /\ lost' = lost + 1
  /\ UNCHANGED vars

LocalStep ==
  /\ ReceiverStep \/ (\E r \in Reader : ReaderStep(r)) \/ exit_imu_receive
  /\ UNCHANGED bvars

BusNext == Deliver \/ Lose \/ LocalStep

BusSpec == BusInit /\ [][BusNext]_busvars

----------------------------------------------------------------------------
(* What the readers get.                                                   *)

Served(r) == gpc[r] = "unlock" /\ served[r]

Whole(rec) == \A i \in Part : rec[i].part = i /\ rec[i].pkt = rec[0].pkt /\ rec[i].pkt # NoPkt

\* Losses that neither make one record of two packets nor bring the packet
\* being received round to the record before it.
FewLost == lost < ImuFrames + 2 /\ lost < 2 * (MaxImu - 1)

\* The record a reader leaves GetIMU with is all of one packet as long as only
\* few frames were lost: a burst that takes the rest of one packet, its tail,
\* the next head and as many frames again splices two packets into one record,
\* and each tail lost with the next head lets one more packet in before the
\* first is checked, until they reach the record readers get (186-213, 228-255).
ServedWhole == FewLost => \A r \in Reader : Served(r) => Whole(imu[r])

----------------------------------------------------------------------------
(* The abstract register.                                                  *)

Pred(slot) == IF slot = 0 THEN MaxImu - 1 ELSE slot - 1

\* Where the packet being received started, or the next one will.
NextSlot == IF lock = Recv THEN fetch_pos.slot ELSE store_pos.slot

BlankRecord == [i \in Part |-> Zero]
Stamped(rec) == IF rec[0].pkt = NoPkt THEN 0 ELSE rec[0].pkt
SoundRecord(rec) == Whole(rec) /\ Check4Q(rec)
SoundRecords == {[i \in Part |-> [pkt |-> p, part |-> i, unit |-> TRUE]] : p \in Pkt}

Sample == INSTANCE ImuSample WITH
  Record <- SoundRecords,
  Sound  <- SoundRecord,
  Stamp  <- Stamped,
  Blank  <- BlankRecord,
  kept   <- lost <= 1,
  newest <- buf[Pred(NextSlot)],
  shown  <- IF fetch_pos.slot = -1 THEN BlankRecord ELSE buf[Pred(fetch_pos.slot)],
  out    <- [r \in Reader |-> IF gpc[r] = "copy" THEN buf[get_pos[r]] ELSE imu[r]]

\* With at most one frame lost, the ring, its mutex and GetIMU implement the
\* latched register: whatever the interleaving of receiver and readers, a
\* reader gets one whole checked record, at most one behind the newest, and
\* never an older one than before (129-260).
ImplementsSample == Sample!Spec
=============================================================================
