---------------------------- MODULE ImuHandshake ----------------------------
(***************************************************************************)
(* How the IMU receiver of can_scoket1.c gets to its loop: InitIMUCan opens *)
(* and binds the CAN socket, then IMUCanRecv lets only key packets through  *)
(* (id 0x108) and takes the key out of one, and lets only IMU packets       *)
(* through (0x090) and waits for a complete one.  It is the step Setup of   *)
(* ImuReceiver.                                                            *)
(*                                                                         *)
(* The sender, outside the repository, sends packets of both kinds frame by *)
(* frame all the time, and the socket queues the frames its filter lets     *)
(* through: all of them from bind to the first filter.  A filter does not   *)
(* take frames out of the queue.  Lengths are counted in units of 4 bytes.  *)
(***************************************************************************)
EXTENDS Integers, Sequences

CONSTANTS
  ModeFrames,  \* frames of a key packet, 8 bytes each: sizeof(NormalMode) / 8
  ImuFrames,   \* data frames of an IMU packet, between its head and its tail
  MaxPkt,      \* bound: packet numbers, used again in turn
  MaxLost,     \* bound: frames lost
  MaxQueue,    \* bound: frames in the socket
  Mode, Imu,   \* the ids 0x108 and 0x090
  NoUnit       \* what is in memory that was never written

ModeUnits == 2 * ModeFrames         \* sizeof(NormalMode)
ImuUnits  == 2 * (ImuFrames + 1) + 1 \* sizeof(IMU_Package)

Pkt == 0 .. MaxPkt

ASSUME HandshakeAssumption ==
  /\ ModeFrames \in Nat \ {0, 1} /\ ImuFrames \in Nat
  /\ MaxPkt \in Nat \ {0} /\ MaxLost \in Nat /\ MaxQueue \in Nat \ {0}
  /\ Mode # Imu

VARIABLES
  rpc,      \* where the receiver is
  filter,   \* the ids the socket lets through
  queue,    \* the frames in it
  bIs,      \* bIs of GetKey, bIsAtti of WaitImuReady: inside a packet
  cnt,      \* the units of it so far
  tMode,    \* the packet GetKey copies and takes the key from, on its stack
  sending,  \* for each id, the frame that is sent next
  lost,     \* for each id, how many of its frames were lost
  failed,   \* read() failed in the loop
  foreign,  \* frames of the other id the loop has read
  row,      \* how many frames of one packet it has read in a row
  missed    \* the whole packets it has read without taking one

loopvars == << bIs, cnt, tMode, failed, foreign, row, missed >>
busvars  == << queue, sending, lost >>
vars     == << rpc, filter, loopvars, busvars >>

----------------------------------------------------------------------------
(* Frames.                                                                 *)

Last  == [id \in {Mode, Imu} |-> IF id = Mode THEN ModeFrames - 1 ELSE ImuFrames + 1]
Frame == UNION {[id : {id}, pkt : Pkt, idx : 0 .. Last[id]] : id \in {Mode, Imu}}

\* can_dlc in units: the tail of an IMU packet has a frame of 4 bytes.
Dlc(f) == IF f.id = Imu /\ f.idx = Last[Imu] THEN 1 ELSE 2

CheckIsMcMode(f) == f.id = Mode /\ f.idx = 0
CheckIsAtti(f)   == f.id = Imu /\ f.idx = 0

\* A tail in the whole of a frame, and in its last 4 bytes.
CheckIsTail(f)   == f.id = Imu /\ f.idx = Last[Imu]
TailBehind(f)    == f.id = Mode /\ f.idx = Last[Mode]

Unit       == Frame \X {0, 1}
UnitsOf(f) == [i \in 0 .. Dlc(f) - 1 |-> << f, i >>]

\* The frame sent after f.
FrameAfter(f) ==
  IF f.idx < Last[f.id]
  THEN [f EXCEPT !.idx = @ + 1]
  ELSE [f EXCEPT !.idx = 0, !.pkt = IF @ + 1 \in Pkt THEN @ + 1 ELSE 0]

----------------------------------------------------------------------------
Init ==
  /\ rpc = "init" /\ filter = {} /\ queue = << >>
  /\ bIs = FALSE /\ cnt = 0 /\ foreign = 0 /\ row = 0 /\ missed = 0
  /\ tMode = [i \in 0 .. ModeUnits - 1 |-> NoUnit]
  /\ sending \in [{Mode, Imu} -> {f \in Frame : f.pkt = 0}]
  /\ \A id \in {Mode, Imu} : sending[id].id = id
  /\ lost = [id \in {Mode, Imu} |-> 0]
  /\ failed = FALSE

----------------------------------------------------------------------------
(* The bus, which the module follows to the end of the handshake.          *)

Over == rpc \in {"receive", "done"}

Send(id) ==
  /\ ~Over /\ (id \in filter => Len(queue) < MaxQueue)
  /\ queue' = IF id \in filter THEN Append(queue, sending[id]) ELSE queue
  /\ sending' = [sending EXCEPT ![id] = FrameAfter(@)]
  /\ UNCHANGED << rpc, filter, loopvars, lost >>

\* On the bus, or in the socket because its queue is full.
Lose(id) ==
  /\ ~Over /\ id \in filter /\ lost[Mode] + lost[Imu] < MaxLost
  /\ lost' = [lost EXCEPT ![id] = @ + 1]
  /\ sending' = [sending EXCEPT ![id] = FrameAfter(@)]
  /\ UNCHANGED << rpc, filter, loopvars, queue >>

----------------------------------------------------------------------------
(* InitIMUCan behind the set-up of the link, which is in CanLink; it       *)
(* returns false at the first step that fails, and may be called again.    *)

GoesTo(from, to) ==
  /\ rpc = from /\ rpc' = to
  /\ UNCHANGED << loopvars, busvars >>

InitFails == \E from \in {"init", "bind"} : GoesTo(from, "init") /\ UNCHANGED filter

Socket == GoesTo("init", "bind") /\ UNCHANGED filter

\* A bound socket lets every frame through; the rest of InitIMUCan is the
\* initial state of ImuReceiver.
Bind == GoesTo("bind", "filter key") /\ filter' = {Mode, Imu}

----------------------------------------------------------------------------
(* IMUCanRecv.  A loop over frames starts with fresh variables.            *)

Fresh == [i \in 0 .. ModeUnits - 1 |-> NoUnit]

FreshLoop ==
  /\ bIs' = FALSE /\ cnt' = 0 /\ tMode' = Fresh
  /\ failed' = FALSE /\ foreign' = 0 /\ row' = 0 /\ missed' = 0

SetFilter(id, from, to) ==
  /\ rpc = from
  /\ \/ rpc' = to /\ filter' = {id} /\ FreshLoop
     \/ rpc' = "done" /\ UNCHANGED << filter, loopvars >>
  /\ UNCHANGED busvars

FilterKey == SetFilter(Mode, "filter key", "get key")
FilterImu == SetFilter(Imu, "filter imu", "wait ready")

\* Bound: missed is not counted further than MissedBounded tells apart.
MissedCap == MaxLost + MaxQueue + 2

\* read() returns f in the loop over frames of id, and the loop goes on or,
\* with the packet that f ends, takes it.
Reads(f, id, takes) ==
  /\ queue # << >> /\ f = Head(queue) /\ queue' = Tail(queue)
  /\ foreign' = IF f.id = id THEN foreign ELSE foreign + 1
  /\ row' = IF f.id # id THEN row
            ELSE IF f.idx = row THEN (row + 1) % (Last[id] + 1)
            ELSE IF f.idx = 0 THEN 1 ELSE 0
  /\ missed' = IF f.id = id /\ f.idx = row /\ row = Last[id] /\ ~takes /\ missed < MissedCap
             THEN missed + 1 ELSE missed
  /\ UNCHANGED << filter, failed, sending, lost >>

\* bIs and cnt behind the test for a head, which only happens outside a packet.
Inside(f, isHead) == IF ~bIs /\ Dlc(f) = 2 THEN isHead ELSE bIs
Count(f) == IF ~bIs /\ Dlc(f) = 2 THEN 0 ELSE cnt

\* A frame GetKey passes over.
KeyOutside(f) ==
  /\ rpc = "get key" /\ ~Inside(f, CheckIsMcMode(f))
  /\ Reads(f, Mode, FALSE)
  /\ bIs' = FALSE /\ cnt' = Count(f)
  /\ UNCHANGED << rpc, tMode >>

\* Faulty KeyTooLong: the packet is not given up.
KeyTooLongStays(f) ==
  /\ rpc = "get key" /\ Inside(f, CheckIsMcMode(f)) /\ Count(f) + Dlc(f) > ModeUnits
  /\ Reads(f, Mode, FALSE)
  /\ bIs' = TRUE /\ cnt' = Count(f)
  /\ UNCHANGED << rpc, tMode >>

KeyTooLong(f) ==
  /\ rpc = "get key" /\ Inside(f, CheckIsMcMode(f)) /\ Count(f) + Dlc(f) > ModeUnits
  /\ Reads(f, Mode, FALSE)
  /\ bIs' = FALSE /\ cnt' = 0
  /\ UNCHANGED << rpc, tMode >>

Copied(f) ==
  [i \in 0 .. ModeUnits - 1 |->
     IF i - Count(f) \in 0 .. Dlc(f) - 1 THEN UnitsOf(f)[i - Count(f)] ELSE tMode[i]]

KeyPart(f) ==
  /\ rpc = "get key" /\ Inside(f, CheckIsMcMode(f)) /\ Count(f) + Dlc(f) < ModeUnits
  /\ Reads(f, Mode, FALSE)
  /\ tMode' = Copied(f)
  /\ bIs' = TRUE /\ cnt' = Count(f) + Dlc(f)
  /\ UNCHANGED rpc

\* Faulty KeyComplete: the last frame is not tested for the tail.
KeyCompleteUntested(f) ==
  /\ rpc = "get key" /\ Inside(f, CheckIsMcMode(f)) /\ Count(f) + Dlc(f) = ModeUnits
  /\ Reads(f, Mode, TRUE)
  /\ tMode' = Copied(f)
  /\ bIs' = TRUE /\ cnt' = ModeUnits /\ rpc' = "filter imu"

\* Faulty KeyComplete: a full packet without a tail is not given up.
KeyCompleteStays(f) ==
  /\ rpc = "get key" /\ Inside(f, CheckIsMcMode(f)) /\ Count(f) + Dlc(f) = ModeUnits
  /\ Reads(f, Mode, TailBehind(f))
  /\ tMode' = Copied(f) /\ bIs' = TRUE /\ cnt' = ModeUnits
  /\ rpc' = IF TailBehind(f) THEN "filter imu" ELSE rpc

\* A packet is full: its key counts if it ends in a tail.
KeyComplete(f) ==
  /\ rpc = "get key" /\ Inside(f, CheckIsMcMode(f)) /\ Count(f) + Dlc(f) = ModeUnits
  /\ Reads(f, Mode, TailBehind(f))
  /\ tMode' = Copied(f)
  /\ IF TailBehind(f)
     THEN bIs' = TRUE /\ cnt' = ModeUnits /\ rpc' = "filter imu"
     ELSE bIs' = FALSE /\ cnt' = 0 /\ UNCHANGED rpc

\* A failed read() ends the loop and the key is what the stack holds.
KeyReadFails ==
  /\ rpc = "get key" /\ rpc' = "filter imu"
  /\ failed' = TRUE
  /\ UNCHANGED << filter, bIs, cnt, tMode, foreign, row, missed, busvars >>

\* Faulty ReadyFrame: a packet of the wrong length is not given up.
ReadyFrameStays(f) ==
  LET inside == Inside(f, CheckIsAtti(f))
      n      == Count(f) + (IF inside THEN Dlc(f) ELSE 0)
      tail   == inside /\ CheckIsTail(f)
  IN /\ rpc = "wait ready"
     /\ Reads(f, Imu, tail /\ n = ImuUnits)
     /\ rpc' = IF tail /\ n = ImuUnits THEN "receive" ELSE rpc
     /\ bIs' = inside /\ cnt' = IF n > ImuUnits THEN ImuUnits + 1 ELSE n
     /\ UNCHANGED tMode

\* A tail ends a packet, and the wait when the length is right.
ReadyFrame(f) ==
  LET inside == Inside(f, CheckIsAtti(f))
      n      == Count(f) + (IF inside THEN Dlc(f) ELSE 0)
      tail   == inside /\ CheckIsTail(f)
  IN /\ rpc = "wait ready"
     /\ Reads(f, Imu, tail /\ n = ImuUnits)
     /\ rpc' = IF tail /\ n = ImuUnits THEN "receive" ELSE rpc
     /\ bIs' = (inside /\ (tail => n = ImuUnits))
     /\ cnt' = IF tail /\ n # ImuUnits THEN 0 ELSE n
     /\ UNCHANGED tMode

ReadyReadFails ==
  /\ rpc = "wait ready" /\ rpc' = "receive"
  /\ failed' = TRUE
  /\ UNCHANGED << filter, bIs, cnt, tMode, foreign, row, missed, busvars >>

----------------------------------------------------------------------------
GetKey(f) == KeyOutside(f) \/ KeyTooLong(f) \/ KeyPart(f) \/ KeyComplete(f)

ReadFrame == \E f \in Frame : GetKey(f) \/ ReadyFrame(f)

Next ==
  \/ InitFails \/ Socket \/ Bind \/ FilterKey \/ FilterImu
  \/ ReadFrame \/ KeyReadFails \/ ReadyReadFails
  \/ \E id \in {Mode, Imu} : Send(id) \/ Lose(id)

\* The sender sends on and the receiver runs on.
Fairness ==
  /\ \A id \in {Mode, Imu} : WF_vars(Send(id))
  /\ WF_vars(ReadFrame) /\ WF_vars(FilterKey \/ FilterImu)

Spec == Init /\ [][Next]_vars /\ Fairness

----------------------------------------------------------------------------
TypeOK ==
  /\ rpc \in {"init", "bind", "filter key", "get key", "filter imu", "wait ready", "receive", "done"}
  /\ filter \subseteq {Mode, Imu}
  /\ queue \in Seq(Frame) /\ Len(queue) <= MaxQueue
  /\ bIs \in BOOLEAN
  /\ cnt \in Nat /\ (rpc = "get key" => cnt < ModeUnits /\ (bIs => cnt > 1))
  /\ tMode \in [0 .. ModeUnits - 1 -> Unit \cup {NoUnit}]
  /\ sending \in [{Mode, Imu} -> Frame] /\ \A id \in {Mode, Imu} : sending[id].id = id
  /\ lost \in [{Mode, Imu} -> 0 .. MaxLost]
  /\ failed \in BOOLEAN
  /\ foreign \in Nat /\ row \in Nat /\ missed \in 0 .. MissedCap

\* The packet GetKey takes the key from is one packet as it was sent, whatever
\* was in the socket before the filter, unless a frame of another id took the
\* place of a lost one or as many frames were lost as a packet has: the length
\* and the tail show everything else (318-358).
KeyWhole ==
  rpc = "filter imu" /\ ~failed /\ (lost[Mode] = 0 \/ (foreign = 0 /\ lost[Mode] < ModeFrames)) =>
    \E p \in Pkt : tMode = [i \in 0 .. ModeUnits - 1 |-> << [id |-> Mode, pkt |-> p, idx |-> i \div 2], i % 2 >>]

\* A packet that is broken off drags the next one along, as neither loop looks
\* for a head inside a packet, but no more than that: each lost frame and each
\* frame of another id costs at most one whole packet, and so does the frame
\* an IMU packet is left with when the first filter cuts it (326-355, 380-404).
MissedBounded ==
  /\ rpc = "get key" => missed <= lost[Mode] + foreign
  /\ rpc = "wait ready" => missed <= lost[Imu] + foreign + 1

\* Whatever is lost and left over, the key is found and the IMU gets ready, or
\* a filter cannot be set (136-148).
HandshakeEnds == rpc = "filter key" ~> Over
=============================================================================
