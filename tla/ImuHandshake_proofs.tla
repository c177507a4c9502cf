------------------------ MODULE ImuHandshake_proofs ------------------------
(***************************************************************************)
(* The handshake for every packet length, every queue and any number of    *)
(* lost frames: the packet the key is taken from is whole, and a broken    *)
(* packet costs at most one whole packet.                                  *)
(***************************************************************************)
EXTENDS ImuHandshake, TLAPS

----------------------------------------------------------------------------
(* Frames.                                                                 *)

LEMMA LastIs == Last[Mode] = ModeFrames - 1 /\ Last[Imu] = ImuFrames + 1
  BY HandshakeAssumption DEF Last

LEMMA FrameFields ==
  ASSUME NEW f \in Frame
  PROVE  /\ f.id \in {Mode, Imu} /\ f.pkt \in Pkt /\ f.idx \in 0 .. Last[f.id]
         /\ f = [id |-> f.id, pkt |-> f.pkt, idx |-> f.idx]
  BY DEF Frame

LEMMA FrameIs ==
  ASSUME NEW id \in {Mode, Imu}, NEW p \in Pkt, NEW i \in 0 .. Last[id]
  PROVE  [id |-> id, pkt |-> p, idx |-> i] \in Frame
  BY DEF Frame

LEMMA FrameAfterIs ==
  ASSUME NEW f \in Frame
  PROVE  /\ FrameAfter(f) \in Frame /\ FrameAfter(f).id = f.id
         /\ f.idx < Last[f.id] => FrameAfter(f).idx = f.idx + 1 /\ FrameAfter(f).pkt = f.pkt
         /\ f.idx = Last[f.id] => FrameAfter(f).idx = 0
  <1>1. /\ f.id \in {Mode, Imu} /\ f.pkt \in Pkt /\ f.idx \in 0 .. Last[f.id]
        /\ f = [id |-> f.id, pkt |-> f.pkt, idx |-> f.idx]
    BY FrameFields
  <1>2. Last[f.id] \in Nat
    BY <1>1, LastIs, HandshakeAssumption
  <1>3. CASE f.idx < Last[f.id]
    <2>1. FrameAfter(f) = [id |-> f.id, pkt |-> f.pkt, idx |-> f.idx + 1]
      BY <1>1, <1>3 DEF FrameAfter
    <2>2. f.idx + 1 \in 0 .. Last[f.id]
      BY <1>1, <1>2, <1>3
    <2> QED
      BY <1>1, <1>3, <2>1, <2>2, FrameIs
  <1>4. CASE f.idx = Last[f.id]
    <2> DEFINE p == IF f.pkt + 1 \in Pkt THEN f.pkt + 1 ELSE 0
    <2>0. ~ (f.idx < Last[f.id])
      BY <1>2, <1>4
    <2>1. FrameAfter(f) = [f EXCEPT !.idx = 0, !.pkt = p]
      BY <2>0 DEF FrameAfter
    <2>2. p \in Pkt
      BY HandshakeAssumption DEF Pkt
    <2>3. 0 \in 0 .. Last[f.id]
      BY <1>2
    <2> HIDE DEF p
    <2>4. FrameAfter(f) = [id |-> f.id, pkt |-> p, idx |-> 0]
      BY <1>1, <2>1
    <2> QED
      BY <1>1, <1>2, <1>4, <2>2, <2>3, <2>4, FrameIs
  <1> QED
    BY <1>1, <1>2, <1>3, <1>4

LEMMA DlcIs ==
  ASSUME NEW f \in Frame
  PROVE  Dlc(f) \in {1, 2} /\ (f.id = Mode => Dlc(f) = 2)
  BY HandshakeAssumption DEF Dlc

----------------------------------------------------------------------------
(* Types.                                                                  *)

LEMMA FreshType == Fresh \in [0 .. ModeUnits - 1 -> Unit \cup {NoUnit}]
  BY DEF Fresh

\* The frames GetKey copies are units, and they fit.
LEMMA CopiedType ==
  ASSUME TypeOK, NEW f \in Frame, Count(f) \in Nat
  PROVE  Copied(f) \in [0 .. ModeUnits - 1 -> Unit \cup {NoUnit}]
  <1>1. ASSUME NEW i \in 0 .. ModeUnits - 1
        PROVE  (IF i - Count(f) \in 0 .. Dlc(f) - 1 THEN UnitsOf(f)[i - Count(f)] ELSE tMode[i])
                 \in Unit \cup {NoUnit}
    <2>1. CASE i - Count(f) \in 0 .. Dlc(f) - 1
      <3>1. UnitsOf(f)[i - Count(f)] = << f, i - Count(f) >>
        BY <2>1 DEF UnitsOf
      <3>2. i - Count(f) \in {0, 1}
        BY <2>1, DlcIs DEF ModeUnits
      <3> QED
        BY <2>1, <3>1, <3>2 DEF Unit
    <2>2. CASE i - Count(f) \notin 0 .. Dlc(f) - 1
      BY <2>2 DEF TypeOK
    <2> QED
      BY <2>1, <2>2
  <1> QED
    BY <1>1 DEF Copied

----------------------------------------------------------------------------
(* The stream of the frames of one id, from the last one the loop has read *)
(* over those in the socket to the one that is sent next.                  *)

\* f may be sent d frames after x.
Gap(id, d, x, f) ==
  /\ d = 0 => f = x
  /\ id = Mode /\ d < ModeFrames => f.idx = x.idx + d \/ f.idx = x.idx + d - ModeFrames

\* In front of f, frame x is due and a frames have been lost; behind it, y and b.
Follows(id, f, x, a, y, b) ==
  IF f.id = id
  THEN a <= b /\ Gap(id, b - a, x, f) /\ y = FrameAfter(f)
  ELSE a = b /\ x = y

\* Behind the i-th frame of q, frame nx[i] is due and g[i] frames have been
\* lost, at most top; s is sent next, when allow frames have been lost.
Stream(id, q, s, top, allow, nx, g) ==
  /\ nx \in [0 .. Len(q) -> Frame] /\ g \in [0 .. Len(q) -> Nat]
  /\ \A i \in 0 .. Len(q) : g[i] <= top /\ nx[i].id = id
  /\ \A i \in 1 .. Len(q) : Follows(id, q[i], nx[i - 1], g[i - 1], nx[i], g[i])
  /\ Gap(id, allow - g[Len(q)], nx[Len(q)], s)

LEMMA StreamTail ==
  ASSUME NEW id, NEW q \in Seq(Frame), q # << >>, NEW s, NEW top \in Nat, NEW allow \in Nat,
         NEW nx, NEW g, Stream(id, q, s, top, allow, nx, g)
  PROVE  \E nx1, g1 : /\ Stream(id, Tail(q), s, top, allow, nx1, g1)
                      /\ nx1[0] = nx[1] /\ g1[0] = g[1]
  <1> DEFINE n   == Len(q)
             nx1 == [i \in 0 .. n - 1 |-> nx[i + 1]]
             g1  == [i \in 0 .. n - 1 |-> g[i + 1]]
  <1>1. /\ n \in Nat \ {0} /\ Len(Tail(q)) = n - 1
        /\ \A i \in 1 .. n - 1 : Tail(q)[i] = q[i + 1]
    OBVIOUS
  <1>2. nx1 \in [0 .. n - 1 -> Frame] /\ g1 \in [0 .. n - 1 -> Nat]
    BY <1>1 DEF Stream
  <1>3. \A i \in 0 .. n - 1 : nx1[i] = nx[i + 1] /\ g1[i] = g[i + 1]
    OBVIOUS
  <1>4. \A i \in 0 .. n - 1 : g1[i] <= top /\ nx1[i].id = id
    <2> TAKE i \in 0 .. n - 1
    <2>1. i + 1 \in 0 .. n
      BY <1>1
    <2> QED
      BY <1>3, <2>1 DEF Stream
  <1>5. \A i \in 1 .. n - 1 : Follows(id, Tail(q)[i], nx1[i - 1], g1[i - 1], nx1[i], g1[i])
    <2> TAKE i \in 1 .. n - 1
    <2>1. i + 1 \in 1 .. n /\ i - 1 \in 0 .. n - 1 /\ i \in 0 .. n - 1 /\ (i - 1) + 1 = i /\ (i + 1) - 1 = i
      BY <1>1
    <2>2. Follows(id, q[i + 1], nx[(i + 1) - 1], g[(i + 1) - 1], nx[i + 1], g[i + 1])
      BY <2>1 DEF Stream
    <2>3. nx1[i - 1] = nx[i] /\ g1[i - 1] = g[i] /\ nx1[i] = nx[i + 1] /\ g1[i] = g[i + 1]
      BY <1>3, <2>1
    <2> QED
      BY <1>1, <2>1, <2>2, <2>3
  <1>6. Gap(id, allow - g1[n - 1], nx1[n - 1], s)
    <2>1. n - 1 \in 0 .. n - 1 /\ (n - 1) + 1 = n
      BY <1>1
    <2> QED
      BY <1>3, <2>1 DEF Stream
  <1>7. nx1[0] = nx[1] /\ g1[0] = g[1]
    BY <1>1
  <1> HIDE DEF n, nx1, g1
  <1>8. Stream(id, Tail(q), s, top, allow, nx1, g1)
    BY <1>1, <1>2, <1>4, <1>5, <1>6 DEF Stream
  <1> QED
    BY <1>7, <1>8

\* Frame f comes into the socket, y is due behind it with b frames lost, and t is
\* sent next.
Comes(id, q, s, top, allow, nx, g, f, y, b, t) ==
  /\ q \in Seq(Frame) /\ top \in Nat /\ allow \in Nat /\ Stream(id, q, s, top, allow, nx, g)
  /\ f \in Frame /\ y \in Frame /\ y.id = id /\ b \in Nat /\ b <= top
  /\ Follows(id, f, nx[Len(q)], g[Len(q)], y, b) /\ Gap(id, allow - b, y, t)

LEMMA StreamAppend ==
  ASSUME NEW id, NEW q, NEW s, NEW top, NEW allow, NEW nx, NEW g, NEW f, NEW y, NEW b, NEW t,
         Comes(id, q, s, top, allow, nx, g, f, y, b, t)
  PROVE  \E nx1, g1 : /\ Stream(id, Append(q, f), t, top, allow, nx1, g1)
                      /\ nx1[0] = nx[0] /\ g1[0] = g[0]
  <1> DEFINE n   == Len(q)
             nx1 == [i \in 0 .. n + 1 |-> IF i = n + 1 THEN y ELSE nx[i]]
             g1  == [i \in 0 .. n + 1 |-> IF i = n + 1 THEN b ELSE g[i]]
  <1>0. /\ q \in Seq(Frame) /\ top \in Nat /\ allow \in Nat /\ Stream(id, q, s, top, allow, nx, g)
        /\ f \in Frame /\ y \in Frame /\ y.id = id /\ b \in Nat /\ b <= top
        /\ Follows(id, f, nx[n], g[n], y, b) /\ Gap(id, allow - b, y, t)
    BY Zenon DEF Comes
  <1>1. /\ n \in Nat /\ Len(Append(q, f)) = n + 1 /\ Append(q, f)[n + 1] = f
        /\ \A i \in 1 .. n : Append(q, f)[i] = q[i]
    BY <1>0
  <1>2. /\ nx1[n + 1] = y /\ g1[n + 1] = b
        /\ \A i \in 0 .. n : nx1[i] = nx[i] /\ g1[i] = g[i]
    BY <1>1
  <1>3. nx1 \in [0 .. n + 1 -> Frame] /\ g1 \in [0 .. n + 1 -> Nat]
    <2>1. ASSUME NEW i \in 0 .. n + 1, i # n + 1 PROVE nx[i] \in Frame /\ g[i] \in Nat
      <3>1. i \in 0 .. n
        BY <1>1, <2>1
      <3> QED
        BY <1>0, <3>1 DEF Stream
    <2> HIDE DEF n
    <2> QED
      BY <1>0, <2>1
  <1> HIDE DEF nx1, g1
  <1>4. \A i \in 0 .. n + 1 : g1[i] <= top /\ nx1[i].id = id
    <2> TAKE i \in 0 .. n + 1
    <2>1. i = n + 1 \/ i \in 0 .. n
      BY <1>1
    <2> QED
      BY <1>0, <1>2, <2>1 DEF Stream
  <1>5. ASSUME NEW i \in 1 .. n + 1
        PROVE  Follows(id, Append(q, f)[i], nx1[i - 1], g1[i - 1], nx1[i], g1[i])
    <2>1. CASE i = n + 1
      <3>1. i - 1 = n /\ n \in 0 .. n
        BY <1>1, <2>1
      <3> QED
        BY <1>0, <1>1, <1>2, <2>1, <3>1
    <2>2. CASE i # n + 1
      <3>1. i \in 1 .. n /\ i - 1 \in 0 .. n /\ i \in 0 .. n
        BY <1>1, <2>2
      <3> QED
        BY <1>0, <1>1, <1>2, <3>1 DEF Stream
    <2> QED
      BY <2>1, <2>2
  <1>6. Gap(id, allow - g1[n + 1], nx1[n + 1], t)
    BY <1>0, <1>2
  <1>7. nx1[0] = nx[0] /\ g1[0] = g[0]
    BY <1>1, <1>2
  <1> HIDE DEF n
  <1> QED
    BY <1>1, <1>3, <1>4, <1>5, <1>6, <1>7 DEF Stream

LEMMA GapSelf ==
  ASSUME NEW id, NEW x \in Frame, x.id = id
  PROVE  Gap(id, 0, x, x)
  <1>1. CASE id = Mode
    <2>1. x.idx \in 0 .. ModeFrames - 1
      BY <1>1, FrameFields, LastIs
    <2>2. x.idx = x.idx + 0
      BY <2>1
    <2> QED
      BY <2>2, Zenon DEF Gap
  <1>2. CASE id # Mode
    BY <1>2 DEF Gap
  <1> QED
    BY <1>1, <1>2

\* A frame is lost, or not let through.
LEMMA GapNext ==
  ASSUME NEW id \in {Mode, Imu}, NEW x \in Frame, x.id = id, NEW s \in Frame, s.id = id,
         NEW d \in Nat, Gap(id, d, x, s)
  PROVE  Gap(id, d + 1, x, FrameAfter(s))
  <1>1. CASE id = Mode /\ d + 1 < ModeFrames
    <2>1. /\ x.idx \in 0 .. ModeFrames - 1 /\ s.idx \in 0 .. ModeFrames - 1
          /\ s.idx < ModeFrames - 1 => FrameAfter(s).idx = s.idx + 1
          /\ s.idx = ModeFrames - 1 => FrameAfter(s).idx = 0
      BY <1>1, FrameFields, FrameAfterIs, LastIs
    <2>2. s.idx = x.idx + d \/ s.idx = x.idx + d - ModeFrames
      BY <1>1, HandshakeAssumption DEF Gap
    <2> QED
      BY <1>1, <2>1, <2>2, HandshakeAssumption DEF Gap
  <1>2. CASE ~ (id = Mode /\ d + 1 < ModeFrames)
    BY <1>2 DEF Gap
  <1> QED
    BY <1>1, <1>2

LEMMA StreamLose ==
  ASSUME NEW id \in {Mode, Imu}, NEW q \in Seq(Frame), NEW s \in Frame, s.id = id,
         NEW top \in Nat, NEW allow \in Nat, NEW nx, NEW g, top <= allow,
         Stream(id, q, s, top, allow, nx, g)
  PROVE  Stream(id, q, FrameAfter(s), top + 1, allow + 1, nx, g)
  <1>1. Len(q) \in Nat /\ Len(q) \in 0 .. Len(q)
    OBVIOUS
  <1>2. /\ nx[Len(q)] \in Frame /\ nx[Len(q)].id = id /\ g[Len(q)] \in Nat /\ g[Len(q)] <= top
        /\ Gap(id, allow - g[Len(q)], nx[Len(q)], s)
    BY <1>1 DEF Stream
  <1>3. Gap(id, (allow - g[Len(q)]) + 1, nx[Len(q)], FrameAfter(s))
    BY <1>2, GapNext
  <1>4. (allow - g[Len(q)]) + 1 = (allow + 1) - g[Len(q)]
    BY <1>2
  <1>5. ASSUME NEW i \in 0 .. Len(q) PROVE g[i] <= top + 1 /\ nx[i].id = id
    <2>1. g[i] \in Nat /\ g[i] <= top /\ nx[i].id = id
      BY DEF Stream
    <2> QED
      BY <2>1
  <1>6. Gap(id, (allow + 1) - g[Len(q)], nx[Len(q)], FrameAfter(s))
    BY <1>3, <1>4
  <1> HIDE DEF Gap
  <1> QED
    BY <1>5, <1>6 DEF Stream

\* With fewer losses in the socket than allowed, any frame may be sent next.
LEMMA StreamCut ==
  ASSUME Mode # Imu, NEW q \in Seq(Frame), NEW s, NEW top \in Nat, NEW allow \in Nat,
         NEW nx, NEW g, Stream(Imu, q, s, top, allow, nx, g),
         NEW t, NEW more \in Nat, top < more
  PROVE  Stream(Imu, q, t, top, more, nx, g)
  <1>1. Len(q) \in 0 .. Len(q)
    OBVIOUS
  <1>2. g[Len(q)] \in Nat /\ g[Len(q)] <= top
    BY <1>1 DEF Stream
  <1>3. Gap(Imu, more - g[Len(q)], nx[Len(q)], t)
    BY <1>2 DEF Gap
  <1> QED
    BY <1>3 DEF Stream

----------------------------------------------------------------------------
(* The loops.                                                              *)

\* How far a loop is into a packet; outside of one cnt means nothing.
Pos == IF bIs THEN cnt ELSE 0

\* A loop is out of step when it is not as far into a packet as the frames it
\* has read in a row.
Debt == IF Pos = 2 * row THEN 0 ELSE 1

\* Unit i of key packet p, and that the first k frames of it are copied.
KeyUnit(p, i)  == << [id |-> Mode, pkt |-> p, idx |-> i \div 2], i % 2 >>
CopiedOf(p, k) == \A i \in 0 .. 2 * k - 1 : tMode[i] = KeyUnit(p, i)

\* Inside a packet GetKey holds k frames and u units of frames of the other id,
\* and d frames were lost between them.
Holds(x, a, k, u, d) ==
  /\ k \in Nat \ {0} /\ u \in Nat /\ d \in 0 .. a
  /\ Pos = 2 * k + u
  /\ foreign = 0 => u = 0
  /\ d < ModeFrames => x.idx = k + d \/ x.idx = k + d - ModeFrames
  /\ d = 0 /\ u = 0 => CopiedOf(x.pkt, k)

\* Frame x is due, and a frames have been lost before it.
KeyLoop(x, a) ==
  /\ row \in 0 .. ModeFrames - 1 /\ (row # 0 => x.idx = row)
  /\ Pos # 0 => Pos >= 2 * row /\ \E k, u, d : Holds(x, a, k, u, d)
  /\ missed + Debt <= a + foreign

\* Outside of a packet and only there, no units are counted.
PosTells == bIs => cnt > 1

ReadyLoop(x, a) ==
  /\ PosTells
  /\ row \in 0 .. ImuFrames + 1 /\ (row # 0 => x.idx = row)
  /\ missed + Debt <= a + foreign

\* The place of a frame that follows in the row.
LEMMA RowStep ==
  ASSUME NEW id \in {Mode, Imu}, row \in 0 .. Last[id], NEW f \in Frame, f.id = id,
         NEW takes \in BOOLEAN, Reads(f, id, takes)
  PROVE  /\ row' \in 0 .. Last[id] /\ (row' # 0 => FrameAfter(f).idx = row')
         /\ f.idx = row /\ row < Last[id] => row' = row + 1
         /\ f.idx = row /\ row = Last[id] => row' = 0
         /\ f.idx # row => row' = IF f.idx = 0 THEN 1 ELSE 0
  <1>1. Last[id] \in Nat \ {0} /\ f.idx \in 0 .. Last[id]
    BY LastIs, FrameFields, HandshakeAssumption
  <1>2. row' = IF f.idx = row THEN (row + 1) % (Last[id] + 1) ELSE IF f.idx = 0 THEN 1 ELSE 0
    BY DEF Reads
  <1>3. row < Last[id] => (row + 1) % (Last[id] + 1) = row + 1
    BY <1>1
  <1>4. row = Last[id] => (row + 1) % (Last[id] + 1) = 0
    BY <1>1
  <1> QED
    BY <1>1, <1>2, <1>3, <1>4, FrameAfterIs

\* The frame the loop over id reads, and what is due and lost behind it.
Read(id, f, x, a, y, b) ==
  /\ f \in Frame /\ x \in Frame /\ y \in Frame /\ a \in Nat /\ b \in Nat
  /\ x.id = id /\ y.id = id /\ Follows(id, f, x, a, y, b)

LEMMA LoopTypes ==
  ASSUME TypeOK
  PROVE  cnt \in Nat /\ missed \in Nat /\ foreign \in Nat /\ row \in Nat /\ bIs \in BOOLEAN
  <1>1. /\ cnt \in Nat /\ foreign \in Nat /\ row \in Nat /\ bIs \in BOOLEAN
        /\ missed \in 0 .. MissedCap
    BY Zenon DEF TypeOK
  <1> QED
    BY <1>1

LEMMA ReadsIs ==
  ASSUME NEW f, NEW id, NEW takes, Reads(f, id, takes)
  PROVE  /\ f.id = id => foreign' = foreign
         /\ f.id # id => foreign' = foreign + 1 /\ row' = row /\ missed' = missed
         /\ missed' = missed \/ (missed' = missed + 1 /\ f.id = id /\ f.idx = row /\ row = Last[id] /\ ~takes)
  BY DEF Reads

LEMMA PosType ==
  ASSUME TypeOK
  PROVE  Pos \in Nat /\ (rpc = "get key" => Pos < ModeUnits /\ (bIs <=> Pos # 0))
  <1>1. cnt \in Nat /\ ModeUnits \in Nat /\ 0 < ModeUnits /\ 0 \in Nat
    BY LoopTypes, HandshakeAssumption DEF ModeUnits
  <1>2. rpc = "get key" => cnt < ModeUnits /\ (bIs => cnt > 1)
    BY Zenon DEF TypeOK
  <1>3. cnt > 1 => cnt # 0
    BY <1>1
  <1>4. CASE bIs
    <2>1. Pos = cnt
      BY <1>4, Zenon DEF Pos
    <2> QED
      BY <1>1, <1>2, <1>3, <1>4, <2>1, Zenon
  <1>5. CASE ~bIs
    <2>1. Pos = 0
      BY <1>5, Zenon DEF Pos
    <2> QED
      BY <1>1, <1>5, <2>1, Zenon
  <1> QED
    BY <1>4, <1>5, Zenon

LEMMA ModeUnitsIs == ModeUnits \in Nat /\ ModeUnits > 2 /\ ModeUnits = 2 * (ModeFrames - 1) + 2
  BY HandshakeAssumption DEF ModeUnits

\* How GetKey goes on behind a frame.
Outside(f) ==
  Pos = 0 /\ ~CheckIsMcMode(f) /\ Pos' = 0 /\ rpc' = "get key" /\ tMode' = tMode
TooLong(f) ==
  Pos # 0 /\ Pos + Dlc(f) > ModeUnits /\ Pos' = 0 /\ rpc' = "get key" /\ tMode' = tMode
Head0(f) ==
  Pos = 0 /\ CheckIsMcMode(f) /\ Pos' = 2 /\ rpc' = "get key" /\ tMode' = Copied(f) /\ Count(f) = 0
Inner(f) ==
  /\ Pos # 0 /\ Pos + Dlc(f) < ModeUnits /\ Pos' = Pos + Dlc(f) /\ rpc' = "get key"
  /\ tMode' = Copied(f) /\ Count(f) = Pos
NoTail(f) ==
  Pos # 0 /\ Pos + Dlc(f) = ModeUnits /\ ~TailBehind(f) /\ Pos' = 0 /\ rpc' = "get key"
Complete(f) ==
  /\ Pos # 0 /\ Pos + Dlc(f) = ModeUnits /\ TailBehind(f) /\ rpc' = "filter imu"
  /\ tMode' = Copied(f) /\ Count(f) = Pos

LEMMA KeyRule ==
  ASSUME TypeOK, NEW f \in Frame, GetKey(f)
  PROVE  /\ rpc = "get key"
         /\ Complete(f) => Reads(f, Mode, TRUE)
         /\ ~Complete(f) => Reads(f, Mode, FALSE)
         /\ Outside(f) \/ TooLong(f) \/ Head0(f) \/ Inner(f) \/ NoTail(f) \/ Complete(f)
  <1>0. rpc = "get key" /\ (bIs <=> Pos # 0)
    BY PosType, Zenon DEF GetKey, KeyOutside, KeyTooLong, KeyPart, KeyComplete
  <1>1. Pos \in Nat /\ ModeUnits \in Nat /\ ModeUnits > 2
    BY PosType, ModeUnitsIs, Zenon
  <1>2. /\ Dlc(f) \in {1, 2} /\ (CheckIsMcMode(f) => Dlc(f) = 2)
    BY DlcIs DEF CheckIsMcMode
  <1>3. CASE bIs
    <2>1. Inside(f, CheckIsMcMode(f)) /\ Count(f) = Pos /\ Pos # 0
      BY <1>0, <1>3, Zenon DEF Inside, Count, Pos
    <2>2. CASE KeyTooLong(f)
      <3>1. Pos' = 0
        BY <2>2, Zenon DEF KeyTooLong, Pos
      <3>2. TooLong(f) /\ ~Complete(f) /\ Reads(f, Mode, FALSE)
        BY <1>0, <1>1, <1>2, <2>1, <2>2, <3>1 DEF KeyTooLong, TooLong, Complete
      <3> QED
        BY <1>0, <3>2, Zenon
    <2>3. CASE KeyPart(f)
      <3>1. Pos' = Count(f) + Dlc(f)
        BY <2>3, Zenon DEF KeyPart, Pos
      <3>2. Inner(f) /\ ~Complete(f) /\ Reads(f, Mode, FALSE)
        BY <1>0, <1>1, <1>2, <2>1, <2>3, <3>1 DEF KeyPart, Inner, Complete
      <3> QED
        BY <1>0, <3>2, Zenon
    <2>4. CASE KeyComplete(f) /\ TailBehind(f)
      <3>1. Reads(f, Mode, TRUE)
        BY <2>4 DEF KeyComplete, Reads
      <3>2. Complete(f)
        BY <2>1, <2>4 DEF KeyComplete, Complete
      <3> QED
        BY <1>0, <3>1, <3>2, Zenon
    <2>5. CASE KeyComplete(f) /\ ~TailBehind(f)
      <3>1. Reads(f, Mode, FALSE)
        BY <2>5 DEF KeyComplete, Reads
      <3>2. Pos' = 0
        BY <2>5, Zenon DEF KeyComplete, Pos
      <3>3. NoTail(f) /\ ~Complete(f)
        BY <1>0, <2>1, <2>5, <3>2 DEF KeyComplete, NoTail, Complete
      <3> QED
        BY <1>0, <3>1, <3>3, Zenon
    <2> QED
      BY <2>1, <2>2, <2>3, <2>4, <2>5, Zenon DEF GetKey, KeyOutside
  <1>4. CASE ~bIs
    <2>0. Pos = 0
      BY <1>4, Zenon DEF Pos
    <2>1. CASE CheckIsMcMode(f)
      <3>1. Dlc(f) = 2
        BY <1>2, <2>1
      <3>2. Inside(f, CheckIsMcMode(f))
        BY <1>4, <2>1, <3>1, Zenon DEF Inside
      <3>3. Count(f) = 0
        BY <1>4, <3>1 DEF Count
      <3>4. ~ (Count(f) + Dlc(f) > ModeUnits) /\ Count(f) + Dlc(f) # ModeUnits /\ Count(f) + Dlc(f) = 2
        BY <1>1, <3>1, <3>3
      <3>5. KeyPart(f)
        BY <3>2, <3>4, Zenon DEF GetKey, KeyOutside, KeyTooLong, KeyComplete
      <3>6. Pos' = 2
        BY <3>4, <3>5, Zenon DEF KeyPart, Pos
      <3> QED
        BY <1>0, <2>0, <2>1, <3>3, <3>5, <3>6, Zenon DEF KeyPart, Head0, Complete
    <2>2. CASE ~CheckIsMcMode(f)
      <3>1. ~Inside(f, CheckIsMcMode(f))
        BY <1>4, <2>2, Zenon DEF Inside
      <3>2. KeyOutside(f)
        BY <3>1, Zenon DEF GetKey, KeyTooLong, KeyPart, KeyComplete
      <3>3. Pos' = 0
        BY <3>2, Zenon DEF KeyOutside, Pos
      <3> QED
        BY <1>0, <2>0, <2>2, <3>2, <3>3, Zenon DEF KeyOutside, Outside, Complete
    <2> QED
      BY <2>1, <2>2, Zenon
  <1> QED
    BY <1>3, <1>4, Zenon

LEMMA ReadIs ==
  ASSUME NEW id, NEW f, NEW x, NEW a, NEW y, NEW b, Read(id, f, x, a, y, b)
  PROVE  /\ f \in Frame /\ x \in Frame /\ y \in Frame /\ a \in Nat /\ b \in Nat
         /\ x.id = id /\ y.id = id
         /\ f.id = id => a <= b /\ Gap(id, b - a, x, f) /\ (a = b => f = x) /\ y = FrameAfter(f)
         /\ f.id # id => a = b /\ x = y
  <1>1. Follows(id, f, x, a, y, b) /\ a \in Nat /\ b \in Nat
    BY DEF Read
  <1>2. f.id = id => a <= b /\ Gap(id, b - a, x, f) /\ y = FrameAfter(f)
    BY <1>1 DEF Follows
  <1>3. f.id # id => a = b /\ x = y
    BY <1>1 DEF Follows
  <1>4. a = b => b - a = 0
    BY <1>1
  <1>5. f.id = id /\ a = b => Gap(id, 0, x, f)
    BY <1>2, <1>4
  <1>6. f.id = id /\ a = b => f = x
    BY <1>5 DEF Gap
  <1> QED
    BY <1>2, <1>3, <1>6 DEF Read

LEMMA PosNat ==
  ASSUME TypeOK
  PROVE  Pos \in Nat
  BY PosType, Zenon

LEMMA NextPosNat ==
  ASSUME TypeOK'
  PROVE  Pos' \in Nat
  <1>1. cnt' \in Nat /\ 0 \in Nat
    BY Zenon DEF TypeOK
  <1> QED
    BY <1>1, Zenon DEF Pos

\* How far GetKey is into a packet behind a frame that does not complete one.
LEMMA KeyPos ==
  ASSUME TypeOK, NEW f \in Frame, GetKey(f), ~Complete(f)
  PROVE  /\ Pos = 0 /\ ~CheckIsMcMode(f) => Pos' = 0
         /\ Pos = 0 /\ CheckIsMcMode(f) => Pos' = 2 /\ tMode' = Copied(f) /\ Count(f) = 0
         /\ Pos # 0 /\ Pos + Dlc(f) < ModeUnits =>
              Pos' = Pos + Dlc(f) /\ tMode' = Copied(f) /\ Count(f) = Pos
         /\ Pos # 0 /\ ~ (Pos + Dlc(f) < ModeUnits) => Pos' = 0
         /\ Pos # 0 /\ Pos + Dlc(f) = ModeUnits => ~TailBehind(f)
  <1>1. Pos \in Nat /\ Dlc(f) \in {1, 2} /\ ModeUnits \in Nat
    BY PosNat, DlcIs, ModeUnitsIs
  <1>2. \/ Pos = 0 /\ ~CheckIsMcMode(f) /\ Pos' = 0
        \/ Pos # 0 /\ Pos + Dlc(f) > ModeUnits /\ Pos' = 0
        \/ Pos = 0 /\ CheckIsMcMode(f) /\ Pos' = 2 /\ tMode' = Copied(f) /\ Count(f) = 0
        \/ Pos # 0 /\ Pos + Dlc(f) < ModeUnits /\ Pos' = Pos + Dlc(f) /\ tMode' = Copied(f) /\ Count(f) = Pos
        \/ Pos # 0 /\ Pos + Dlc(f) = ModeUnits /\ ~TailBehind(f) /\ Pos' = 0
    BY KeyRule, Zenon DEF Outside, TooLong, Head0, Inner, NoTail
  <1>3. /\ Pos + Dlc(f) > ModeUnits => ~ (Pos + Dlc(f) < ModeUnits) /\ Pos + Dlc(f) # ModeUnits
        /\ Pos + Dlc(f) = ModeUnits => ~ (Pos + Dlc(f) < ModeUnits)
    BY <1>1
  <1> QED
    BY <1>2, <1>3, Zenon

Foreign(id, f) == f.id # id

LEMMA ForeignPays ==
  \A m, b, g \in Nat, d, e \in {0, 1} : m + d <= b + g => m + e <= b + (g + 1)
  OBVIOUS

\* A frame of another id leaves the row, and pays for what it breaks.
LEMMA KeyDebtOther ==
  ASSUME TypeOK, NEW f, NEW x, NEW a, NEW y, NEW b, Read(Mode, f, x, a, y, b), Foreign(Mode, f),
         KeyLoop(x, a), GetKey(f), ~Complete(f)
  PROVE  /\ row' \in 0 .. ModeFrames - 1 /\ (row' # 0 => y.idx = row')
         /\ Pos' # 0 => Pos' >= 2 * row'
         /\ missed' + Debt' <= b + foreign'
  <1>1. f \in Frame /\ a = b /\ x = y /\ a \in Nat /\ b \in Nat
    BY ReadIs DEF Foreign
  <1>2. Reads(f, Mode, FALSE)
    BY <1>1, KeyRule, Zenon
  <1>3. row' = row /\ missed' = missed /\ foreign' = foreign + 1
    BY <1>2, ReadsIs DEF Foreign
  <1>4. Debt \in {0, 1} /\ Debt' \in {0, 1}
    BY Zenon DEF Debt
  <1>5. Dlc(f) \in {1, 2} /\ Pos \in Nat /\ missed \in Nat /\ foreign \in Nat
    BY <1>1, DlcIs, PosNat, LoopTypes
  <1>6. ~CheckIsMcMode(f)
    BY DEF CheckIsMcMode, Foreign
  <1>7. Pos' # 0 => Pos # 0 /\ Pos' = Pos + Dlc(f)
    BY <1>1, <1>6, KeyPos, Zenon
  <1>8. /\ row \in 0 .. ModeFrames - 1 /\ (row # 0 => x.idx = row) /\ (Pos # 0 => Pos >= 2 * row)
        /\ missed + Debt <= a + foreign
    BY DEF KeyLoop
  <1>9. Pos' # 0 => Pos' >= 2 * row'
    BY <1>3, <1>5, <1>7, <1>8
  <1>10. missed' + Debt' <= b + foreign'
    <2>1. missed + Debt' <= b + (foreign + 1)
      BY <1>1, <1>4, <1>5, <1>8, ForeignPays, Zenon
    <2> QED
      BY <1>3, <2>1, Zenon
  <1> QED
    BY <1>1, <1>3, <1>8, <1>9, <1>10

\* A frame of the key breaks the step only where a frame is missing, and a row
\* ends in step with the loop.
LEMMA KeyDebtOwn ==
  ASSUME TypeOK, NEW f, NEW x, NEW a, NEW y, NEW b, Read(Mode, f, x, a, y, b), f.id = Mode,
         KeyLoop(x, a), GetKey(f), ~Complete(f), Pos' \in Nat
  PROVE  /\ row' \in 0 .. ModeFrames - 1 /\ (row' # 0 => y.idx = row')
         /\ Pos' # 0 => Pos' >= 2 * row'
         /\ missed' + Debt' <= b + foreign'
  <1> DEFINE L == ModeFrames - 1
  <1>1. /\ f \in Frame /\ x \in Frame /\ a \in Nat /\ b \in Nat /\ a <= b /\ (a = b => f = x)
        /\ y = FrameAfter(f) /\ x.id = Mode
    BY ReadIs
  <1>2. L \in Nat \ {0} /\ Last[Mode] = L /\ ModeUnits = 2 * L + 2
    BY LastIs, HandshakeAssumption, ModeUnitsIs
  <1>3. f.idx \in 0 .. L /\ x.idx \in 0 .. L /\ Dlc(f) = 2
    BY <1>1, <1>2, FrameFields, DlcIs
  <1>4. Reads(f, Mode, FALSE)
    BY <1>1, KeyRule, Zenon
  <1>5. /\ row \in 0 .. L /\ (row # 0 => x.idx = row) /\ (Pos # 0 => Pos >= 2 * row)
        /\ missed + Debt <= a + foreign
    BY DEF KeyLoop
  <1>6. /\ row' \in 0 .. L /\ (row' # 0 => y.idx = row')
        /\ f.idx = row /\ row < L => row' = row + 1
        /\ f.idx = row /\ row = L => row' = 0
        /\ f.idx # row => row' = IF f.idx = 0 THEN 1 ELSE 0
    BY <1>1, <1>2, <1>4, <1>5, RowStep
  <1>6a. a = b => f.idx = x.idx
    BY <1>1
  <1>7. CheckIsMcMode(f) <=> f.idx = 0
    BY DEF CheckIsMcMode
  <1>8. /\ Pos = 0 /\ f.idx # 0 => Pos' = 0
        /\ Pos = 0 /\ f.idx = 0 => Pos' = 2
        /\ Pos # 0 /\ Pos + 2 < 2 * L + 2 => Pos' = Pos + 2
        /\ Pos # 0 /\ ~ (Pos + 2 < 2 * L + 2) => Pos' = 0
        /\ Pos # 0 /\ Pos + 2 = 2 * L + 2 => ~TailBehind(f)
    <2> HIDE DEF L
    <2> QED
      BY <1>1, <1>2, <1>3, <1>7, KeyPos
  <1>9. Pos \in Nat /\ missed \in Nat /\ foreign \in Nat
    BY PosNat, LoopTypes
  <1>10. /\ foreign' = foreign
         /\ missed' = missed \/ (missed' = missed + 1 /\ f.idx = row /\ row = L)
    BY <1>2, <1>4, ReadsIs
  <1> HIDE DEF L
  <1>11. /\ Pos' # 0 => Pos' >= 2 * row'
         /\ f.idx = row /\ row = L => Pos' = 2 * row'
         /\ Pos = 2 * row => Pos' = 2 * row' \/ a # b
    <2>1. CASE f.idx = row /\ row = L
      BY <1>2, <1>3, <1>5, <1>6, <1>8, <1>9, <2>1
    <2>2. CASE f.idx = row /\ row < L
      BY <1>2, <1>3, <1>5, <1>6, <1>8, <1>9, <2>2
    <2>3. CASE f.idx # row
      <3>1. row' = IF f.idx = 0 THEN 1 ELSE 0
        BY <1>6, <2>3
      <3>2. Pos = 2 * row /\ Pos # 0 => a # b
        BY <1>3, <1>5, <1>6a, <1>9, <2>3
      <3> QED
        BY <1>2, <1>3, <1>8, <1>9, <2>3, <3>1, <3>2
    <2> QED
      BY <1>2, <1>5, <2>1, <2>2, <2>3
  <1>12. ~ (f.idx = row /\ row = L /\ Pos = 2 * row)
    <2> SUFFICES ASSUME f.idx = L, Pos = 2 * L PROVE FALSE
      OBVIOUS
    <2>1. TailBehind(f)
      BY <1>2 DEF TailBehind
    <2>2. Pos # 0 /\ Pos + 2 = 2 * L + 2
      BY <1>2
    <2> QED
      BY <1>8, <2>1, <2>2
  <1>13. /\ Debt \in {0, 1} /\ Debt' \in {0, 1}
         /\ (Debt = 0 <=> Pos = 2 * row) /\ (Debt' = 0 <=> Pos' = 2 * row')
    BY DEF Debt
  <1>14. missed' + Debt' <= b + foreign'
    BY <1>1, <1>5, <1>9, <1>10, <1>11, <1>12, <1>13
  <1> QED
    BY <1>6, <1>11, <1>14 DEF L
----------------------------------------------------------------------------
(* What GetKey holds.                                                      *)

\* The place of the frame that is read, and of the one behind it, in a packet
\* of m frames.
LEMMA PlaceOf ==
  \A m \in Nat, k, d, e \in Nat, i, j \in Nat :
    /\ k < m /\ d + e < m /\ j < m
    /\ i = k + d \/ i = k + d - m
    /\ j = i + e \/ j = i + e - m
    => j = k + (d + e) \/ j = k + (d + e) - m
  OBVIOUS

LEMMA PlaceAfter ==
  \A m \in Nat, k, d \in Nat, i, j \in Nat :
    /\ k + 1 < m /\ d < m
    /\ i = k + d \/ i = k + d - m
    /\ i < m - 1 => j = i + 1
    /\ i = m - 1 => j = 0
    /\ i <= m - 1
    => j = (k + 1) + d \/ j = (k + 1) + d - m
  OBVIOUS

LEMMA ModeIdx ==
  ASSUME NEW f \in Frame, f.id = Mode
  PROVE  /\ f.idx \in Nat /\ f.idx <= ModeFrames - 1 /\ f.idx < ModeFrames
         /\ FrameAfter(f).idx \in Nat
         /\ f.idx < ModeFrames - 1 => FrameAfter(f).idx = f.idx + 1 /\ FrameAfter(f).pkt = f.pkt
         /\ f.idx = ModeFrames - 1 => FrameAfter(f).idx = 0
  <1>1. f.idx \in 0 .. Last[Mode] /\ Last[Mode] = ModeFrames - 1 /\ ModeFrames \in Nat
    BY FrameFields, LastIs, HandshakeAssumption
  <1>2. FrameAfter(f) \in Frame /\ FrameAfter(f).id = Mode
    BY FrameAfterIs
  <1>3. FrameAfter(f).idx \in 0 .. Last[Mode]
    BY <1>2, FrameFields
  <1>4. /\ f.idx < Last[Mode] => FrameAfter(f).idx = f.idx + 1 /\ FrameAfter(f).pkt = f.pkt
        /\ f.idx = Last[Mode] => FrameAfter(f).idx = 0
    BY FrameAfterIs
  <1>5. f.idx \in Nat /\ f.idx <= ModeFrames - 1 /\ f.idx < ModeFrames /\ FrameAfter(f).idx \in Nat
    BY <1>1, <1>3
  <1> QED
    BY <1>1, <1>4, <1>5, Zenon

\* A frame that follows on the frames copied so far.
LEMMA CopyStep ==
  ASSUME NEW f \in Frame, f.id = Mode, NEW k \in Nat, f.idx = k, Count(f) = 2 * k,
         CopiedOf(f.pkt, k), tMode' = Copied(f), 2 * k + 2 <= ModeUnits
  PROVE  CopiedOf(f.pkt, k + 1)'
  <1>1. ASSUME NEW i \in 0 .. 2 * (k + 1) - 1
        PROVE  tMode'[i] = KeyUnit(f.pkt, i)
    <2>1. i \in 0 .. ModeUnits - 1 /\ Dlc(f) = 2
      BY ModeUnitsIs, DlcIs
    <2>2. tMode'[i] = IF i - 2 * k \in 0 .. 1 THEN UnitsOf(f)[i - 2 * k] ELSE tMode[i]
      BY <2>1 DEF Copied
    <2>3. CASE i - 2 * k \in 0 .. 1
      <3>1. UnitsOf(f)[i - 2 * k] = << f, i - 2 * k >>
        BY <2>1, <2>3 DEF UnitsOf
      <3>2. i \div 2 = k /\ i % 2 = i - 2 * k
        <4>1. i = 2 * k \/ i = 2 * k + 1
          BY <2>3
        <4> QED
          BY <4>1
      <3>3. f = [id |-> Mode, pkt |-> f.pkt, idx |-> i \div 2]
        BY <3>2, FrameFields
      <3>4. KeyUnit(f.pkt, i) = << f, i - 2 * k >>
        BY <3>2, <3>3, Zenon DEF KeyUnit
      <3> QED
        BY <2>2, <2>3, <3>1, <3>4
    <2>4. CASE i - 2 * k \notin 0 .. 1
      <3>1. i \in 0 .. 2 * k - 1
        BY <2>4
      <3> QED
        BY <2>2, <2>4, <3>1 DEF CopiedOf
    <2> QED
      BY <2>3, <2>4
  <1> QED
    BY <1>1 DEF CopiedOf

\* A frame of the key inside a packet.
LEMMA HoldsOwn ==
  ASSUME TypeOK, NEW f, NEW x, NEW a, NEW y, NEW b, Read(Mode, f, x, a, y, b), f.id = Mode,
         GetKey(f), NEW k, NEW u, NEW d, Holds(x, a, k, u, d),
         Pos + 2 < ModeUnits, Pos' = Pos + 2, tMode' = Copied(f), Count(f) = Pos,
         foreign' = foreign
  PROVE  Holds(y, b, k + 1, u, d + (b - a))'
  <1> DEFINE e == b - a
  <1>1. /\ f \in Frame /\ x \in Frame /\ a \in Nat /\ b \in Nat /\ a <= b /\ (a = b => f = x)
        /\ y = FrameAfter(f) /\ x.id = Mode /\ Gap(Mode, e, x, f)
    BY ReadIs
  <1>2. ModeUnits = 2 * (ModeFrames - 1) + 2 /\ ModeFrames \in Nat
    BY HandshakeAssumption, ModeUnitsIs
  <1>3. k \in Nat \ {0} /\ u \in Nat /\ d \in Nat /\ d <= a /\ Pos = 2 * k + u /\ k + 1 < ModeFrames
    BY <1>1, <1>2 DEF Holds
  <1>4. e \in Nat /\ d + e \in Nat /\ d + e <= b
    BY <1>1, <1>3
  <1>5. /\ f.idx \in Nat /\ f.idx <= ModeFrames - 1 /\ f.idx < ModeFrames /\ y.idx \in Nat
        /\ f.idx < ModeFrames - 1 => y.idx = f.idx + 1 /\ y.pkt = f.pkt
        /\ f.idx = ModeFrames - 1 => y.idx = 0
        /\ x.idx \in Nat /\ x.idx < ModeFrames
    BY <1>1, ModeIdx
  <1> HIDE DEF e
  <1>6. ASSUME d + e < ModeFrames
        PROVE  f.idx = k + (d + e) \/ f.idx = k + (d + e) - ModeFrames
    <2>1. d < ModeFrames /\ e < ModeFrames /\ k < ModeFrames
      BY <1>2, <1>3, <1>4, <1>6
    <2>2. x.idx = k + d \/ x.idx = k + d - ModeFrames
      BY <2>1 DEF Holds
    <2>3. f.idx = x.idx + e \/ f.idx = x.idx + e - ModeFrames
      BY <1>1, <2>1 DEF Gap
    <2> QED
      BY <1>2, <1>3, <1>4, <1>5, <1>6, <2>1, <2>2, <2>3, PlaceOf, Zenon
  <1>7. d + e < ModeFrames => y.idx = (k + 1) + (d + e) \/ y.idx = (k + 1) + (d + e) - ModeFrames
    <2> SUFFICES ASSUME d + e < ModeFrames
                 PROVE  y.idx = (k + 1) + (d + e) \/ y.idx = (k + 1) + (d + e) - ModeFrames
      OBVIOUS
    <2>1. k \in Nat
      BY <1>3
    <2> QED
      BY <1>2, <1>3, <1>4, <1>5, <1>6, <2>1, PlaceAfter, Zenon
  <1>8. d + e = 0 /\ u = 0 => CopiedOf(y.pkt, k + 1)'
    <2> SUFFICES ASSUME d + e = 0, u = 0 PROVE CopiedOf(y.pkt, k + 1)'
      OBVIOUS
    <2>1. d = 0 /\ e = 0 /\ a = b /\ Pos = 2 * k
      BY <1>1, <1>3, <1>4 DEF e
    <2>2. f = x
      BY <1>1, <2>1
    <2>3. CopiedOf(f.pkt, k)
      BY <2>1, <2>2 DEF Holds
    <2>4. f.idx = k
      BY <1>2, <1>3, <1>4, <1>5, <1>6, <2>1
    <2>5. y.pkt = f.pkt
      BY <1>2, <1>3, <1>5, <2>4
    <2>6. k \in Nat /\ 2 * k + 2 <= ModeUnits /\ Count(f) = 2 * k
      BY <1>2, <1>3, <2>1
    <2>7. CopiedOf(f.pkt, k + 1)'
      BY <1>1, <2>3, <2>4, <2>6, CopyStep
    <2> QED
      BY <2>5, <2>7
  <1>9. k + 1 \in Nat \ {0} /\ d + e \in 0 .. b /\ Pos' = 2 * (k + 1) + u
    BY <1>1, <1>3, <1>4
  <1>10. foreign' = 0 => u = 0
    BY DEF Holds
  <1>11. Holds(y, b, k + 1, u, d + e)'
    BY <1>3, <1>7, <1>8, <1>9, <1>10, Zenon DEF Holds
  <1> QED
    BY <1>11 DEF e

\* A head outside of a packet.
LEMMA HoldsHead ==
  ASSUME TypeOK, NEW f, NEW x, NEW a, NEW y, NEW b, Read(Mode, f, x, a, y, b), CheckIsMcMode(f),
         Pos' = 2, tMode' = Copied(f), Count(f) = 0
  PROVE  Holds(y, b, 1, 0, 0)'
  <1>1. f \in Frame /\ f.id = Mode /\ f.idx = 0 /\ y = FrameAfter(f) /\ b \in Nat
    BY ReadIs DEF CheckIsMcMode
  <1>2. y.idx = 1 /\ y.pkt = f.pkt
    BY <1>1, ModeIdx, HandshakeAssumption
  <1>3. CopiedOf(f.pkt, 0)
    BY DEF CopiedOf
  <1>4. 2 * 0 + 2 <= ModeUnits /\ Count(f) = 2 * 0
    BY ModeUnitsIs
  <1>5. CopiedOf(f.pkt, 0 + 1)'
    BY <1>1, <1>3, <1>4, CopyStep
  <1>6. CopiedOf(y.pkt, 1)'
    BY <1>2, <1>5
  <1> QED
    BY <1>1, <1>2, <1>6 DEF Holds

\* A frame of the other id inside a packet.
LEMMA HoldsOther ==
  ASSUME TypeOK, NEW f \in Frame, NEW x, NEW a, NEW k, NEW u, NEW d, Holds(x, a, k, u, d),
         Pos' = Pos + Dlc(f), foreign' = foreign + 1
  PROVE  Holds(x, a, k, u + Dlc(f), d)'
  <1>1. Dlc(f) \in {1, 2} /\ foreign \in Nat
    BY DlcIs, LoopTypes
  <1>2. k \in Nat \ {0} /\ u \in Nat /\ d \in 0 .. a /\ Pos = 2 * k + u
    BY DEF Holds
  <1>3. /\ u + Dlc(f) \in Nat /\ u + Dlc(f) # 0
        /\ Pos' = 2 * k + (u + Dlc(f)) /\ foreign' # 0
    BY <1>1, <1>2
  <1>4. d < ModeFrames => x.idx = k + d \/ x.idx = k + d - ModeFrames
    BY DEF Holds
  <1> QED
    BY <1>2, <1>3, <1>4, Zenon DEF Holds

LEMMA KeyStep ==
  ASSUME TypeOK, NEW f, NEW x, NEW a, NEW y, NEW b, Read(Mode, f, x, a, y, b),
         KeyLoop(x, a), GetKey(f), ~Complete(f), Pos' \in Nat
  PROVE  KeyLoop(y, b)'
  <1>1. f \in Frame /\ (f.id # Mode => a = b /\ x = y)
    BY ReadIs
  <1>2. Reads(f, Mode, FALSE)
    BY <1>1, KeyRule, Zenon
  <1>3. /\ row' \in 0 .. ModeFrames - 1 /\ (row' # 0 => y.idx = row')
        /\ Pos' # 0 => Pos' >= 2 * row'
        /\ missed' + Debt' <= b + foreign'
    BY KeyDebtOwn, KeyDebtOther, Zenon DEF Foreign
  <1>4. ASSUME Pos' # 0 PROVE \E k, u, d : Holds(y, b, k, u, d)'
    <2>1. CASE Pos = 0
      <3>1. CheckIsMcMode(f) /\ Pos' = 2 /\ tMode' = Copied(f) /\ Count(f) = 0
        BY <1>1, <1>4, <2>1, KeyPos, Zenon
      <3>2. Holds(y, b, 1, 0, 0)'
        BY <3>1, HoldsHead, Zenon
      <3> QED
        BY <3>2, Zenon
    <2>2. CASE Pos # 0
      <3>1. PICK k, u, d : Holds(x, a, k, u, d)
        BY <2>2, Zenon DEF KeyLoop
      <3>2. /\ Pos + Dlc(f) < ModeUnits /\ Pos' = Pos + Dlc(f)
            /\ tMode' = Copied(f) /\ Count(f) = Pos
        BY <1>1, <1>4, <2>2, KeyPos, Zenon
      <3>3. CASE f.id = Mode
        <4>1. Dlc(f) = 2
          BY <1>1, <3>3, DlcIs
        <4>2. foreign' = foreign
          BY <1>2, <3>3, ReadsIs
        <4>3. Holds(y, b, k + 1, u, d + (b - a))'
          BY <1>1, <3>1, <3>2, <3>3, <4>1, <4>2, HoldsOwn, Zenon
        <4> QED
          BY <4>3, Zenon
      <3>4. CASE f.id # Mode
        <4>1. foreign' = foreign + 1
          BY <1>2, <3>4, ReadsIs
        <4>2. Holds(x, a, k, u + Dlc(f), d)'
          BY <1>1, <3>1, <3>2, <4>1, HoldsOther, Zenon
        <4> QED
          BY <1>1, <3>4, <4>2, Zenon
      <3> QED
        BY <3>3, <3>4
    <2> QED
      BY <2>1, <2>2
  <1> QED
    BY <1>3, <1>4, Zenon DEF KeyLoop

\* The packet GetKey takes.
KeyIsWhole == \E p \in Pkt :
  tMode = [i \in 0 .. ModeUnits - 1 |-> << [id |-> Mode, pkt |-> p, idx |-> i \div 2], i % 2 >>]

LEMMA KeyTaken ==
  ASSUME TypeOK, NEW f, NEW x, NEW a, NEW y, NEW b, Read(Mode, f, x, a, y, b),
         KeyLoop(x, a), Complete(f), NEW l \in Nat, b <= l,
         l = 0 \/ (foreign = 0 /\ l < ModeFrames)
  PROVE  KeyIsWhole'
  <1> DEFINE e == b - a
  <1>1. /\ Pos # 0 /\ Pos + Dlc(f) = ModeUnits /\ TailBehind(f) /\ tMode' = Copied(f) /\ Count(f) = Pos
    BY Zenon DEF Complete
  <1>2. f.id = Mode /\ f.idx = Last[Mode]
    BY <1>1 DEF TailBehind
  <1>3. /\ f \in Frame /\ x \in Frame /\ a \in Nat /\ b \in Nat /\ a <= b /\ (a = b => f = x)
        /\ x.id = Mode /\ Gap(Mode, e, x, f)
    BY <1>2, ReadIs
  <1>4. f.idx = ModeFrames - 1 /\ ModeUnits = 2 * (ModeFrames - 1) + 2 /\ ModeFrames \in Nat \ {0, 1}
    BY <1>2, LastIs, HandshakeAssumption, ModeUnitsIs
  <1>5. Dlc(f) = 2
    BY <1>2, <1>3, DlcIs
  <1>6. PICK k, u, d : Holds(x, a, k, u, d)
    BY <1>1, Zenon DEF KeyLoop
  <1>7. /\ k \in Nat \ {0} /\ u \in Nat /\ d \in Nat /\ d <= a /\ Pos = 2 * k + u
        /\ foreign = 0 => u = 0
        /\ d < ModeFrames => x.idx = k + d \/ x.idx = k + d - ModeFrames
        /\ d = 0 /\ u = 0 => CopiedOf(x.pkt, k)
    BY <1>3, <1>6 DEF Holds
  <1>8. /\ k \in Nat /\ 2 * k + u = 2 * (ModeFrames - 1)
    BY <1>1, <1>4, <1>5, <1>7
  <1>9. e \in Nat /\ d + e \in Nat /\ d + e <= l /\ l < ModeFrames /\ k < ModeFrames
    BY <1>3, <1>4, <1>7, <1>8
  <1>10. f.idx \in Nat /\ f.idx < ModeFrames /\ x.idx \in Nat
    BY <1>2, <1>3, ModeIdx
  <1> HIDE DEF e
  <1>11. f.idx = k + (d + e) \/ f.idx = k + (d + e) - ModeFrames
    <2>1. d < ModeFrames /\ e < ModeFrames /\ d + e < ModeFrames
      BY <1>4, <1>7, <1>9
    <2>2. x.idx = k + d \/ x.idx = k + d - ModeFrames
      BY <1>7, <2>1
    <2>3. f.idx = x.idx + e \/ f.idx = x.idx + e - ModeFrames
      BY <1>3, <2>1 DEF Gap
    <2>4. ModeFrames \in Nat
      BY <1>4
    <2> QED
      BY <1>7, <1>8, <1>9, <1>10, <2>1, <2>2, <2>3, <2>4, PlaceOf, Zenon
  <1>12. d + e = 0 /\ u = 0 /\ k = ModeFrames - 1
    <2>1. CASE l = 0
      BY <1>4, <1>7, <1>8, <1>9, <1>11, <2>1
    <2>2. CASE l # 0
      <3>1. u = 0
        BY <1>7, <2>2
      <3> QED
        BY <1>4, <1>8, <1>9, <1>11, <3>1
    <2> QED
      BY <2>1, <2>2
  <1>13. d = 0 /\ a = b
    BY <1>3, <1>7, <1>9, <1>12 DEF e
  <1>14. CopiedOf(f.pkt, k) /\ f.idx = k /\ Count(f) = 2 * k /\ 2 * k + 2 <= ModeUnits
    BY <1>1, <1>3, <1>4, <1>7, <1>8, <1>12, <1>13
  <1>15. CopiedOf(f.pkt, k + 1)'
    BY <1>1, <1>2, <1>3, <1>8, <1>14, CopyStep
  <1>16. 2 * (k + 1) = ModeUnits
    BY <1>4, <1>12
  <1>17. tMode' = [i \in 0 .. ModeUnits - 1 |-> KeyUnit(f.pkt, i)]
    <2>1. \A i \in 0 .. ModeUnits - 1 : tMode'[i] = KeyUnit(f.pkt, i)
      BY <1>15, <1>16 DEF CopiedOf
    <2>2. tMode' = [i \in 0 .. ModeUnits - 1 |-> tMode'[i]]
      BY <1>1 DEF Copied
    <2> QED
      BY <2>1, <2>2
  <1>18. f.pkt \in Pkt
    BY <1>3, FrameFields
  <1> QED
    BY <1>17, <1>18, Zenon DEF KeyIsWhole, KeyUnit
----------------------------------------------------------------------------
(* WaitImuReady.                                                           *)

Ready(f) == rpc' = "receive"

LEMMA PosOf ==
  ASSUME TypeOK, PosTells
  PROVE  Pos \in Nat /\ (bIs <=> Pos # 0)
  <1>1. cnt \in Nat /\ (cnt > 1 => cnt # 0) /\ 0 \in Nat
    BY LoopTypes
  <1>2. CASE bIs
    BY <1>1, <1>2, Zenon DEF Pos, PosTells
  <1>3. CASE ~bIs
    BY <1>1, <1>3, Zenon DEF Pos
  <1> QED
    BY <1>2, <1>3, Zenon

\* How far the wait is into a packet behind a frame that does not end it.
LEMMA ReadyRule ==
  ASSUME TypeOK, PosTells, NEW f \in Frame, ReadyFrame(f), ~Ready(f)
  PROVE  /\ Reads(f, Imu, FALSE) /\ PosTells'
         /\ Pos = 0 /\ ~CheckIsAtti(f) => Pos' = 0
         /\ Pos = 0 /\ CheckIsAtti(f) => Pos' = 2
         /\ Pos # 0 /\ ~CheckIsTail(f) => Pos' = Pos + Dlc(f)
         /\ Pos # 0 /\ CheckIsTail(f) => Pos' = 0 /\ Pos + Dlc(f) # ImuUnits
  <1> DEFINE inside == Inside(f, CheckIsAtti(f))
             n      == Count(f) + (IF inside THEN Dlc(f) ELSE 0)
             tail   == inside /\ CheckIsTail(f)
  <1>1. /\ Reads(f, Imu, tail /\ n = ImuUnits)
        /\ tail /\ n = ImuUnits => rpc' = "receive"
        /\ bIs' = (inside /\ (tail => n = ImuUnits))
        /\ cnt' = IF tail /\ n # ImuUnits THEN 0 ELSE n
    BY Zenon DEF ReadyFrame
  <1>2. ~ (tail /\ n = ImuUnits)
    BY <1>1, Zenon DEF Ready
  <1>3. Reads(f, Imu, FALSE)
    BY <1>1, <1>2, Zenon DEF Reads
  <1>4. /\ bIs' <=> inside /\ ~CheckIsTail(f)
        /\ inside /\ ~CheckIsTail(f) => cnt' = Count(f) + Dlc(f)
        /\ inside /\ CheckIsTail(f) => Count(f) + Dlc(f) # ImuUnits
    BY <1>1, <1>2, Zenon
  <1>5. /\ inside /\ ~CheckIsTail(f) => Pos' = Count(f) + Dlc(f)
        /\ ~ (inside /\ ~CheckIsTail(f)) => Pos' = 0
    BY <1>4, Zenon DEF Pos
  <1>6. /\ CheckIsAtti(f) => Dlc(f) = 2 /\ ~CheckIsTail(f)
        /\ Dlc(f) \in {1, 2} /\ (Dlc(f) # 2 => Dlc(f) = 1)
    BY DlcIs, LastIs, HandshakeAssumption DEF Dlc, CheckIsAtti, CheckIsTail
  <1> HIDE DEF n, tail
  <1>7. CASE bIs
    <2>1. inside /\ Count(f) = cnt /\ Pos = cnt /\ Pos # 0
      BY <1>7, PosOf, Zenon DEF Inside, Count, Pos
    <2>2. cnt \in Nat /\ cnt > 1
      BY <1>7, LoopTypes DEF PosTells
    <2>3. cnt + Dlc(f) > 1
      BY <1>6, <2>2
    <2>4. PosTells'
      BY <1>4, <2>1, <2>3, Zenon DEF PosTells
    <2> QED
      BY <1>3, <1>4, <1>5, <2>1, <2>4, Zenon
  <1>8. CASE ~bIs
    <2>1. Pos = 0
      BY <1>8, Zenon DEF Pos
    <2>2. CASE CheckIsAtti(f)
      <3>1. inside /\ Count(f) = 0 /\ Dlc(f) = 2
        BY <1>6, <1>8, <2>2, Zenon DEF Inside, Count
      <3>2. Count(f) + Dlc(f) = 2 /\ 2 > 1
        BY <3>1
      <3>3. PosTells'
        BY <1>4, <1>6, <2>2, <3>1, <3>2, Zenon DEF PosTells
      <3> QED
        BY <1>3, <1>5, <1>6, <2>1, <2>2, <3>1, <3>2, <3>3, Zenon
    <2>3. CASE ~CheckIsAtti(f)
      <3>1. ~inside
        BY <1>8, <2>3, Zenon DEF Inside
      <3>2. PosTells'
        BY <1>4, <3>1, Zenon DEF PosTells
      <3> QED
        BY <1>3, <1>5, <2>1, <2>3, <3>1, <3>2, Zenon
    <2> QED
      BY <2>2, <2>3, Zenon
  <1> QED
    BY <1>7, <1>8, Zenon

LEMMA ReadyStep ==
  ASSUME TypeOK, NEW f, NEW x, NEW a, NEW y, NEW b, Read(Imu, f, x, a, y, b),
         ReadyLoop(x, a), ReadyFrame(f), ~Ready(f), Pos' \in Nat
  PROVE  ReadyLoop(y, b)'
  <1> DEFINE L == ImuFrames + 1
  <1>1. /\ f \in Frame /\ x \in Frame /\ a \in Nat /\ b \in Nat /\ x.id = Imu
        /\ f.id = Imu => a <= b /\ (a = b => f = x) /\ y = FrameAfter(f)
        /\ f.id # Imu => a = b /\ x = y
    BY ReadIs
  <1>2. L \in Nat \ {0} /\ Last[Imu] = L /\ ImuUnits = 2 * L + 1
    BY LastIs, HandshakeAssumption DEF ImuUnits
  <1>3. /\ PosTells /\ row \in 0 .. L /\ (row # 0 => x.idx = row) /\ missed + Debt <= a + foreign
    BY DEF ReadyLoop
  <1>4. Pos \in Nat /\ missed \in Nat /\ foreign \in Nat
    BY PosNat, LoopTypes
  <1>5. Reads(f, Imu, FALSE) /\ PosTells'
    BY <1>1, <1>3, ReadyRule, Zenon
  <1>6. Debt \in {0, 1} /\ Debt' \in {0, 1}
    BY Zenon DEF Debt
  <1>7. CASE f.id # Imu
    <2>1. row' = row /\ missed' = missed /\ foreign' = foreign + 1
      BY <1>5, <1>7, ReadsIs
    <2>2. missed + Debt' <= b + (foreign + 1)
      BY <1>1, <1>3, <1>4, <1>6, <1>7, ForeignPays, Zenon
    <2>3. /\ row' \in 0 .. ImuFrames + 1 /\ (row' # 0 => y.idx = row')
          /\ missed' + Debt' <= b + foreign'
      BY <1>1, <1>3, <1>7, <2>1, <2>2, Zenon
    <2> QED
      BY <1>5, <2>3, Zenon DEF ReadyLoop
  <1>8. CASE f.id = Imu
    <2>1. f.idx \in 0 .. L /\ x.idx \in 0 .. L
      BY <1>1, <1>2, <1>8, FrameFields
    <2>2. /\ row' \in 0 .. L /\ (row' # 0 => y.idx = row')
          /\ f.idx = row /\ row < L => row' = row + 1
          /\ f.idx = row /\ row = L => row' = 0
          /\ f.idx # row => row' = IF f.idx = 0 THEN 1 ELSE 0
      BY <1>1, <1>2, <1>3, <1>5, <1>8, RowStep
    <2>3. /\ CheckIsAtti(f) <=> f.idx = 0
          /\ CheckIsTail(f) <=> f.idx = L
          /\ Dlc(f) = IF f.idx = L THEN 1 ELSE 2
      BY <1>2, <1>8 DEF CheckIsAtti, CheckIsTail, Dlc
    <2>4. /\ Pos = 0 /\ f.idx # 0 => Pos' = 0
          /\ Pos = 0 /\ f.idx = 0 => Pos' = 2
          /\ Pos # 0 /\ f.idx # L => Pos' = Pos + 2
          /\ Pos # 0 /\ f.idx = L => Pos' = 0 /\ Pos + 1 # ImuUnits
      <3> HIDE DEF L
      <3> QED
        BY <1>1, <1>3, <2>3, ReadyRule, Zenon
    <2>5. /\ foreign' = foreign
          /\ missed' = missed \/ (missed' = missed + 1 /\ f.idx = row /\ row = L)
      BY <1>2, <1>5, <1>8, ReadsIs
    <2>6. a <= b /\ (a = b => f.idx = x.idx)
      BY <1>1, <1>8
    <2> HIDE DEF L
    <2>7. /\ f.idx = row /\ row = L => Pos' = 2 * row'
          /\ Pos = 2 * row => Pos' = 2 * row' \/ a # b
      <3>1. CASE f.idx = row /\ row = L
        BY <1>2, <1>4, <2>1, <2>2, <2>4, <3>1
      <3>2. CASE f.idx = row /\ row < L
        BY <1>2, <1>4, <2>1, <2>2, <2>4, <3>2
      <3>3. CASE f.idx # row
        <4>1. row' = IF f.idx = 0 THEN 1 ELSE 0
          BY <2>2, <3>3
        <4>2. Pos = 2 * row /\ Pos # 0 => a # b
          BY <1>3, <1>4, <2>1, <2>6, <3>3
        <4> QED
          BY <1>2, <1>4, <2>1, <2>4, <3>3, <4>1, <4>2
      <3> QED
        BY <1>2, <1>3, <3>1, <3>2, <3>3
    <2>8. ~ (f.idx = row /\ row = L /\ Pos = 2 * row)
      <3> SUFFICES ASSUME f.idx = L, Pos = 2 * L PROVE FALSE
        OBVIOUS
      <3>1. Pos # 0 /\ Pos + 1 = ImuUnits
        BY <1>2
      <3> QED
        BY <2>4, <3>1
    <2>9. /\ Debt \in {0, 1} /\ Debt' \in {0, 1}
          /\ (Debt = 0 <=> Pos = 2 * row) /\ (Debt' = 0 <=> Pos' = 2 * row')
      BY DEF Debt
    <2>10. missed' + Debt' <= b + foreign'
      BY <1>1, <1>3, <1>4, <2>5, <2>6, <2>7, <2>8, <2>9
    <2> QED
      BY <1>5, <2>2, <2>10, Zenon DEF ReadyLoop, L
  <1> QED
    BY <1>7, <1>8
----------------------------------------------------------------------------
(* Type correctness, in parts: where the receiver is, the bus, the loops.  *)

AtGetKey == rpc = "get key"

PhaseType ==
  /\ rpc \in {"init", "bind", "filter key", "get key", "filter imu", "wait ready", "receive", "done"}
  /\ filter \subseteq {Mode, Imu}

BusType ==
  /\ queue \in Seq(Frame) /\ Len(queue) <= MaxQueue
  /\ sending \in [{Mode, Imu} -> Frame] /\ \A id \in {Mode, Imu} : sending[id].id = id
  /\ lost \in [{Mode, Imu} -> 0 .. MaxLost]

LoopType ==
  /\ bIs \in BOOLEAN /\ failed \in BOOLEAN
  /\ cnt \in Nat /\ foreign \in Nat /\ row \in Nat /\ missed \in 0 .. MissedCap
  /\ tMode \in [0 .. ModeUnits - 1 -> Unit \cup {NoUnit}]

KeyType == AtGetKey => cnt < ModeUnits /\ PosTells

LEMMA TypeParts ==
  /\ TypeOK  <=> PhaseType /\ BusType /\ LoopType /\ KeyType
  /\ TypeOK' <=> PhaseType' /\ BusType' /\ LoopType' /\ KeyType'
  BY Zenon DEF TypeOK, PhaseType, BusType, LoopType, KeyType, AtGetKey, PosTells

LEMMA TypeInit ==
  ASSUME Init
  PROVE  TypeOK
  <1>1. PhaseType
    BY Zenon DEF Init, PhaseType
  <1>2. BusType
    <2>1. queue \in Seq(Frame) /\ Len(queue) <= MaxQueue
      BY HandshakeAssumption DEF Init
    <2>2. sending \in [{Mode, Imu} -> Frame] /\ \A id \in {Mode, Imu} : sending[id].id = id
      BY DEF Init
    <2>3. lost \in [{Mode, Imu} -> 0 .. MaxLost]
      BY HandshakeAssumption DEF Init
    <2> QED
      BY <2>1, <2>2, <2>3, Zenon DEF BusType
  <1>3. LoopType
    <2>1. 0 \in Nat /\ 0 \in 0 .. MissedCap
      BY HandshakeAssumption DEF MissedCap
    <2>2. tMode \in [0 .. ModeUnits - 1 -> Unit \cup {NoUnit}]
      BY FreshType, Zenon DEF Init, Fresh
    <2> QED
      BY <2>1, <2>2, Zenon DEF Init, LoopType
  <1>4. KeyType
    <2>1. "init" # "get key"
      OBVIOUS
    <2> QED
      BY <2>1, Zenon DEF Init, KeyType, AtGetKey
  <1> QED
    BY <1>1, <1>2, <1>3, <1>4, TypeParts

\* The bus sends a frame or loses one.
LEMMA BusStep ==
  ASSUME TypeOK, NEW id \in {Mode, Imu}, Send(id) \/ Lose(id)
  PROVE  TypeOK'
  <1>0. /\ rpc' = rpc /\ filter' = filter
        /\ bIs' = bIs /\ cnt' = cnt /\ tMode' = tMode /\ failed' = failed /\ foreign' = foreign
        /\ row' = row /\ missed' = missed
        /\ sending' = [sending EXCEPT ![id] = FrameAfter(@)]
    BY Zenon DEF Send, Lose, loopvars
  <1>1. PhaseType' /\ LoopType' /\ KeyType'
    BY <1>0, TypeParts, Zenon DEF PhaseType, LoopType, KeyType, AtGetKey, PosTells
  <1>2. sending[id] \in Frame /\ sending[id].id = id
    BY TypeParts, Zenon DEF BusType
  <1>3. FrameAfter(sending[id]) \in Frame /\ FrameAfter(sending[id]).id = id
    BY <1>2, FrameAfterIs
  <1>4. sending' \in [{Mode, Imu} -> Frame] /\ \A i \in {Mode, Imu} : sending'[i].id = i
    BY <1>0, <1>3, TypeParts DEF BusType
  <1>5. lost' \in [{Mode, Imu} -> 0 .. MaxLost]
    <2>1. CASE Send(id)
      BY <2>1, TypeParts, Zenon DEF Send, BusType
    <2>2. CASE Lose(id)
      <3>1. lost' = [lost EXCEPT ![id] = @ + 1] /\ lost[Mode] + lost[Imu] < MaxLost
        BY <2>2, Zenon DEF Lose
      <3>2. lost \in [{Mode, Imu} -> 0 .. MaxLost]
        BY TypeParts, Zenon DEF BusType
      <3>3. lost[Mode] \in Nat /\ lost[Imu] \in Nat
        BY <3>2
      <3>4. lost[id] + 1 \in 0 .. MaxLost
        BY <3>1, <3>3, HandshakeAssumption
      <3> QED
        BY <3>1, <3>2, <3>4
    <2> QED
      BY <2>1, <2>2
  <1>6. queue' \in Seq(Frame) /\ Len(queue') <= MaxQueue
    <2>1. queue \in Seq(Frame) /\ Len(queue) <= MaxQueue /\ MaxQueue \in Nat
      BY TypeParts, HandshakeAssumption DEF BusType
    <2>2. queue' = queue \/ (queue' = Append(queue, sending[id]) /\ Len(queue) < MaxQueue)
      BY Zenon DEF Send, Lose
    <2> QED
      BY <1>2, <2>1, <2>2
  <1> QED
    BY <1>1, <1>4, <1>5, <1>6, TypeParts, Zenon DEF BusType

\* A frame is read.
LEMMA ReadsType ==
  ASSUME TypeOK, NEW f, NEW id \in {Mode, Imu}, NEW takes, Reads(f, id, takes)
  PROVE  /\ BusType' /\ failed' \in BOOLEAN /\ filter' = filter
         /\ foreign' \in Nat /\ row' \in Nat /\ missed' \in 0 .. MissedCap
  <1>1. BusType'
    <2>1. queue \in Seq(Frame) /\ Len(queue) <= MaxQueue /\ MaxQueue \in Nat
      BY TypeParts, HandshakeAssumption DEF BusType
    <2>2. queue # << >> /\ queue' = Tail(queue)
      BY DEF Reads
    <2>3. queue' \in Seq(Frame) /\ Len(queue') <= MaxQueue
      BY <2>1, <2>2
    <2> QED
      BY <2>3, TypeParts, Zenon DEF BusType, Reads
  <1>2. failed' \in BOOLEAN /\ filter' = filter
    BY TypeParts, Zenon DEF LoopType, Reads
  <1>3. foreign \in Nat /\ row \in Nat /\ missed \in 0 .. MissedCap /\ MissedCap \in Nat
    BY TypeParts, HandshakeAssumption DEF LoopType, MissedCap
  <1>4. foreign' \in Nat
    BY <1>3 DEF Reads
  <1>5. row' \in Nat
    <2>1. Last[id] + 1 \in Nat \ {0}
      BY LastIs, HandshakeAssumption
    <2>2. (row + 1) % (Last[id] + 1) \in Nat
      BY <1>3, <2>1
    <2> QED
      BY <1>3, <2>2 DEF Reads
  <1>6. missed' \in 0 .. MissedCap
    BY <1>3 DEF Reads
  <1> QED
    BY <1>1, <1>2, <1>4, <1>5, <1>6

LEMMA CountIs ==
  ASSUME TypeOK, NEW f \in Frame
  PROVE  /\ Count(f) \in Nat /\ Count(f) + Dlc(f) \in Nat
         /\ Count(f) = 0 \/ Count(f) = cnt
         /\ Inside(f, CheckIsMcMode(f)) /\ PosTells => Count(f) + Dlc(f) > 1
  <1>1. cnt \in Nat /\ Dlc(f) \in {1, 2} /\ (CheckIsMcMode(f) => Dlc(f) = 2)
    BY LoopTypes, DlcIs DEF CheckIsMcMode
  <1>2. Count(f) = 0 \/ Count(f) = cnt
    BY Zenon DEF Count
  <1>3. Count(f) \in Nat
    BY <1>1, <1>2
  <1>4. Count(f) + Dlc(f) \in Nat
    BY <1>1, <1>3
  <1>5. ASSUME Inside(f, CheckIsMcMode(f)), PosTells
        PROVE  Dlc(f) = 2 \/ (Count(f) = cnt /\ cnt > 1)
    BY <1>1, <1>5, Zenon DEF Inside, Count, PosTells
  <1>6. Dlc(f) = 2 \/ (Count(f) = cnt /\ cnt > 1) => Count(f) + Dlc(f) > 1
    BY <1>1, <1>3
  <1> QED
    BY <1>2, <1>3, <1>4, <1>5, <1>6, Zenon

LEMMA KeyReadType ==
  ASSUME TypeOK, NEW f \in Frame, GetKey(f)
  PROVE  TypeOK'
  <1>1. PosTells /\ cnt < ModeUnits /\ AtGetKey
    BY TypeParts, Zenon DEF KeyType, AtGetKey, GetKey, KeyOutside, KeyTooLong, KeyPart, KeyComplete
  <1>2. PICK takes : Reads(f, Mode, takes)
    BY Zenon DEF GetKey, KeyOutside, KeyTooLong, KeyPart, KeyComplete
  <1>3. /\ BusType' /\ failed' \in BOOLEAN /\ filter' = filter
        /\ foreign' \in Nat /\ row' \in Nat /\ missed' \in 0 .. MissedCap
    BY <1>2, ReadsType
  <1>4. PhaseType'
    <2>1. rpc' = rpc \/ rpc' = "filter imu"
      BY Zenon DEF GetKey, KeyOutside, KeyTooLong, KeyPart, KeyComplete
    <2> QED
      BY <1>3, <2>1, TypeParts, Zenon DEF PhaseType
  <1>5. tMode' \in [0 .. ModeUnits - 1 -> Unit \cup {NoUnit}]
    <2>1. tMode' = tMode \/ tMode' = Copied(f)
      BY Zenon DEF GetKey, KeyOutside, KeyTooLong, KeyPart, KeyComplete
    <2> QED
      BY <2>1, TypeParts, CopiedType, CountIs, Zenon DEF LoopType
  <1>6. /\ 0 \in Nat /\ 0 < ModeUnits /\ ModeUnits \in Nat
        /\ Count(f) \in Nat /\ Count(f) + Dlc(f) \in Nat /\ Count(f) < ModeUnits
    <2>1. cnt \in Nat /\ ModeUnits \in Nat /\ ModeUnits > 2
      BY LoopTypes, ModeUnitsIs
    <2>2. Count(f) \in Nat /\ Count(f) + Dlc(f) \in Nat /\ (Count(f) = 0 \/ Count(f) = cnt)
      BY CountIs
    <2> QED
      BY <1>1, <2>1, <2>2
  <1>7. bIs' \in BOOLEAN /\ cnt' \in Nat
    BY <1>6, Zenon DEF GetKey, KeyOutside, KeyTooLong, KeyPart, KeyComplete
  <1>8. KeyType'
    <2>1. CASE KeyOutside(f) \/ KeyTooLong(f)
      BY <1>6, <2>1, Zenon DEF KeyOutside, KeyTooLong, KeyType, PosTells
    <2>2. CASE KeyPart(f)
      BY <1>1, <2>2, CountIs, Zenon DEF KeyPart, KeyType, PosTells
    <2>3. CASE KeyComplete(f) /\ TailBehind(f)
      <3>1. "filter imu" # "get key"
        OBVIOUS
      <3> QED
        BY <2>3, <3>1, Zenon DEF KeyComplete, KeyType, AtGetKey
    <2>4. CASE KeyComplete(f) /\ ~TailBehind(f)
      BY <1>6, <2>4, Zenon DEF KeyComplete, KeyType, PosTells
    <2> QED
      BY <2>1, <2>2, <2>3, <2>4, Zenon DEF GetKey
  <1> QED
    BY <1>3, <1>4, <1>5, <1>7, <1>8, TypeParts, Zenon DEF LoopType

LEMMA ReadyReadType ==
  ASSUME TypeOK, NEW f \in Frame, ReadyFrame(f)
  PROVE  TypeOK'
  <1> DEFINE inside == Inside(f, CheckIsAtti(f))
             n      == Count(f) + (IF inside THEN Dlc(f) ELSE 0)
             tail   == inside /\ CheckIsTail(f)
  <1>1. /\ Reads(f, Imu, tail /\ n = ImuUnits)
        /\ rpc = "wait ready" /\ (rpc' = rpc \/ rpc' = "receive")
        /\ bIs' = (inside /\ (tail => n = ImuUnits))
        /\ cnt' = IF tail /\ n # ImuUnits THEN 0 ELSE n
        /\ tMode' = tMode
    BY Zenon DEF ReadyFrame
  <1>2. Count(f) \in Nat /\ Count(f) + Dlc(f) \in Nat /\ 0 \in Nat /\ Count(f) + 0 = Count(f)
    BY CountIs
  <1>3. n \in Nat
    BY <1>2, Zenon
  <1>4. PICK takes : Reads(f, Imu, takes)
    BY <1>1, Zenon
  <1> HIDE DEF n, tail, inside
  <1>5. /\ BusType' /\ failed' \in BOOLEAN /\ filter' = filter
        /\ foreign' \in Nat /\ row' \in Nat /\ missed' \in 0 .. MissedCap
    BY <1>4, ReadsType
  <1>6. PhaseType'
    BY <1>1, <1>5, TypeParts, Zenon DEF PhaseType
  <1>7. bIs' \in BOOLEAN /\ cnt' \in Nat
    BY <1>1, <1>2, <1>3, Zenon
  <1>8. KeyType'
    <2>1. "wait ready" # "get key" /\ "receive" # "get key"
      OBVIOUS
    <2> QED
      BY <1>1, <2>1, Zenon DEF KeyType, AtGetKey
  <1>9. tMode' \in [0 .. ModeUnits - 1 -> Unit \cup {NoUnit}]
    BY <1>1, TypeParts, Zenon DEF LoopType
  <1> QED
    BY <1>5, <1>6, <1>7, <1>8, <1>9, TypeParts, Zenon DEF LoopType

\* A step to another phase that leaves the bus alone, and the loop or starts it.
LEMMA PhaseStep ==
  ASSUME TypeOK,
         \/ InitFails \/ Socket \/ Bind \/ FilterKey \/ FilterImu \/ KeyReadFails \/ ReadyReadFails
  PROVE  TypeOK'
  <1>1. /\ rpc' \in {"init", "bind", "filter key", "get key", "filter imu", "wait ready", "receive", "done"}
        /\ filter' = filter \/ filter' = {Mode, Imu} \/ filter' = {Mode} \/ filter' = {Imu}
        /\ queue' = queue /\ sending' = sending /\ lost' = lost
    BY Zenon DEF InitFails, Socket, Bind, FilterKey, FilterImu, KeyReadFails, ReadyReadFails, GoesTo,
                 SetFilter, busvars
  <1>2. PhaseType' /\ BusType'
    BY <1>1, TypeParts, Zenon DEF PhaseType, BusType
  <1>3. /\ tMode' = tMode \/ tMode' = Fresh
        /\ cnt' = cnt \/ cnt' = 0
        /\ foreign' = foreign \/ foreign' = 0
        /\ row' = row \/ row' = 0
        /\ missed' = missed \/ missed' = 0
        /\ bIs' = bIs \/ bIs' = FALSE
        /\ failed' = failed \/ failed' = FALSE \/ failed' = TRUE
    BY Zenon DEF InitFails, Socket, Bind, FilterKey, FilterImu, KeyReadFails, ReadyReadFails, GoesTo,
                 SetFilter, FreshLoop, loopvars
  <1>4. 0 \in Nat /\ 0 \in 0 .. MissedCap /\ 0 < ModeUnits
    BY HandshakeAssumption, ModeUnitsIs DEF MissedCap
  <1>5. LoopType'
    BY <1>3, <1>4, FreshType, TypeParts, Zenon DEF LoopType
  <1>6. KeyType'
    <2>1. /\ "init" # "get key" /\ "bind" # "get key" /\ "filter key" # "get key"
          /\ "filter imu" # "get key" /\ "wait ready" # "get key" /\ "receive" # "get key"
          /\ "done" # "get key"
      OBVIOUS
    <2>2. AtGetKey' => bIs' = FALSE /\ cnt' = 0
      BY <2>1, Zenon DEF AtGetKey, InitFails, Socket, Bind, FilterKey, FilterImu, KeyReadFails,
                         ReadyReadFails, GoesTo, SetFilter, FreshLoop
    <2> QED
      BY <1>4, <2>2, Zenon DEF KeyType, PosTells
  <1> QED
    BY <1>2, <1>5, <1>6, TypeParts, Zenon

LEMMA TypeStep ==
  ASSUME TypeOK, [Next]_vars
  PROVE  TypeOK'
  <1>1. CASE UNCHANGED vars
    BY <1>1, TypeParts, Zenon
       DEF vars, loopvars, busvars, PhaseType, BusType, LoopType, KeyType, AtGetKey, PosTells
  <1>2. ASSUME NEW f \in Frame, GetKey(f) \/ ReadyFrame(f) PROVE TypeOK'
    BY <1>2, KeyReadType, ReadyReadType
  <1>3. ASSUME NEW id \in {Mode, Imu}, Send(id) \/ Lose(id) PROVE TypeOK'
    BY <1>3, BusStep
  <1> QED
    BY <1>1, <1>2, <1>3, PhaseStep, Zenon DEF Next, ReadFrame

----------------------------------------------------------------------------
(* The streams under the steps of the bus.                                 *)

LEMMA StreamStart ==
  ASSUME NEW id, NEW s \in Frame, s.id = id, NEW t \in Nat
  PROVE  \E nx, g : Stream(id, << >>, s, t, t, nx, g)
  <1> DEFINE nx == [i \in 0 .. 0 |-> s]
             g  == [i \in 0 .. 0 |-> t]
  <1>1. nx[0] = s /\ g[0] = t /\ nx \in [0 .. 0 -> Frame] /\ g \in [0 .. 0 -> Nat]
    OBVIOUS
  <1>2. Len(<< >>) = 0 /\ 0 .. 0 = {0} /\ 1 .. 0 = {} /\ t - t = 0
    OBVIOUS
  <1>4. Gap(id, 0, s, s)
    BY GapSelf
  <1> HIDE DEF nx, g
  <1>5. \A i \in 0 .. 0 : g[i] <= t /\ nx[i].id = id
    BY <1>1, <1>2
  <1>6. Stream(id, << >>, s, t, t, nx, g)
    BY <1>1, <1>2, <1>4, <1>5, Zenon DEF Stream
  <1> QED
    BY <1>6

\* A frame of the stream is sent into the socket.
LEMMA StreamSend ==
  ASSUME NEW id \in {Mode, Imu}, NEW q \in Seq(Frame), NEW s \in Frame, s.id = id, NEW t \in Nat,
         NEW nx, NEW g, Stream(id, q, s, t, t, nx, g)
  PROVE  \E nx1, g1 : /\ Stream(id, Append(q, s), FrameAfter(s), t, t, nx1, g1)
                      /\ nx1[0] = nx[0] /\ g1[0] = g[0]
  <1>1. Len(q) \in 0 .. Len(q)
    OBVIOUS
  <1>2. g[Len(q)] \in Nat /\ g[Len(q)] <= t /\ Gap(id, t - g[Len(q)], nx[Len(q)], s)
    BY <1>1 DEF Stream
  <1>3. FrameAfter(s) \in Frame /\ FrameAfter(s).id = id
    BY FrameAfterIs
  <1>4. Follows(id, s, nx[Len(q)], g[Len(q)], FrameAfter(s), t)
    BY <1>2, Zenon DEF Follows
  <1>5. t - t = 0 /\ t <= t
    OBVIOUS
  <1>6. Gap(id, t - t, FrameAfter(s), FrameAfter(s))
    BY <1>3, <1>5, GapSelf
  <1>7. Comes(id, q, s, t, t, nx, g, s, FrameAfter(s), t, FrameAfter(s))
    BY <1>3, <1>4, <1>5, <1>6, Zenon DEF Comes
  <1> QED
    BY <1>7, StreamAppend

\* What bounds the losses in the socket may grow.
LEMMA StreamTop ==
  ASSUME NEW id, NEW q \in Seq(Frame), NEW s, NEW top \in Nat, NEW more \in Nat, top <= more,
         NEW allow \in Nat, NEW nx, NEW g, Stream(id, q, s, top, allow, nx, g)
  PROVE  Stream(id, q, s, more, allow, nx, g)
  <1>1. ASSUME NEW i \in 0 .. Len(q) PROVE g[i] <= more /\ nx[i].id = id
    <2>1. g[i] \in Nat /\ g[i] <= top /\ nx[i].id = id
      BY DEF Stream
    <2> QED
      BY <2>1
  <1> QED
    BY <1>1 DEF Stream

\* The frame at the head of the socket is read.
LEMMA StreamRead ==
  ASSUME NEW id, NEW q \in Seq(Frame), q # << >>, NEW s, NEW top \in Nat, NEW allow \in Nat,
         NEW nx, NEW g, Stream(id, q, s, top, allow, nx, g)
  PROVE  \E nx1, g1 : /\ Stream(id, Tail(q), s, top, allow, nx1, g1)
                      /\ Read(id, Head(q), nx[0], g[0], nx1[0], g1[0]) /\ g1[0] <= top
  <1>1. PICK nx1, g1 : Stream(id, Tail(q), s, top, allow, nx1, g1) /\ nx1[0] = nx[1] /\ g1[0] = g[1]
    BY StreamTail
  <1>2. 0 \in 0 .. Len(q) /\ 1 \in 0 .. Len(q) /\ 1 \in 1 .. Len(q) /\ 1 - 1 = 0 /\ Head(q) = q[1] /\ Head(q) \in Frame
    <2>1. Len(q) \in Nat \ {0} /\ Head(q) = q[1] /\ Head(q) \in Frame
      OBVIOUS
    <2> QED
      BY <2>1
  <1>3. /\ nx[0] \in Frame /\ g[0] \in Nat /\ nx[0].id = id
        /\ nx[1] \in Frame /\ g[1] \in Nat /\ nx[1].id = id /\ g[1] <= top
    BY <1>2 DEF Stream
  <1>4. Follows(id, q[1], nx[1 - 1], g[1 - 1], nx[1], g[1])
    BY <1>2, Zenon DEF Stream
  <1>5. Read(id, Head(q), nx[0], g[0], nx1[0], g1[0]) /\ g1[0] <= top
    BY <1>1, <1>2, <1>3, <1>4, Zenon DEF Read
  <1> QED
    BY <1>1, <1>5, Zenon

LEMMA StreamHead ==
  ASSUME NEW id, NEW q \in Seq(Frame), NEW s, NEW top \in Nat, NEW allow, NEW nx, NEW g,
         Stream(id, q, s, top, allow, nx, g)
  PROVE  g[0] \in Nat /\ g[0] <= top /\ nx[0] \in Frame
  <1>1. 0 \in 0 .. Len(q)
    OBVIOUS
  <1> QED
    BY <1>1 DEF Stream
----------------------------------------------------------------------------
(* A stream by its head: x is due at the head of the socket, with a lost.  *)

Heads(id, q, s, top, allow, x, a) ==
  \E nx, g : Stream(id, q, s, top, allow, nx, g) /\ nx[0] = x /\ g[0] = a

LEMMA HeadsStart ==
  ASSUME NEW id, NEW s \in Frame, s.id = id, NEW t \in Nat
  PROVE  \E x, a : Heads(id, << >>, s, t, t, x, a)
  <1>1. PICK nx, g : Stream(id, << >>, s, t, t, nx, g)
    BY StreamStart
  <1>2. Heads(id, << >>, s, t, t, nx[0], g[0])
    BY <1>1, Zenon DEF Heads
  <1> QED
    BY <1>2, Zenon

LEMMA HeadsSend ==
  ASSUME NEW id \in {Mode, Imu}, NEW q \in Seq(Frame), NEW s \in Frame, s.id = id, NEW t \in Nat,
         NEW x, NEW a, Heads(id, q, s, t, t, x, a)
  PROVE  Heads(id, Append(q, s), FrameAfter(s), t, t, x, a)
  <1>1. PICK nx, g : Stream(id, q, s, t, t, nx, g) /\ nx[0] = x /\ g[0] = a
    BY Zenon DEF Heads
  <1>2. PICK nx1, g1 : Stream(id, Append(q, s), FrameAfter(s), t, t, nx1, g1) /\ nx1[0] = nx[0] /\ g1[0] = g[0]
    BY <1>1, StreamSend
  <1> QED
    BY <1>1, <1>2, Zenon DEF Heads

\* A frame of the other id is sent into the socket.
LEMMA HeadsOther ==
  ASSUME NEW id, NEW q \in Seq(Frame), NEW s, NEW top \in Nat, NEW allow \in Nat,
         NEW x, NEW a, Heads(id, q, s, top, allow, x, a), NEW f \in Frame, f.id # id
  PROVE  Heads(id, Append(q, f), s, top, allow, x, a)
  <1>1. PICK nx, g : Stream(id, q, s, top, allow, nx, g) /\ nx[0] = x /\ g[0] = a
    BY Zenon DEF Heads
  <1>2. PICK nx1, g1 : Stream(id, Append(q, f), s, top, allow, nx1, g1) /\ nx1[0] = nx[0] /\ g1[0] = g[0]
    <2>1. Len(q) \in 0 .. Len(q)
      OBVIOUS
    <2>2. /\ g[Len(q)] \in Nat /\ g[Len(q)] <= top /\ Gap(id, allow - g[Len(q)], nx[Len(q)], s)
          /\ nx[Len(q)] \in Frame /\ nx[Len(q)].id = id
      BY <1>1, <2>1 DEF Stream
    <2>3. Follows(id, f, nx[Len(q)], g[Len(q)], nx[Len(q)], g[Len(q)])
      BY Zenon DEF Follows
    <2>4. Comes(id, q, s, top, allow, nx, g, f, nx[Len(q)], g[Len(q)], s)
      BY <1>1, <2>2, <2>3, Zenon DEF Comes
    <2> QED
      BY <2>4, StreamAppend
  <1> QED
    BY <1>1, <1>2, Zenon DEF Heads

LEMMA HeadsLose ==
  ASSUME NEW id \in {Mode, Imu}, NEW q \in Seq(Frame), NEW s \in Frame, s.id = id, NEW t \in Nat,
         NEW x, NEW a, Heads(id, q, s, t, t, x, a)
  PROVE  Heads(id, q, FrameAfter(s), t + 1, t + 1, x, a)
  <1>1. PICK nx, g : Stream(id, q, s, t, t, nx, g) /\ nx[0] = x /\ g[0] = a
    BY Zenon DEF Heads
  <1>2. t <= t
    OBVIOUS
  <1>3. Stream(id, q, FrameAfter(s), t + 1, t + 1, nx, g)
    BY <1>1, <1>2, StreamLose
  <1> QED
    BY <1>1, <1>3, Zenon DEF Heads

LEMMA HeadsCut ==
  ASSUME NEW q \in Seq(Frame), NEW s, NEW top \in Nat, NEW allow \in Nat, NEW x, NEW a,
         Heads(Imu, q, s, top, allow, x, a), NEW t
  PROVE  Heads(Imu, q, t, top, top + 1, x, a)
  <1>1. PICK nx, g : Stream(Imu, q, s, top, allow, nx, g) /\ nx[0] = x /\ g[0] = a
    BY Zenon DEF Heads
  <1>2. top + 1 \in Nat /\ top < top + 1 /\ Mode # Imu
    BY HandshakeAssumption
  <1>3. Stream(Imu, q, t, top, top + 1, nx, g)
    BY <1>1, <1>2, StreamCut
  <1> QED
    BY <1>1, <1>3, Zenon DEF Heads

LEMMA HeadsTop ==
  ASSUME NEW id, NEW q \in Seq(Frame), NEW s, NEW top \in Nat,
         NEW x, NEW a, Heads(id, q, s, top, top + 1, x, a)
  PROVE  Heads(id, q, s, top + 1, top + 1, x, a)
  <1>1. PICK nx, g : Stream(id, q, s, top, top + 1, nx, g) /\ nx[0] = x /\ g[0] = a
    BY Zenon DEF Heads
  <1>2. top + 1 \in Nat /\ top <= top + 1
    OBVIOUS
  <1>3. Stream(id, q, s, top + 1, top + 1, nx, g)
    BY <1>1, <1>2, StreamTop
  <1> QED
    BY <1>1, <1>3, Zenon DEF Heads

LEMMA HeadsRead ==
  ASSUME NEW id, NEW q \in Seq(Frame), q # << >>, NEW s, NEW top \in Nat, NEW allow \in Nat,
         NEW x, NEW a, Heads(id, q, s, top, allow, x, a)
  PROVE  \E y, b : Heads(id, Tail(q), s, top, allow, y, b) /\ Read(id, Head(q), x, a, y, b) /\ b <= top
  <1>1. PICK nx, g : Stream(id, q, s, top, allow, nx, g) /\ nx[0] = x /\ g[0] = a
    BY Zenon DEF Heads
  <1>2. PICK nx1, g1 : /\ Stream(id, Tail(q), s, top, allow, nx1, g1)
                       /\ Read(id, Head(q), nx[0], g[0], nx1[0], g1[0]) /\ g1[0] <= top
    BY <1>1, StreamRead
  <1>3. Heads(id, Tail(q), s, top, allow, nx1[0], g1[0])
    BY <1>2, Zenon DEF Heads
  <1> QED
    BY <1>1, <1>2, <1>3, Zenon

LEMMA HeadsFirst ==
  ASSUME NEW id, NEW q \in Seq(Frame), NEW s, NEW top \in Nat, NEW allow, NEW x, NEW a,
         Heads(id, q, s, top, allow, x, a)
  PROVE  a \in Nat /\ a <= top /\ x \in Frame
  <1>1. PICK nx, g : Stream(id, q, s, top, allow, nx, g) /\ nx[0] = x /\ g[0] = a
    BY Zenon DEF Heads
  <1> QED
    BY <1>1, StreamHead

----------------------------------------------------------------------------
(* The invariant: what the socket lets through, the streams while they are *)
(* read or still to be read, and the loops at their heads.                 *)

Idle        == rpc = "init" \/ rpc = "bind"
AtFilterKey == rpc = "filter key"
AtFilterImu == rpc = "filter imu"
AtReady     == rpc = "wait ready"

FilterInv ==
  /\ Idle => filter = {} /\ queue = << >>
  /\ AtFilterKey => filter = {Mode, Imu}
  /\ AtGetKey \/ AtFilterImu => filter = {Mode}
  /\ AtReady => filter = {Imu}

KeyInv ==
  AtFilterKey \/ AtGetKey =>
    \E x, a : /\ Heads(Mode, queue, sending[Mode], lost[Mode], lost[Mode], x, a)
              /\ AtGetKey => KeyLoop(x, a)

\* While the filter keeps IMU frames out, any number of them may go by.
ImuInv ==
  /\ AtFilterKey => \E x, a : Heads(Imu, queue, sending[Imu], lost[Imu], lost[Imu], x, a)
  /\ AtGetKey \/ AtFilterImu =>
       \E x, a : Heads(Imu, queue, sending[Imu], lost[Imu], lost[Imu] + 1, x, a)
  /\ AtReady =>
       \E x, a : /\ Heads(Imu, queue, sending[Imu], lost[Imu] + 1, lost[Imu] + 1, x, a)
                 /\ ReadyLoop(x, a)

HandshakeInv == TypeOK /\ FilterInv /\ KeyInv /\ ImuInv /\ KeyWhole

LEMMA BusFacts ==
  ASSUME TypeOK
  PROVE  /\ queue \in Seq(Frame)
         /\ sending[Mode] \in Frame /\ sending[Mode].id = Mode
         /\ sending[Imu] \in Frame /\ sending[Imu].id = Imu
         /\ lost[Mode] \in Nat /\ lost[Imu] \in Nat
  <1>1. /\ queue \in Seq(Frame) /\ sending \in [{Mode, Imu} -> Frame]
        /\ lost \in [{Mode, Imu} -> 0 .. MaxLost] /\ sending[Mode].id = Mode /\ sending[Imu].id = Imu
    BY TypeParts, Zenon DEF BusType
  <1> QED
    BY <1>1

\* A stream whose frames the filter lets through, under a step of the bus.
LEMMA BusOpen ==
  ASSUME TypeOK, NEW jd \in {Mode, Imu}, jd \in filter, NEW id \in {Mode, Imu}, Send(id) \/ Lose(id),
         NEW t \in Nat, NEW x, NEW a, Heads(jd, queue, sending[jd], t, t, x, a)
  PROVE  /\ lost'[jd] = lost[jd] => Heads(jd, queue', sending'[jd], t, t, x, a)
         /\ lost'[jd] = lost[jd] \/ lost'[jd] = lost[jd] + 1
         /\ lost'[jd] = lost[jd] + 1 => Heads(jd, queue', sending'[jd], t + 1, t + 1, x, a)
  <1>1. /\ queue \in Seq(Frame) /\ sending[jd] \in Frame /\ sending[jd].id = jd
        /\ sending[id] \in Frame /\ sending[id].id = id
        /\ lost[jd] \in Nat
    BY BusFacts
  <1>2. sending'[id] = FrameAfter(sending[id]) /\ (id # jd => sending'[jd] = sending[jd])
    <2>1. sending' = [sending EXCEPT ![id] = FrameAfter(@)] /\ sending \in [{Mode, Imu} -> Frame]
      BY TypeParts, Zenon DEF Send, Lose, BusType
    <2> QED
      BY <2>1
  <1>3. lost[jd] # lost[jd] + 1
    BY <1>1
  <1>4. CASE Send(id)
    <2>1. lost' = lost
      BY <1>4, Zenon DEF Send
    <2>2. CASE id \in filter
      <3>1. queue' = Append(queue, sending[id])
        BY <1>4, <2>2, Zenon DEF Send
      <3>2. CASE id = jd
        <4>1. Heads(jd, Append(queue, sending[jd]), FrameAfter(sending[jd]), t, t, x, a)
          BY <1>1, HeadsSend, Zenon
        <4> QED
          BY <1>2, <1>3, <2>1, <3>1, <3>2, <4>1, Zenon
      <3>3. CASE id # jd
        <4>1. Heads(jd, Append(queue, sending[id]), sending[jd], t, t, x, a)
          BY <1>1, <3>3, HeadsOther, Zenon
        <4> QED
          BY <1>2, <1>3, <2>1, <3>1, <3>3, <4>1, Zenon
      <3> QED
        BY <3>2, <3>3
    <2>3. CASE id \notin filter
      <3>1. queue' = queue /\ id # jd
        BY <1>4, <2>3, Zenon DEF Send
      <3> QED
        BY <1>2, <1>3, <2>1, <3>1, Zenon
    <2> QED
      BY <2>2, <2>3
  <1>5. CASE Lose(id)
    <2>1. queue' = queue /\ lost' = [lost EXCEPT ![id] = @ + 1] /\ lost \in [{Mode, Imu} -> 0 .. MaxLost]
      BY <1>5, TypeParts, Zenon DEF Lose, BusType
    <2>2. CASE id = jd
      <3>1. lost'[jd] = lost[jd] + 1
        BY <2>1, <2>2
      <3>2. Heads(jd, queue, FrameAfter(sending[jd]), t + 1, t + 1, x, a)
        BY <1>1, HeadsLose, Zenon
      <3> QED
        BY <1>2, <1>3, <2>1, <2>2, <3>1, <3>2, Zenon
    <2>3. CASE id # jd
      <3>1. lost'[jd] = lost[jd]
        BY <2>1, <2>3
      <3> QED
        BY <1>2, <1>3, <2>1, <2>3, <3>1, Zenon
    <2> QED
      BY <2>2, <2>3
  <1> QED
    BY <1>4, <1>5

\* The stream of the IMU while its frames are kept out.
LEMMA BusClosed ==
  ASSUME TypeOK, Imu \notin filter, NEW id \in {Mode, Imu}, Send(id) \/ Lose(id),
         NEW x, NEW a, Heads(Imu, queue, sending[Imu], lost[Imu], lost[Imu] + 1, x, a)
  PROVE  Heads(Imu, queue', sending'[Imu], lost'[Imu], lost'[Imu] + 1, x, a)
  <1>1. /\ queue \in Seq(Frame) /\ sending[Mode] \in Frame /\ sending[Mode].id = Mode
        /\ lost[Imu] \in Nat /\ lost[Imu] + 1 \in Nat /\ Mode # Imu
    BY BusFacts, HandshakeAssumption
  <1>2. id # Imu => sending'[Imu] = sending[Imu]
    <2>1. sending' = [sending EXCEPT ![id] = FrameAfter(@)] /\ sending \in [{Mode, Imu} -> Frame]
      BY TypeParts, Zenon DEF Send, Lose, BusType
    <2> QED
      BY <2>1
  <1>3. lost'[Imu] = lost[Imu]
    <2>1. CASE Send(id)
      BY <2>1, Zenon DEF Send
    <2>2. CASE Lose(id)
      <3>1. /\ id # Imu /\ lost' = [lost EXCEPT ![id] = @ + 1] /\ lost \in [{Mode, Imu} -> 0 .. MaxLost]
        BY <2>2, TypeParts, Zenon DEF Lose, BusType
      <3> QED
        BY <3>1
    <2> QED
      BY <2>1, <2>2
  <1>4. CASE id = Imu
    <2>1. queue' = queue
      BY <1>4, Zenon DEF Send, Lose
    <2>2. Heads(Imu, queue, sending'[Imu], lost[Imu], lost[Imu] + 1, x, a)
      BY <1>1, HeadsCut, Zenon
    <2> QED
      BY <1>3, <2>1, <2>2, Zenon
  <1>5. CASE id = Mode
    <2>1. queue' = queue \/ queue' = Append(queue, sending[Mode])
      BY <1>5, Zenon DEF Send, Lose
    <2>2. Heads(Imu, Append(queue, sending[Mode]), sending[Imu], lost[Imu], lost[Imu] + 1, x, a)
      BY <1>1, HeadsOther, Zenon
    <2> QED
      BY <1>1, <1>2, <1>3, <1>5, <2>1, <2>2, Zenon
  <1> QED
    BY <1>4, <1>5

----------------------------------------------------------------------------
(* The invariant is inductive.                                             *)

LoopSame ==
  /\ bIs' = bIs /\ cnt' = cnt /\ tMode' = tMode /\ failed' = failed /\ foreign' = foreign
  /\ row' = row /\ missed' = missed

LEMMA LoopsSame ==
  ASSUME LoopSame, NEW x, NEW a
  PROVE  /\ KeyLoop(x, a) => KeyLoop(x, a)'
         /\ ReadyLoop(x, a) => ReadyLoop(x, a)'
  <1>1. Pos' = Pos
    BY Zenon DEF LoopSame, Pos
  <1>2. Debt' = Debt
    BY <1>1, Zenon DEF LoopSame, Debt
  <1>3. \A p, k : CopiedOf(p, k) => CopiedOf(p, k)'
    BY Zenon DEF LoopSame, CopiedOf
  <1>4. \A k, u, d : Holds(x, a, k, u, d) => Holds(x, a, k, u, d)'
    BY <1>1, <1>3, Zenon DEF LoopSame, Holds
  <1>5. KeyLoop(x, a) => KeyLoop(x, a)'
    BY <1>1, <1>2, <1>4, Zenon DEF LoopSame, KeyLoop
  <1>6. ReadyLoop(x, a) => ReadyLoop(x, a)'
    BY <1>2, Zenon DEF LoopSame, ReadyLoop, PosTells
  <1> QED
    BY <1>5, <1>6

LEMMA InvBus ==
  ASSUME HandshakeInv, NEW id \in {Mode, Imu}, Send(id) \/ Lose(id)
  PROVE  HandshakeInv'
  <1>1. TypeOK /\ FilterInv /\ KeyInv /\ ImuInv /\ KeyWhole
    BY Zenon DEF HandshakeInv
  <1>2. TypeOK'
    BY <1>1, BusStep
  <1>3. LoopSame /\ rpc' = rpc /\ filter' = filter
    BY Zenon DEF Send, Lose, LoopSame, loopvars
  <1>4. lost[Mode] \in Nat /\ lost[Imu] \in Nat /\ lost[Imu] + 1 \in Nat /\ Mode # Imu
    BY <1>1, BusFacts, HandshakeAssumption
  <1>5. FilterInv'
    <2>1. Idle => queue' = queue
      BY <1>1, Zenon DEF Send, Lose, FilterInv
    <2> QED
      BY <1>1, <1>3, <2>1, Zenon DEF FilterInv, Idle, AtFilterKey, AtGetKey, AtFilterImu, AtReady
  <1>6. KeyInv'
    <2> SUFFICES ASSUME AtFilterKey \/ AtGetKey
                 PROVE  \E x, a : /\ Heads(Mode, queue', sending'[Mode], lost'[Mode], lost'[Mode], x, a)
                                  /\ AtGetKey => KeyLoop(x, a)'
      BY <1>3, Zenon DEF KeyInv, AtFilterKey, AtGetKey
    <2>1. PICK x, a : /\ Heads(Mode, queue, sending[Mode], lost[Mode], lost[Mode], x, a)
                      /\ AtGetKey => KeyLoop(x, a)
      BY <1>1, Zenon DEF KeyInv
    <2>2. Mode \in filter
      BY <1>1, Zenon DEF FilterInv
    <2>3. Heads(Mode, queue', sending'[Mode], lost'[Mode], lost'[Mode], x, a)
      BY <1>1, <1>4, <2>1, <2>2, BusOpen, Zenon
    <2> QED
      BY <1>3, <2>1, <2>3, LoopsSame, Zenon
  <1>7. ImuInv'
    <2>1. ASSUME AtFilterKey PROVE \E x, a : Heads(Imu, queue', sending'[Imu], lost'[Imu], lost'[Imu], x, a)
      <3>1. PICK x, a : Heads(Imu, queue, sending[Imu], lost[Imu], lost[Imu], x, a)
        BY <1>1, <2>1, Zenon DEF ImuInv
      <3>2. Imu \in filter
        BY <1>1, <2>1, Zenon DEF FilterInv
      <3>3. Heads(Imu, queue', sending'[Imu], lost'[Imu], lost'[Imu], x, a)
        BY <1>1, <1>4, <3>1, <3>2, BusOpen, Zenon
      <3> QED
        BY <3>3, Zenon
    <2>2. ASSUME AtGetKey \/ AtFilterImu
          PROVE  \E x, a : Heads(Imu, queue', sending'[Imu], lost'[Imu], lost'[Imu] + 1, x, a)
      <3>1. PICK x, a : Heads(Imu, queue, sending[Imu], lost[Imu], lost[Imu] + 1, x, a)
        BY <1>1, <2>2, Zenon DEF ImuInv
      <3>2. Imu \notin filter
        <4>1. filter = {Mode}
          BY <1>1, <2>2, Zenon DEF FilterInv
        <4> QED
          BY <1>4, <4>1
      <3>3. Heads(Imu, queue', sending'[Imu], lost'[Imu], lost'[Imu] + 1, x, a)
        BY <1>1, <3>1, <3>2, BusClosed, Zenon
      <3> QED
        BY <3>3, Zenon
    <2>3. ASSUME AtReady
          PROVE  \E x, a : /\ Heads(Imu, queue', sending'[Imu], lost'[Imu] + 1, lost'[Imu] + 1, x, a)
                           /\ ReadyLoop(x, a)'
      <3>1. PICK x, a : /\ Heads(Imu, queue, sending[Imu], lost[Imu] + 1, lost[Imu] + 1, x, a)
                        /\ ReadyLoop(x, a)
        BY <1>1, <2>3, Zenon DEF ImuInv
      <3>2. Imu \in filter
        BY <1>1, <2>3, Zenon DEF FilterInv
      <3>3. Heads(Imu, queue', sending'[Imu], lost'[Imu] + 1, lost'[Imu] + 1, x, a)
        BY <1>1, <1>4, <3>1, <3>2, BusOpen, Zenon
      <3> QED
        BY <1>3, <3>1, <3>3, LoopsSame, Zenon
    <2> QED
      BY <1>3, <2>1, <2>2, <2>3, Zenon DEF ImuInv, AtFilterKey, AtGetKey, AtFilterImu, AtReady
  <1>8. KeyWhole'
    <2>1. lost'[Mode] \in Nat /\ ModeFrames \in Nat /\ (lost'[Mode] = lost[Mode] \/ lost'[Mode] = lost[Mode] + 1)
      <3>1. lost' = lost \/ lost' = [lost EXCEPT ![id] = @ + 1]
        BY Zenon DEF Send, Lose
      <3>2. lost \in [{Mode, Imu} -> 0 .. MaxLost]
        BY <1>1, TypeParts, Zenon DEF BusType
      <3> QED
        BY <1>4, <3>1, <3>2, HandshakeAssumption
    <2>2. /\ lost'[Mode] = 0 => lost[Mode] = 0
          /\ lost'[Mode] < ModeFrames => lost[Mode] < ModeFrames
      BY <1>4, <2>1
    <2> QED
      BY <1>1, <1>3, <2>2, Zenon DEF KeyWhole, LoopSame
  <1> QED
    BY <1>2, <1>5, <1>6, <1>7, <1>8, Zenon DEF HandshakeInv

LEMMA FreshPos ==
  ASSUME FreshLoop
  PROVE  /\ Pos' = 0 /\ Debt' = 0 /\ PosTells' /\ missed' = 0 /\ foreign' = 0 /\ row' = 0
  <1>1. Pos' = 0 /\ PosTells' /\ missed' = 0 /\ foreign' = 0 /\ row' = 0
    BY Zenon DEF FreshLoop, Pos, PosTells
  <1>2. 2 * 0 = 0
    OBVIOUS
  <1>3. Debt' = 0
    BY <1>1, <1>2, Zenon DEF Debt
  <1> QED
    BY <1>1, <1>3

LEMMA FreshLoops ==
  ASSUME FreshLoop, NEW x, NEW a \in Nat
  PROVE  KeyLoop(x, a)' /\ ReadyLoop(x, a)'
  <1>1. /\ 0 \in 0 .. ModeFrames - 1 /\ 0 \in 0 .. ImuFrames + 1
        /\ 0 + 0 <= a + 0
    BY HandshakeAssumption
  <1> QED
    BY <1>1, FreshPos, Zenon DEF KeyLoop, ReadyLoop

\* The receiver is in one phase at a time.
LEMMA NextPhase ==
  /\ rpc' \in {"init", "bind"} => ~AtFilterKey' /\ ~AtGetKey' /\ ~AtFilterImu' /\ ~AtReady'
  /\ rpc' = "filter key" => ~Idle' /\ ~AtGetKey' /\ ~AtFilterImu' /\ ~AtReady'
  /\ rpc' = "get key" => ~Idle' /\ ~AtFilterKey' /\ ~AtFilterImu' /\ ~AtReady'
  /\ rpc' = "filter imu" => ~Idle' /\ ~AtFilterKey' /\ ~AtGetKey' /\ ~AtReady'
  /\ rpc' = "wait ready" => ~Idle' /\ ~AtFilterKey' /\ ~AtGetKey' /\ ~AtFilterImu'
  /\ rpc' \in {"receive", "done"} => ~Idle' /\ ~AtFilterKey' /\ ~AtGetKey' /\ ~AtFilterImu' /\ ~AtReady'
  BY DEF Idle, AtFilterKey, AtGetKey, AtFilterImu, AtReady

\* Nothing is asked of the streams before bind and behind the handshake.
LEMMA InvOutside ==
  ASSUME HandshakeInv, TypeOK', rpc' \in {"init", "bind", "receive", "done"},
         rpc' \in {"init", "bind"} => filter' = {} /\ queue' = << >>
  PROVE  HandshakeInv'
  <1>1. ~AtFilterKey' /\ ~AtGetKey' /\ ~AtFilterImu' /\ ~AtReady'
    BY NextPhase
  <1>2. FilterInv'
    BY <1>1, Zenon DEF FilterInv, Idle
  <1>3. KeyInv' /\ ImuInv'
    BY <1>1, Zenon DEF KeyInv, ImuInv
  <1>4. KeyWhole'
    BY <1>1, Zenon DEF KeyWhole, AtFilterImu
  <1> QED
    BY <1>2, <1>3, <1>4, Zenon DEF HandshakeInv

LEMMA InvInit ==
  ASSUME Init
  PROVE  HandshakeInv
  <1>1. TypeOK
    BY TypeInit
  <1>2. rpc = "init" /\ filter = {} /\ queue = << >>
    BY Zenon DEF Init
  <1>3. ~AtFilterKey /\ ~AtGetKey /\ ~AtFilterImu /\ ~AtReady
    BY <1>2 DEF AtFilterKey, AtGetKey, AtFilterImu, AtReady
  <1> QED
    BY <1>1, <1>2, <1>3, Zenon DEF HandshakeInv, FilterInv, KeyInv, ImuInv, KeyWhole, AtFilterImu

\* InitIMUCan: the streams begin at bind.
LEMMA InvInitCan ==
  ASSUME HandshakeInv, InitFails \/ Socket \/ Bind
  PROVE  HandshakeInv'
  <1>1. TypeOK /\ FilterInv
    BY Zenon DEF HandshakeInv
  <1>2. TypeOK'
    BY <1>1, PhaseStep, Zenon
  <1>3. Idle /\ queue' = queue /\ queue = << >> /\ filter = {} /\ sending' = sending /\ lost' = lost
    BY <1>1, Zenon DEF FilterInv, Idle, InitFails, Socket, Bind, GoesTo, busvars
  <1>4. CASE InitFails \/ Socket
    <2>1. rpc' \in {"init", "bind"} /\ filter' = filter
      BY <1>4, Zenon DEF InitFails, Socket, GoesTo
    <2> QED
      BY <1>2, <1>3, <2>1, InvOutside
  <1>5. CASE Bind
    <2>1. rpc' = "filter key" /\ filter' = {Mode, Imu}
      BY <1>5, Zenon DEF Bind, GoesTo
    <2>2. ~Idle' /\ ~AtGetKey' /\ ~AtFilterImu' /\ ~AtReady'
      BY <2>1, NextPhase
    <2>3. FilterInv'
      BY <2>1, <2>2, Zenon DEF FilterInv
    <2>4. /\ sending[Mode] \in Frame /\ sending[Mode].id = Mode /\ lost[Mode] \in Nat
          /\ sending[Imu] \in Frame /\ sending[Imu].id = Imu /\ lost[Imu] \in Nat
      BY <1>1, BusFacts
    <2>5. \E x, a : Heads(Mode, << >>, sending[Mode], lost[Mode], lost[Mode], x, a)
      BY <2>4, HeadsStart, Zenon
    <2>6. \E x, a : Heads(Imu, << >>, sending[Imu], lost[Imu], lost[Imu], x, a)
      BY <2>4, HeadsStart, Zenon
    <2>7. KeyInv' /\ ImuInv'
      BY <1>3, <2>2, <2>5, <2>6, Zenon DEF KeyInv, ImuInv
    <2>8. KeyWhole'
      BY <2>2, Zenon DEF KeyWhole, AtFilterImu
    <2> QED
      BY <1>2, <2>3, <2>7, <2>8, Zenon DEF HandshakeInv
  <1> QED
    BY <1>4, <1>5

\* The filter for the key: it cuts the stream of the IMU behind the socket.
LEMMA InvFilterKey ==
  ASSUME HandshakeInv, FilterKey
  PROVE  HandshakeInv'
  <1>1. TypeOK /\ KeyInv /\ ImuInv
    BY Zenon DEF HandshakeInv
  <1>2. TypeOK'
    BY <1>1, PhaseStep, Zenon
  <1>3. /\ rpc = "filter key" /\ queue' = queue /\ sending' = sending /\ lost' = lost
        /\ rpc' = "done" \/ (rpc' = "get key" /\ filter' = {Mode} /\ FreshLoop)
    BY Zenon DEF FilterKey, SetFilter, busvars
  <1>4. CASE rpc' = "done"
    <2>1. rpc' \notin {"init", "bind"}
      BY <1>4
    <2> QED
      BY <1>2, <1>4, <2>1, InvOutside
  <1>5. CASE rpc' = "get key" /\ filter' = {Mode} /\ FreshLoop
    <2>1. ~Idle' /\ ~AtFilterKey' /\ ~AtFilterImu' /\ ~AtReady'
      BY <1>5, NextPhase
    <2>2. FilterInv'
      BY <1>5, <2>1, Zenon DEF FilterInv
    <2>3. /\ queue \in Seq(Frame) /\ lost[Mode] \in Nat /\ lost[Imu] \in Nat
      BY <1>1, BusFacts
    <2>4. PICK x, a : Heads(Mode, queue, sending[Mode], lost[Mode], lost[Mode], x, a)
      BY <1>1, <1>3, Zenon DEF KeyInv, AtFilterKey
    <2>5. KeyLoop(x, a)'
      BY <1>5, <2>3, <2>4, HeadsFirst, FreshLoops, Zenon
    <2>6. KeyInv'
      BY <1>3, <2>4, <2>5, Zenon DEF KeyInv
    <2>7. PICK z, c : Heads(Imu, queue, sending[Imu], lost[Imu], lost[Imu], z, c)
      BY <1>1, <1>3, Zenon DEF ImuInv, AtFilterKey
    <2>8. Heads(Imu, queue, sending[Imu], lost[Imu], lost[Imu] + 1, z, c)
      BY <2>3, <2>7, HeadsCut, Zenon
    <2>9. ImuInv'
      BY <1>3, <2>1, <2>8, Zenon DEF ImuInv
    <2>10. KeyWhole'
      BY <2>1, Zenon DEF KeyWhole, AtFilterImu
    <2> QED
      BY <1>2, <2>2, <2>6, <2>9, <2>10, Zenon DEF HandshakeInv
  <1> QED
    BY <1>3, <1>4, <1>5

\* The filter for the IMU: the frames that follow are let through again.
LEMMA InvFilterImu ==
  ASSUME HandshakeInv, FilterImu
  PROVE  HandshakeInv'
  <1>1. TypeOK /\ ImuInv
    BY Zenon DEF HandshakeInv
  <1>2. TypeOK'
    BY <1>1, PhaseStep, Zenon
  <1>3. /\ rpc = "filter imu" /\ queue' = queue /\ sending' = sending /\ lost' = lost
        /\ rpc' = "done" \/ (rpc' = "wait ready" /\ filter' = {Imu} /\ FreshLoop)
    BY Zenon DEF FilterImu, SetFilter, busvars
  <1>4. CASE rpc' = "done"
    <2>1. rpc' \notin {"init", "bind"}
      BY <1>4
    <2> QED
      BY <1>2, <1>4, <2>1, InvOutside
  <1>5. CASE rpc' = "wait ready" /\ filter' = {Imu} /\ FreshLoop
    <2>1. ~Idle' /\ ~AtFilterKey' /\ ~AtGetKey' /\ ~AtFilterImu'
      BY <1>5, NextPhase
    <2>2. FilterInv'
      BY <1>5, <2>1, Zenon DEF FilterInv
    <2>3. queue \in Seq(Frame) /\ lost[Imu] \in Nat
      BY <1>1, BusFacts
    <2>4. PICK x, a : Heads(Imu, queue, sending[Imu], lost[Imu], lost[Imu] + 1, x, a)
      BY <1>1, <1>3, Zenon DEF ImuInv, AtFilterImu
    <2>5. Heads(Imu, queue, sending[Imu], lost[Imu] + 1, lost[Imu] + 1, x, a)
      BY <2>3, <2>4, HeadsTop, Zenon
    <2>6. ReadyLoop(x, a)'
      BY <1>5, <2>3, <2>4, HeadsFirst, FreshLoops, Zenon
    <2>7. ImuInv'
      BY <1>3, <2>1, <2>5, <2>6, Zenon DEF ImuInv
    <2>8. KeyInv' /\ KeyWhole'
      BY <2>1, Zenon DEF KeyInv, KeyWhole, AtFilterImu
    <2> QED
      BY <1>2, <2>2, <2>7, <2>8, Zenon DEF HandshakeInv
  <1> QED
    BY <1>3, <1>4, <1>5

LEMMA ReadsBus ==
  ASSUME NEW f, NEW id, NEW takes, Reads(f, id, takes)
  PROVE  /\ queue # << >> /\ f = Head(queue) /\ queue' = Tail(queue)
         /\ filter' = filter /\ sending' = sending /\ lost' = lost /\ failed' = failed
  BY Zenon DEF Reads

\* Frame f is read in GetKey.
LEMMA InvKeyRead ==
  ASSUME HandshakeInv, NEW f \in Frame, GetKey(f)
  PROVE  HandshakeInv'
  <1>1. TypeOK /\ FilterInv /\ KeyInv /\ ImuInv
    BY Zenon DEF HandshakeInv
  <1>2. TypeOK'
    BY <1>1, KeyReadType
  <1>3. /\ rpc = "get key"
        /\ Complete(f) => Reads(f, Mode, TRUE)
        /\ ~Complete(f) => Reads(f, Mode, FALSE) /\ rpc' = "get key"
    BY <1>1, KeyRule, Zenon DEF Outside, TooLong, Head0, Inner, NoTail
  <1>4. /\ queue # << >> /\ f = Head(queue) /\ queue' = Tail(queue)
        /\ filter' = filter /\ sending' = sending /\ lost' = lost /\ failed' = failed
    BY <1>3, ReadsBus, Zenon
  <1>5. queue \in Seq(Frame) /\ lost[Mode] \in Nat /\ lost[Imu] \in Nat /\ lost[Imu] + 1 \in Nat
    BY <1>1, BusFacts
  <1>6. PICK x, a : Heads(Mode, queue, sending[Mode], lost[Mode], lost[Mode], x, a) /\ KeyLoop(x, a)
    BY <1>1, <1>3, Zenon DEF KeyInv, AtGetKey
  <1>7. PICK y, b : /\ Heads(Mode, Tail(queue), sending[Mode], lost[Mode], lost[Mode], y, b)
                    /\ Read(Mode, Head(queue), x, a, y, b) /\ b <= lost[Mode]
    BY <1>4, <1>5, <1>6, HeadsRead, Zenon
  <1>8. Read(Mode, f, x, a, y, b)
    BY <1>4, <1>7, Zenon
  <1>9. PICK z, c : Heads(Imu, queue, sending[Imu], lost[Imu], lost[Imu] + 1, z, c)
    BY <1>1, <1>3, Zenon DEF ImuInv, AtGetKey
  <1>10. \E v, d : Heads(Imu, Tail(queue), sending[Imu], lost[Imu], lost[Imu] + 1, v, d)
    BY <1>4, <1>5, <1>9, HeadsRead, Zenon
  <1>11. filter = {Mode}
    BY <1>1, <1>3, Zenon DEF FilterInv, AtGetKey
  <1>12. CASE Complete(f)
    <2>1. rpc' = "filter imu" /\ f.id = Mode
      BY <1>12, Zenon DEF Complete, TailBehind
    <2>2. ~Idle' /\ ~AtFilterKey' /\ ~AtGetKey' /\ ~AtReady'
      BY <2>1, NextPhase
    <2>3. FilterInv' /\ KeyInv' /\ ImuInv'
      BY <1>4, <1>10, <1>11, <2>2, Zenon DEF FilterInv, KeyInv, ImuInv
    <2>4. foreign' = foreign
      BY <1>3, <1>12, <2>1, Zenon DEF Reads
    <2>5. lost[Mode] = 0 \/ (foreign = 0 /\ lost[Mode] < ModeFrames) => KeyIsWhole'
      BY <1>1, <1>5, <1>6, <1>7, <1>8, <1>12, KeyTaken, Zenon
    <2>6. KeyWhole'
      BY <1>4, <2>4, <2>5, Zenon DEF KeyWhole, KeyIsWhole
    <2> QED
      BY <1>2, <2>3, <2>6, Zenon DEF HandshakeInv
  <1>13. CASE ~Complete(f)
    <2>1. ~Idle' /\ ~AtFilterKey' /\ ~AtFilterImu' /\ ~AtReady'
      BY <1>3, <1>13, NextPhase
    <2>2. Pos' \in Nat
      BY <1>2, NextPosNat, Zenon
    <2>3. KeyLoop(y, b)'
      BY <1>1, <1>6, <1>8, <1>13, <2>2, KeyStep, Zenon
    <2>4. KeyInv'
      BY <1>4, <1>7, <2>3, Zenon DEF KeyInv
    <2>5. FilterInv' /\ ImuInv' /\ KeyWhole'
      BY <1>4, <1>10, <1>11, <2>1, Zenon DEF FilterInv, ImuInv, KeyWhole, AtFilterImu
    <2> QED
      BY <1>2, <2>4, <2>5, Zenon DEF HandshakeInv
  <1> QED
    BY <1>12, <1>13

\* Frame f is read in WaitImuReady.
LEMMA InvReadyRead ==
  ASSUME HandshakeInv, NEW f \in Frame, ReadyFrame(f)
  PROVE  HandshakeInv'
  <1>1. TypeOK /\ FilterInv /\ ImuInv
    BY Zenon DEF HandshakeInv
  <1>2. TypeOK'
    BY <1>1, ReadyReadType
  <1>3. rpc = "wait ready" /\ (rpc' = rpc \/ rpc' = "receive")
    BY Zenon DEF ReadyFrame
  <1>4. CASE Ready(f)
    <2>1. rpc' = "receive"
      BY <1>4, Zenon DEF Ready
    <2>2. rpc' \notin {"init", "bind"}
      BY <2>1
    <2> QED
      BY <1>2, <2>1, <2>2, InvOutside
  <1>5. CASE ~Ready(f)
    <2>1. rpc' = "wait ready"
      BY <1>3, <1>5, Zenon DEF Ready
    <2>2. ~Idle' /\ ~AtFilterKey' /\ ~AtGetKey' /\ ~AtFilterImu'
      BY <2>1, NextPhase
    <2>3. PICK x, a : /\ Heads(Imu, queue, sending[Imu], lost[Imu] + 1, lost[Imu] + 1, x, a)
                      /\ ReadyLoop(x, a)
      BY <1>1, <1>3, Zenon DEF ImuInv, AtReady
    <2>4. PosTells
      BY <2>3, Zenon DEF ReadyLoop
    <2>5. Reads(f, Imu, FALSE)
      BY <1>1, <1>5, <2>4, ReadyRule, Zenon
    <2>6. /\ queue # << >> /\ f = Head(queue) /\ queue' = Tail(queue)
          /\ filter' = filter /\ sending' = sending /\ lost' = lost
      BY <2>5, ReadsBus, Zenon
    <2>7. queue \in Seq(Frame) /\ lost[Imu] \in Nat /\ lost[Imu] + 1 \in Nat
      BY <1>1, BusFacts
    <2>8. PICK y, b : /\ Heads(Imu, Tail(queue), sending[Imu], lost[Imu] + 1, lost[Imu] + 1, y, b)
                      /\ Read(Imu, Head(queue), x, a, y, b)
      BY <2>3, <2>6, <2>7, HeadsRead, Zenon
    <2>9. Pos' \in Nat
      BY <1>2, NextPosNat, Zenon
    <2>10. ReadyLoop(y, b)'
      BY <1>1, <1>5, <2>3, <2>6, <2>8, <2>9, ReadyStep, Zenon
    <2>11. ImuInv'
      BY <2>2, <2>6, <2>8, <2>10, Zenon DEF ImuInv
    <2>12. filter' = {Imu}
      BY <1>1, <1>3, <2>6, Zenon DEF FilterInv, AtReady
    <2>13. FilterInv' /\ KeyInv' /\ KeyWhole'
      BY <2>2, <2>12, Zenon DEF FilterInv, KeyInv, KeyWhole, AtFilterImu
    <2> QED
      BY <1>2, <2>11, <2>13, Zenon DEF HandshakeInv
  <1> QED
    BY <1>4, <1>5

\* read() fails in one of the loops.
LEMMA InvReadFails ==
  ASSUME HandshakeInv, KeyReadFails \/ ReadyReadFails
  PROVE  HandshakeInv'
  <1>1. TypeOK /\ FilterInv /\ ImuInv
    BY Zenon DEF HandshakeInv
  <1>2. TypeOK'
    BY <1>1, PhaseStep, Zenon
  <1>3. CASE KeyReadFails
    <2>1. /\ rpc = "get key" /\ rpc' = "filter imu" /\ failed' = TRUE /\ filter' = filter
          /\ queue' = queue /\ sending' = sending /\ lost' = lost
      BY <1>3, Zenon DEF KeyReadFails, busvars
    <2>2. ~Idle' /\ ~AtFilterKey' /\ ~AtGetKey' /\ ~AtReady'
      BY <2>1, NextPhase
    <2>3. FilterInv' /\ KeyInv' /\ ImuInv' /\ KeyWhole'
      BY <1>1, <2>1, <2>2, Zenon DEF FilterInv, KeyInv, ImuInv, KeyWhole, AtGetKey
    <2> QED
      BY <1>2, <2>3, Zenon DEF HandshakeInv
  <1>4. CASE ReadyReadFails
    <2>1. rpc' = "receive"
      BY <1>4, Zenon DEF ReadyReadFails
    <2>2. rpc' \notin {"init", "bind"}
      BY <2>1
    <2> QED
      BY <1>2, <2>1, <2>2, InvOutside
  <1> QED
    BY <1>3, <1>4

LEMMA InvStep ==
  ASSUME HandshakeInv, [Next]_vars
  PROVE  HandshakeInv'
  <1>1. CASE UNCHANGED vars
    <2>1. /\ LoopSame /\ rpc' = rpc /\ filter' = filter
          /\ queue' = queue /\ sending' = sending /\ lost' = lost
      BY <1>1, Zenon DEF vars, loopvars, busvars, LoopSame
    <2>2. TypeOK'
      BY TypeStep, Zenon DEF HandshakeInv
    <2>3. FilterInv' /\ KeyInv' /\ ImuInv' /\ KeyWhole'
      BY <2>1, LoopsSame, Zenon
         DEF HandshakeInv, FilterInv, KeyInv, ImuInv, KeyWhole, LoopSame, Idle, AtFilterKey, AtGetKey,
             AtFilterImu, AtReady
    <2> QED
      BY <2>2, <2>3, Zenon DEF HandshakeInv
  <1>2. ASSUME NEW f \in Frame, GetKey(f) \/ ReadyFrame(f) PROVE HandshakeInv'
    BY <1>2, InvKeyRead, InvReadyRead
  <1>3. ASSUME NEW id \in {Mode, Imu}, Send(id) \/ Lose(id) PROVE HandshakeInv'
    BY <1>3, InvBus
  <1> QED
    BY <1>1, <1>2, <1>3, InvInitCan, InvFilterKey, InvFilterImu, InvReadFails, Zenon DEF Next, ReadFrame

\* In each loop the packets it passed over are paid for by lost and foreign
\* frames: the frame due in the socket tells how many were lost before it.
LEMMA InvMissed ==
  ASSUME HandshakeInv
  PROVE  MissedBounded
  <1>1. TypeOK /\ KeyInv /\ ImuInv
    BY Zenon DEF HandshakeInv
  <1>2. /\ queue \in Seq(Frame) /\ lost[Mode] \in Nat /\ lost[Imu] \in Nat /\ lost[Imu] + 1 \in Nat
        /\ missed \in Nat /\ foreign \in Nat
    BY <1>1, BusFacts, LoopTypes
  <1>3. Debt \in {0, 1}
    BY Zenon DEF Debt
  <1>4. AtGetKey => missed <= lost[Mode] + foreign
    <2> SUFFICES ASSUME AtGetKey PROVE missed <= lost[Mode] + foreign
      OBVIOUS
    <2>1. PICK x, a : Heads(Mode, queue, sending[Mode], lost[Mode], lost[Mode], x, a) /\ KeyLoop(x, a)
      BY <1>1, Zenon DEF KeyInv
    <2>2. a \in Nat /\ a <= lost[Mode]
      BY <1>2, <2>1, HeadsFirst, Zenon
    <2>3. missed + Debt <= a + foreign
      BY <2>1, Zenon DEF KeyLoop
    <2> QED
      BY <1>2, <1>3, <2>2, <2>3
  <1>5. AtReady => missed <= lost[Imu] + foreign + 1
    <2> SUFFICES ASSUME AtReady PROVE missed <= lost[Imu] + foreign + 1
      OBVIOUS
    <2>1. PICK x, a : Heads(Imu, queue, sending[Imu], lost[Imu] + 1, lost[Imu] + 1, x, a) /\ ReadyLoop(x, a)
      BY <1>1, Zenon DEF ImuInv
    <2>2. a \in Nat /\ a <= lost[Imu] + 1
      BY <1>2, <2>1, HeadsFirst, Zenon
    <2>3. missed + Debt <= a + foreign
      BY <2>1, Zenon DEF ReadyLoop
    <2> QED
      BY <1>2, <1>3, <2>2, <2>3
  <1> QED
    BY <1>4, <1>5, Zenon DEF MissedBounded, AtGetKey, AtReady

\* Every variable has its type, and GetKey stays inside of its packet (318-358).
THEOREM TypeCorrect == Spec => []TypeOK
  <1>1. Init => TypeOK
    BY TypeInit
  <1>2. TypeOK /\ [Next]_vars => TypeOK'
    BY TypeStep
  <1> QED
    BY <1>1, <1>2, PTL DEF Spec

\* What the two properties below rest on: the streams and the loops at their heads.
THEOREM HandshakeSafe == Spec => []HandshakeInv
  <1>1. Init => HandshakeInv
    BY InvInit
  <1>2. HandshakeInv /\ [Next]_vars => HandshakeInv'
    BY InvStep
  <1> QED
    BY <1>1, <1>2, PTL DEF Spec

\* The key is taken from one packet as it was sent, for every length of a packet
\* and whatever is lost, unless a frame of another id comes in where one is lost
\* or a whole packet's frames are lost (318-358).
THEOREM KeyIsTakenWhole == Spec => []KeyWhole
  <1>1. HandshakeInv => KeyWhole
    BY Zenon DEF HandshakeInv
  <1> QED
    BY <1>1, HandshakeSafe, PTL

\* A lost or foreign frame costs each of the loops at most one whole packet, and
\* the cut of the first filter one more (326-355, 380-404).
THEOREM LossesPayForMissed == Spec => []MissedBounded
  <1>1. HandshakeInv => MissedBounded
    BY InvMissed
  <1> QED
    BY <1>1, HandshakeSafe, PTL

=============================================================================
