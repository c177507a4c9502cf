------------------------------ MODULE MCImuBus ------------------------------
(* TLC instances of ImuBus: two-frame records on a bus with frame loss.     *)
EXTENDS ImuBus

CONSTANTS r1

MCPkt      == 1 .. MaxPkt
MCReader   == {r1}
MCDataCell == [pkt : MCPkt, part : Part, unit : BOOLEAN]
MCNoise    == {"head", "tail8"}
=============================================================================
