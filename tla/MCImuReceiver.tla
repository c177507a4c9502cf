--------------------------- MODULE MCImuReceiver ---------------------------
(* TLC instance of ImuReceiver: a ring of MaxImu records of two frames.    *)
EXTENDS ImuReceiver

CONSTANTS p1, r1, r2

MCPkt      == {p1}
MCReader   == {r1, r2}
MCDataCell == [pkt : {p1}, part : {0}, unit : BOOLEAN]
=============================================================================
