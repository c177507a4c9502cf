------------------------------ MODULE MCIHeap -------------------------------
(* TLC instance of IHeap: two data bytes per entry, so that a block of one   *)
(* byte has a guard byte and a block of two has none.                        *)
EXTENDS IHeap

MCSmallLen == {1, 2}
MCBigPos   == {-1, 1, 2}
=============================================================================
