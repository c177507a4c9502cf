---------------------------- MODULE MCSafePools -----------------------------
(* TLC instances of SafePools: lists of three entries, two addresses.     *)
EXTENDS SafePools, TLC

CONSTANTS a1, a2

MCAddr == {a1, a2}
MCSymmetry == Permutations(MCAddr)
=============================================================================
