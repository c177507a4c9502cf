---------------------------- MODULE MCWpaStation ----------------------------
(* TLC instance of WpaStation: a station with every setting and one with   *)
(* those every station has.                                                *)
EXTENDS WpaStation

CONSTANTS s1, s2

MCStation == {s1, s2}
MCFull == {s1}
MCKeep == {"add", "remove", "remove_all"}
MCConnect == {"add", "connect", "disconnect", "update_priority", "ping", "scan"}
=============================================================================
