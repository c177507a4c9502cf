---------------------------- MODULE MCWpaControl ----------------------------
(* TLC instance of WpaControl.                                             *)
EXTENDS WpaControl
=============================================================================
