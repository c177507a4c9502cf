--------------------------- MODULE MCImuHandshake ---------------------------
(* TLC instance of ImuHandshake: key packets of three frames and IMU        *)
(* packets of three (head, data, tail); the values are in ImuHandshake.cfg. *)
EXTENDS ImuHandshake
=============================================================================
