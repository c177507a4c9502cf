----------------------------- MODULE MCCanLink -----------------------------
(* TLC instance of CanSetup: a process that uses the whole library, and one *)
(* that sets the device up: InitIMUCan, the loopback test or a tool.       *)
EXTENDS CanSetup

CONSTANTS tool, imu

Op(name, args) == [op : {name}, arg : args]

MCClient    == {tool, imu}
MCBittiming == {1, 2}
MCRestartMs == {0, 1}
MCDrivers   == {Attr, Attr \ {"berr_counter"}, {}}
MCMaxLeak   == [c \in MCClient |-> IF c = imu THEN 1 ELSE 0]
MCCalls     ==
  [c \in MCClient |->
     IF c = imu
     THEN Op("InitIMUCan", {None}) \cup Op("main", {2})
     ELSE Op("can_do_start", {None}) \cup Op("can_do_stop", {None}) \cup Op("can_do_restart", {None})
          \cup Op("can_set_bitrate", {2}) \cup Op("can_set_restart_ms", {0, 1})
          \cup Op("can_set_ctrlmode", {1}) \cup Op("can_get_state", {None}) \cup Op("can_get_device_stats", {None})
          \cup Op("can_get_berr_counter", {None})]
MCRuns      ==
  [c \in MCClient |->
     IF c = imu
     THEN Op("can-setup --up", {None}) \cup Op("can-setup --bitrate", {0, 2})
          \cup Op("can_scoket3 down", {None})
     ELSE {}]
=============================================================================
