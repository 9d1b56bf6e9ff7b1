-------------------------- MODULE MCMonitorSettings --------------------------
(* Small instances of MonitorSettings for TLC. *)
EXTENDS MonitorSettings
=============================================================================
