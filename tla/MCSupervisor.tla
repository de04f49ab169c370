---------------------------- MODULE MCSupervisor ----------------------------
(* Small instances of Supervisor; times are in units.                      *)
EXTENDS Supervisor
=============================================================================
