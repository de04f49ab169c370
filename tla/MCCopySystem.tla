---------------------------- MODULE MCCopySystem ----------------------------
(* Small instances of CopySystem, with the constants of MCCopyEngine.      *)
EXTENDS CopySystem, MCCopyEngine

(* eur is a row of the map, or the result of a regex row.                  *)
MCReports == {{}, {eur}}
=============================================================================
