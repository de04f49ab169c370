---------------------------- MODULE MCSlaveWorker ----------------------------
(* Small instances of SlaveWorker: symbols whose orders are split above 2, *)
(* above 4 and above 8 lot units.                                          *)
EXTENDS SlaveWorker

MaxVolume(v) == [volume_step |-> 1, volume_min |-> 1, volume_max |-> v]

MCInfo       == MaxVolume(2)
MCInfoSplit4 == MaxVolume(4)
MCInfoWide   == MaxVolume(8)
=============================================================================
