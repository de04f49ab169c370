SPECIFICATION Spec
CONSTANTS
  Slaves = {s1}
  Master = master
  Grace = 2
  Stale = 1
  Failures = 2
  BaseBackoff = 1
  MaxBackoff = 2
  Heartbeat = 1
  StartTimeout = 2
  JoinTimesOut = FALSE
  MaxPipe = 1
  MaxRestarts = 1
  None = None
INVARIANTS
  TypeOK
  GraceIsKept
  NoWorkerSurvivesStop
