SPECIFICATION FairSpec
CONSTANTS
  Slaves = {}
  Master = master
  Grace = 3
  Stale = 1
  Failures = 3
  BaseBackoff = 1
  MaxBackoff = 4
  Heartbeat = 1
  StartTimeout = 1
  JoinTimesOut = FALSE
  MaxPipe = 1
  MaxRestarts = 3
  None = None
INVARIANT
  StormIsThrottled
PROPERTY
  DownComesBack
