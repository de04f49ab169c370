SPECIFICATION FairSpec
CONSTANTS
  Tickets = {1}
  MasterVolumes = {1, 2, 4}
  Levels = {0, 1}
  Info <- MCInfo
  Hedging = TRUE
  RetryCount = 2
  OpenResults = {"done", "rejected"}
  CloseResults = {"done", "rejected", "no_tick"}
  ModifyResults = {"done", "rejected", "no_tick"}
  LostOn = {"MODIFY", "CLOSE"}
  ScansFail = FALSE
  Mangled = {}
  Restarts = {"worker", "app"}
  EarlyLoss = FALSE
  MaxLegs = 4
  None = None
INVARIANTS
  TypeOK
  NeverOverfills
  CloseLeavesNothing
  ModifyReachesEveryLeg
  PartialKeepsProportion
  NeverClosesMoreThanMaster
PROPERTY
  CommandIsAnswered
