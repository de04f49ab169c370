SPECIFICATION Spec
CONSTANTS
  Tickets = {1, 2}
  MasterVolumes = {1, 3}
  Levels = {0}
  Info <- MCInfo
  Hedging = TRUE
  RetryCount = 2
  OpenResults = {"done", "partial", "rejected"}
  CloseResults = {"done", "rejected"}
  ModifyResults = {"done"}
  LostOn = {}
  ScansFail = FALSE
  Mangled = {1}
  Restarts = {"worker"}
  EarlyLoss = FALSE
  MaxLegs = 4
  None = None
INVARIANTS
  FillIsTrue
  CloseLeavesNothing
  NeverClosesMoreThanMaster
