SPECIFICATION Spec
CONSTANTS
  SizingConfigs <- MCConfigs
  Infos <- MCDecimalInfos
  MasterVolumes <- MCVolumes
  Balances <- MCBalances
CHECK_DEADLOCK FALSE
INVARIANTS
  LargestAllowedFit
  LotWithinGridCap
  ScalingIsMonotone
  SplitIsRight
