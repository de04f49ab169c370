SPECIFICATION Spec
CONSTANTS
  Ids = {s1, s2}
  Terminals = {t1, t2}
  Cfgs = {c1, c2}
  MaxSlaves = 2
  MaxInbox = 2
  DistinctIds = TRUE
  None = None
INVARIANTS
  TypeOK
  EverySlaveIsCopied
  WorkerHears
SYMMETRY Symmetry
