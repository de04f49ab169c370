SPECIFICATION FairSpec
CONSTANTS
  MaxVersion = 1
  Downloads = {d1, d2}
  MaxDelays = 1
  AutoCopy = FALSE
  Window = TRUE
  CliWhileUp = FALSE
  Torn = Torn
  None = None
INVARIANTS
  TypeOK
  CachedIsWhole
PROPERTIES
  AutoOncePerVersion
  ComesBack
  NewerIsOffered
