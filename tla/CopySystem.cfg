SPECIFICATION SysFairSpec
CONSTANTS
  eur = eur
  gold = gold
  None = None
  Slaves = {s1}
  Tickets = {1}
  Symbols <- MCSymbols
  SymbolOf <- MCSymbolOf
  OpenTime <- MCOpenTime
  Volumes = {1, 2}
  Levels = {0, 1}
  SlaveTickets = {11, 12}
  Times = {1}
  Configs <- MCOneConfig
  InfoOf <- MCInfoOf
  Balances = {0}
  Fills = {1, 2}
  MaxSnapshots = 1
  MaxCrashes = 2
  Reports <- MCReports
  Failing = {"OPEN", "MODIFY", "CLOSE"}
  EarlyLoss = FALSE
  Glitches = FALSE
INVARIANTS
  NoDuplicates
  ClosesOnlyClosed
PROPERTIES
  ClosedIsClosed
  SlTpFollows
  EngineIsDriven
