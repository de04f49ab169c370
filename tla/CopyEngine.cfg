SPECIFICATION Spec
CONSTANTS
  eur = eur
  gold = gold
  None = None
  Slaves = {s1}
  Tickets = {1}
  Symbols <- MCSymbols
  SymbolOf <- MCSymbolOf
  OpenTime <- MCOpenTime
  Volumes = {1, 2}
  Levels = {0, 1}
  SlaveTickets = {11, 12}
  Times = {1, 3}
  Configs <- MCThreeConfigs
  InfoOf <- MCInfoOf
  Balances = {0}
  Fills = {1}
INVARIANTS
  TypeOK
  OneCommandPerTicket
  CommandMatchesRecord
  MarkerHasMaster
  HeldIsLatest
  NoStuckHold
PROPERTY
  ImplementsCopyLink
