SPECIFICATION Spec
CONSTANTS
  eur = eur
  gold = gold
  None = None
  Slaves = {s1}
  Tickets = {1}
  Symbols <- MCSymbols
  SymbolOf <- MCSymbolOf
  OpenTime <- MCOpenTime
  Volumes = {1}
  Levels = {0, 1}
  SlaveTickets = {11}
  Times = {1}
  Configs <- MCOneConfig
  InfoOf <- MCInfoOf
  Balances = {0}
  Fills = {1}
PROPERTY
  HeldTradeIsCopied
