SPECIFICATION SharedSpec
CONSTANTS
  i1 = i1
  i2 = i2
  i3 = i3
  byHand = byHand
  past = past
  Families = {"daily"}
  Catalogues <- MCCatalogues
  Core = {i1}
  Cash = {i1, i3}
  Traded = {i1, i2, i3}
  Sweeps = {"quotes"}
  Starts <- MCStarts
  Weekend = {5}
  Begin = 1
  Lead = 1
  Overlap = 1
  Span = 2
  EquitySpan = 2
  Slack = 1
  Unset = Unset
  Pausable = {"earlier"}
  FirstDay = 6
  LastDay = 8
  MaxAborts = 1
  MaxCommands = 1
  Callers = {p1, p2}
  Endpoints = {"chain", "history"}
  Spacing <- MCSpacing
  GlobalSpacing = 1
  Cooldown = 2
  Guard = 2
  DayLength = 4
  Tries = 2
  MaxNow = 5
  MaxCalls = 3
  MaxStoreFaults = 1
  Handlers = {r1, r2}
  TradeIds = {t1, t2}
  Risks <- MCRisks
  Exits <- MCExits
  MaxLots = 2
  MaxTrades = 2
  MaxPosts = 4
  MaxDays = 2
SYMMETRY Symmetry
INVARIANT EveryDayRequested
INVARIANT NothingForgotten
INVARIANT BudgetHolds
INVARIANT LedgerHolds
CHECK_DEADLOCK FALSE
