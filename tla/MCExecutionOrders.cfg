SPECIFICATION Spec
CONSTANTS
  Signals = {s1, s2}
  Quantity = 2
  MaxOpenPositions = 1
  MaxTradesPerDay = 2
  MaxDailyLoss = 1
  PnlAmounts <- NoAmounts
  AmbiguousErrors = FALSE
  MaxDay = 2
  MaxRestarts = 2
  MaxJournalFailures = 1
  MaxPnlRecords = 0
SYMMETRY SignalSymmetry
INVARIANT TypeOK
INVARIANT SlotRetained
INVARIANT RealExposureBounded
INVARIANT RestartSafe
INVARIANT AtMostOnce
PROPERTY ImplementsLedger
CHECK_DEADLOCK FALSE
