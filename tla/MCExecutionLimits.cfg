SPECIFICATION FairSpec
CONSTANTS
  Signals = {s1}
  Quantity = 1
  MaxOpenPositions = 2
  MaxTradesPerDay = 1
  MaxDailyLoss = 1
  PnlAmounts <- LossThenProfit
  AmbiguousErrors = FALSE
  MaxDay = 2
  MaxRestarts = 1
  MaxJournalFailures = 1
  MaxPnlRecords = 2
CHECK_DEADLOCK FALSE
 
PROPERTY AttemptsEnd
