SPECIFICATION FairSpec
CONSTANTS
  i1 = i1
  None = None
  Identities = {i1}
  Intervals = {"1d", "1"}
  Rank <- OneRank
  Expiry <- ExpiresOn5
  Weekend = {4}
  Closed = {}
  Unverified = {5}
  FirstDay = 2
  StartDay = 4
  Horizon = 2
  Week = 2
  Older = 2
  MaxAttempts = 1
  QueueBound = 1
  LastDay = 5
  Windows <- OneWindow
  MaxTokens = 2
  MaxDisturbances = 2
INVARIANT CursorsBacked
PROPERTY SeriesMove
CHECK_DEADLOCK FALSE
