SPECIFICATION FairSpec
CONSTANTS
  Owners = {p1, p2}
  Nobody = Nobody
  BatchSize = 2
  MaxEvents = 3
  MaxTickFaults = 3
  None = None
  Saved = {0}
  Calendar = TRUE
  MaxAttempts = 2
  LastMinute = 3
  MaxFaults = 1
  j1 = j1
  Workers = {w1, w2}
  Bars = {c}
  Versions = {old}
  Attempts = 2
  MaxMessages = 1
  MaxDisturbances = 3
INVARIANT TicksSafe
PROPERTY LiveMoves
PROPERTY JobsSettle
CHECK_DEADLOCK FALSE
