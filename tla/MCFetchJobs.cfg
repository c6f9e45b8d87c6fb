SPECIFICATION Spec
CONSTANTS
  Workers = {w1, w2}
  Jobs = {j1, j2}
  Candles = {c}
  Versions = {old, new}
  Covers <- SharedWindow
  MaxAttempts = 2
  MaxMessages = 1
  MaxDisturbances = 2
SYMMETRY FetchSymmetry
INVARIANT ReceiptsSound
PROPERTY NothingUndone
PROPERTY SavedUnderIdentity
CHECK_DEADLOCK FALSE
