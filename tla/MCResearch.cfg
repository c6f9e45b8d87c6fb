SPECIFICATION StudySpec
CONSTANTS
  Missing = Missing
  Callers = {c1, c2}
  PerMinute = 2
  MaxAge = 1
  Tabs <- TabNames
  MaxRetries = 2
  LastInstant = 3
  Days = {1, 2}
  Holidays = {}
  DayMinutes = 2
  Averages = {2, 3}
  Smoothing = 2
  NoValue = NoValue
  Jobs = {j1, j2}
  Pages = {p1, p2}
  Fresh = 2
  Recent = 2
  IndexKept = 1
  MaxFetches = 2
  Undefined = Undefined
  SignalStart = 1
  SignalEnd = 5
  SignalCooldown = 1
  StrikeInterval = 50
  AtmRange = 1
  PcrLookback = 2
  PcrFlatBand = 2
  PriceLookback = 2
  MinimumScore = 70
  ReversalDelta = 300
  DayLength = 100
  TargetPoints = 12
  StopPoints = 20
  MinimumDays = 2
  MinimumSnapshots = 4
  NearPoints = 10
SYMMETRY Symmetry
INVARIANT RoomSound
INVARIANT EvidenceSound
 
CHECK_DEADLOCK FALSE
