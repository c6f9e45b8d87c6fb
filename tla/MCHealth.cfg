SPECIFICATION FairSpec
CONSTANTS
  Namespaces = {1, 2}
  Keys = {1, 2, 3}
  Given <- MCGiven
  Later <- MCLater
  Broken <- MCBroken
  Repairs = {1}
  Workers = {w1, w2}
  None = None
  PageSize = 2
  MaxScans = 2
  MaxScanFaults = 1
  Days = {1, 2, 3}
  Calendar <- MCCalendar
  Reported = {}
  Partial = TRUE
  Full = 1
  MaxQueued = 1
  MaxRecoveryFaults = 2
INVARIANT ScanKeepsUp
 
CHECK_DEADLOCK FALSE
