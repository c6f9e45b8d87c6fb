SPECIFICATION FairSpec
CONSTANTS
  Executions = {e1, e2}
  Servers = {s1}
  Unbounded = {}
  ReleaseAnyTime = FALSE
  LostReplies = {"cancel", "start", "finish"}
  NoInventory = NoInventory
  MaxWrites = 2
  MaxCommandFaults = 2
  MaxKills = 1
  MaxRuns = 2
  Objects = {1, 2}
  PageSize = 1
  CopyRequests = {1, 2}
  Absent = Absent
  MaxSourceWrites = 3
  MaxLocal = 1
  MaxCopyFaults = 1
  Revisions = {1, 2, 3, 4}
  WithLive = {2, 3, 4}
  Broken = {3}
  NoRelease = NoRelease
  MaxRunFaults = 2
  id1 = id1
  c1 = c1
  c2 = c2
  Masters <- MCMasters
  Refreshers = {m1, m2}
  Requests = {r1, r2}
  Pages = {1, 2}
  Nothing = Nothing
  MaxAsks = 3
  MaxFaults = 1
INVARIANT HandoverSafe
INVARIANT DirectorySound
INVARIANT RunsWhatItRecords
PROPERTY ArchiveSound
PROPERTY MovesEnd
CHECK_DEADLOCK FALSE
