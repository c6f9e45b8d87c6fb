SPECIFICATION CollectorSpec
CONSTANTS
  None = None
  Missing = Missing
  Horizon = 10
  Window <- MCWindow
  Batch <- MCBatch
  Reach = 0
  PlanSteps = 3
  IndexRows <- MCIndexRows
  Jobs = {j1}
  Children = {c1}
  Runners = {r1}
  OverlapRunners = {r1, r2}
  Pages <- FeedPages
  Cfg <- Plain
  Listed <- MCListed
  Errors = {"access", "rejected", "other"}
  Bodies = {"rows", "bad"}
  Day0 = 9
  LastDay = 9
  MaxRetries = 3
  MaxCommands = 3
  MaxCrash = 1
  Overrun = FALSE
  Catalogues <- MCCatalogues
  Expires = {}
  MaxFrames = 3
  MaxFeedFaults = 1
  MaxCredential = 1
 
INVARIANT OutcomesBacked
INVARIANT FramesAccounted
PROPERTY PauseHolds
PROPERTY PlanFollowed
CHECK_DEADLOCK FALSE
