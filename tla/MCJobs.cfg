SPECIFICATION JobsSpec
CONSTANTS
  Sources = {1, 2}
  Priority = {1}
  Keys = {1, 2}
  Class <- Classes
  PageSize = 2
  MaxQueued = 2
  MaxActive = 1
  MaxFaults = 1
  MaxCommands = 1
  Jobs = {j1}
  System = System
  Requests = {q1}
  Executions = {e1, e2}
  None = None
  MaxWorkerCommands = 2
  MaxWorkerFaults = 1
 
INVARIANT NoWorkStranded
PROPERTY EveryoneServed
CHECK_DEADLOCK FALSE
