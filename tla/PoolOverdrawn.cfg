CONSTANTS
  r1 = r1
  r2 = r2
  w1 = w1
  w2 = w2
  Clients = {c1, c2}
  Worker = worker
  ReadEngines <- OneRead
  WriteEngines <- OneWrite
  Jobs = {j1}
  MaxCalls = 1
  MaxDrops = 0
  NoThread = NoThread
  NoEngine = NoEngine
  NoJob = NoJob
SPECIFICATION Spec
INVARIANT SemCountsEngines
CHECK_DEADLOCK FALSE
