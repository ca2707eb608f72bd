CONSTANTS
  r1 = r1
  r2 = r2
  w1 = w1
  w2 = w2
  Clients = {c1}
  Worker = worker
  ReadEngines <- TwoReads
  WriteEngines <- TwoWrites
  Jobs = {j1, j2}
  MaxCalls = 5
  MaxDrops = 1
  NoThread = NoThread
  NoEngine = NoEngine
  NoJob = NoJob
SPECIFICATION FairSpec
INVARIANT SemCountsEngines
PROPERTIES CallsReturn JobsFinish
CHECK_DEADLOCK FALSE
