CONSTANTS
  r1 = r1
  r2 = r2
  w1 = w1
  w2 = w2
  Clients = {c1, c2}
  Worker = worker
  ReadEngines <- OneRead
  WriteEngines <- TwoWrites
  Jobs = {j1, j2}
  MaxCalls = 2
  MaxDrops = 1
  NoThread = NoThread
  NoEngine = NoEngine
  NoJob = NoJob
SPECIFICATION Spec
INVARIANTS TypeOK EnginesConserved TasksAreQueued JobsInOrder
CHECK_DEADLOCK FALSE
