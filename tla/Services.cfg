CONSTANTS
  GroupIds = {1, 2}
  GroupNames = {n1, n2}
  DefaultName = n1
  Codes = {k1, k2}
  NoGroup = 0
  MaxGroupErrors = 2
  MyThreads = {m1, m2, m3}
  MyConns = {mc1, mc2}
  NullEngine = NullEngine
  MaxMyDrops = 1
  SqlThreads = {d1, d2}
  SqlConns = {dc1, dc2}
  NoEngine = NoEngine
  MaxRows = 2
  MaxDbDrops = 1
  SqThreads = {s1, s2}
  SqConns = {sc1, sc2}
  SqNull = SqNull
  ConfigFiles <- MCFiles
  MaxSqDrops = 1
  BasicCodes = {b1, b2}
  MaxVersion = 1
  Sockets = {k}
  InfoCodes = {i1}
  IndexCodes <- MCIndexCodes
  NoCode = NoCode
  LogLen = 2
  MaxLogs = 3
  MaxRequests = 3
  Handles = {"h1", "h2", "h3"}
  RcThreads = {"rt1", "rt2"}
  Owner <- MCOwner
  Datas = {x1, x2}
  NoData = NoData
  AskedDates <- MCDates
  Clocks = {92459, 92500, 120000, 150000, 150001}
  Longest = 20
  ToolCodes <- MCToolCodes
  ToolNumbers = {1, 2, 3}
  ShanghaiCode = TRUE
  UintMod = 1000
  Threads = {t1}
  Notifier = t1
  Groups = {g1}
  OrderIds = {1, 2, 3}
  Prices = {10, 12}
  Nums = {50, 100}
  Deposit = 1006
  Cancels = "pending"
  MaxDbErrors = 1
  NoThread = NoThread
  NoPosition = NoPosition
  NoHolding = NoHolding
  MaxRestarts = 1
SPECIFICATION ServicesSpec
INVARIANTS
  ServicesTypeOK AddedStocksSurvive GroupNamesDiffer SlotsBounded
  OnlyUnreachableForgotten AnsweredOnce WholeLogLines FreedWithLastHandle
  TradeDaysInOrder ToolsAgree NothingLostByRestart
PROPERTIES
  KeepsMysqlConns KeepsDbPool KeepsSqlPool SnapshotIsOneQuery RequestsReturn
  RestartBacksSales
CHECK_DEADLOCK FALSE
