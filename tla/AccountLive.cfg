CONSTANTS
  ShanghaiCode = TRUE
  UintMod = 1000
  Threads = {t1, t2}
  Notifier = t1
  Groups = {g1}
  OrderIds = {1, 2}
  Prices = {10, 12}
  Nums = {100}
  Deposit = 3012
  Cancels = "none"
  MaxDbErrors = 0
  NoThread = NoThread
  NoPosition = NoPosition
SPECIFICATION FairSpec
PROPERTIES DealsAreBooked
CHECK_DEADLOCK FALSE
