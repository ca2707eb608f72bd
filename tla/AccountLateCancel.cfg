CONSTANTS
  ShanghaiCode = TRUE
  UintMod = 1000
  Threads = {t1}
  Notifier = t1
  Groups = {g1}
  OrderIds = {1, 2}
  Prices = {10, 12}
  Nums = {100, 200}
  Deposit = 3012
  Cancels = "any"
  MaxDbErrors = 0
  NoThread = NoThread
  NoPosition = NoPosition
SPECIFICATION Spec
INVARIANTS FrozenIsHeld
CHECK_DEADLOCK FALSE
