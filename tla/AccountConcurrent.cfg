CONSTANTS
  ShanghaiCode = TRUE
  UintMod = 1000
  Threads = {t1, t2}
  Notifier = t1
  Groups = {g1}
  OrderIds = {1, 2, 3}
  Prices = {10, 12}
  Nums = {100, 200}
  Deposit = 3012
  Cancels = "none"
  MaxDbErrors = 1
  NoThread = NoThread
  NoPosition = NoPosition
SPECIFICATION Spec
INVARIANTS TypeOK NeverInDebt FrozenIsHeld ReleasedOnce SalesCovered
PROPERTIES OnlyEmptySalesThrow KeepsLedger
CHECK_DEADLOCK FALSE
