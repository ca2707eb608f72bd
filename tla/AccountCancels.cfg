CONSTANTS
  ShanghaiCode = TRUE
  UintMod = 1000
  Threads = {t1, t2}
  Notifier = t1
  Groups = {g1, g2}
  OrderIds = {1, 2, 3}
  Prices = {10, 12}
  Nums = {100}
  Deposit = 2012
  Cancels = "pending"
  MaxDbErrors = 0
  NoThread = NoThread
  NoPosition = NoPosition
SPECIFICATION Spec
INVARIANTS CancelFindsPosition
SYMMETRY Symmetry
CHECK_DEADLOCK FALSE
