CONSTANTS
  UintMod = 64
  Prices = {1, 2, 3}
  LotSizes = {1, 2}
  MaxLots = 3
  MaxSales = 3
SPECIFICATION Spec
INVARIANT ProfitIsOfSharesSold
CHECK_DEADLOCK FALSE
