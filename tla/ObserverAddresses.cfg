CONSTANTS
  MaxListed = 3
  NoHandler = NoHandler
SPECIFICATION ObserversSpec
INVARIANT CallbacksAreTheirOrders
CHECK_DEADLOCK FALSE
