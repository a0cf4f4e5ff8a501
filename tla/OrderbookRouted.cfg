SPECIFICATION Spec
CONSTANTS
  o1 = o1
  o2 = o2
  o3 = o3
  Orders = {o1, o2, o3}
  Makers <- MCMakers
  Note <- RoutedNote
  Tokens = {1, 2, 3}
  InitialPools <- MCPools
  Callers = {agg}
  Prices = {1, 2}
  Swaps <- RoutedSwaps
  Payouts = {0, 1}
  EPOCH_LENGTH = 2
  CLEAR_GRACE_BLOCKS = 1
  MAX_ORDERS_PER_EPOCH = 3
  MAX_ORDERS_PER_BULK = 2
  MAX_ACTIVE_POOLS_PER_EPOCH = 2
  MAX_NUM_POOLS = 2
  MAX_U128 = 5
  MaxBlock = 5
  MaxEpochId = 2
  MaxAnchorAge = 2
PROPERTY
  ImplementsLedger
