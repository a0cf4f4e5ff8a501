SPECIFICATION Spec
CONSTANTS
  o1 = o1
  o2 = o2
  o3 = o3
  Orders = {o1, o2, o3}
  Makers <- MCMakers
  Note <- MCNote
  Tokens = {1, 2}
  InitialPools <- MCPools
  Callers = {agg}
  Prices = {1, 2}
  Swaps <- MCSwaps
  Payouts = {0, 1, 2}
  EPOCH_LENGTH = 2
  CLEAR_GRACE_BLOCKS = 1
  MAX_ORDERS_PER_EPOCH = 2
  MAX_ORDERS_PER_BULK = 2
  MAX_ACTIVE_POOLS_PER_EPOCH = 1
  MAX_NUM_POOLS = 1
  MAX_U128 = 5
  MaxBlock = 5
  MaxEpochId = 2
  MaxAnchorAge = 2
INVARIANTS
  CancelOfEpochOrderFolds
