CONSTANTS
  SCALE = 10000
  TWO_POW_64 = 32768
  FEE_BPS = 30
  FEE_SCALE = 10000
  MAX_BUCKET_HOPS = 4
  MAX_ORDERS_PER_EPOCH = 3
  PRICE_BAND = 10
  TOLERANCE = 0
  MAX_ITERS = 24
  MIN_FILL_AMOUNT_IN = 100
  Grid <- MCGrid
  PoolIds = {1, 2}
  Launches <- EdgeLaunches
  Deposits <- MCDeposits
  OrderBook <- LargeOrders
  MaxOrders = 2
  MaxEpochs = 1
  MaxDeposits = 0
SPECIFICATION Spec
INVARIANTS
  FillsRespectLimits
CHECK_DEADLOCK FALSE
