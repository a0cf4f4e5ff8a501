SPECIFICATION Spec
CONSTANTS
  Wallets = {w1}
  NoteIds = {n1, n2}
  Nonces = {0, 1}
  NUM_BUCKETS = 2
  Amounts = {0, 1, 2}
  Deltas <- MCDeltas
  Flows = {0, 1, 2, 3}
  SqrtPrices = {3, 4}
  Accounts = {admin, orderbook}
  Admin = admin
  p_min_sqrt = 2
  bucket_growth_num = 4
  SCALE = 2
  MAX_ACTIVE_BUCKETS_PER_EPOCH = 2
  MAX_U128 = 1000
  MaxClearings = 2
SYMMETRY Symmetry
INVARIANTS
  TypeOK
  Backed
  ShortfallIsDust
  EveryPositionCanLeave
