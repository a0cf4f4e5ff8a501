SPECIFICATION Spec
CONSTANTS
  Wallets = {w1}
  NoteIds = {n1}
  Nonces = {1}
  NUM_BUCKETS = 1
  Amounts = {0, 3}
  Deltas <- MCDeltas0
  Flows = {0}
  SqrtPrices = {2}
  Accounts = {admin}
  Admin = admin
  p_min_sqrt = 2
  bucket_growth_num = 4
  SCALE = 2
  MAX_ACTIVE_BUCKETS_PER_EPOCH = 0
  MAX_U128 = 15
  MaxClearings = 0
INVARIANTS
  OverflowIsSafe
