SPECIFICATION Spec
CONSTANTS
  Wallets = {w1, w2}
  NoteIds = {n1, n2}
  Nonces = {1}
  NUM_BUCKETS = 1
  Amounts = {0, 2}
  Deltas <- MCStaleDeltas
  Flows = {0, 1, 2, 3}
  SqrtPrices = {2, 4}
  Accounts = {admin}
  Admin = admin
  p_min_sqrt = 2
  bucket_growth_num = 4
  SCALE = 2
  MAX_ACTIVE_BUCKETS_PER_EPOCH = 1
  MAX_U128 = 1000
  MaxClearings = 2
SYMMETRY Symmetry
PROPERTIES
  NoFeesBeforeDeposit
  WithdrawalsAreFair
