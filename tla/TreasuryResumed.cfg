CONSTANTS
  Accounts = {a1, a2}
  ZERO = zero
  EndpointHashes = {h1}
  bond_amount = 2
  MAX_U32 = 4
  MAX_U128 = 6
  Amounts = {1, 2}
  aggregator_fee = 2
  TREASURY_SEED = 2
  CrashAfter = {"seed"}
  MAX_PENDING_RELAYER_CLAIMS = 3
  MAX_PENDING_PER_SENDER = 2
  MaxClaimId = 4
SYMMETRY AccountSymmetry
SPECIFICATION Spec
INVARIANT
  PayNeverReverts
CHECK_DEADLOCK FALSE
