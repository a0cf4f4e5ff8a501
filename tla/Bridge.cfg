CONSTANTS
  Depositors = {d1}
  SecretHashes = {h1}
  L2Tokens = {t1, t2}
  ZERO = zero
  Amounts = {1}
  Caps = {0}
  MAX_U128 = 2
  RECOVERY_WAIT = 1
  APPROVAL_TTL = 0
  MaxTime = 2
  MaxVersion = 2
  MaxMessages = 2
  MaxExits = 1
  MaxExtra = 1
SYMMETRY DepositorSymmetry
SPECIFICATION Spec
INVARIANTS
  TypeOK
  EveryDepositIsRecoverable
  RefundsWait
  RefundsAreFresh
  RotationKeepsExits
PROPERTIES
  ImplementsLedger
CHECK_DEADLOCK FALSE
