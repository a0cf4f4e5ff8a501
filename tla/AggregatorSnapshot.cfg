CONSTANTS
  o1 = o1
  o2 = o2
  twin = twin
  junk = junk
  Orders = {o1}
  Drifted = {}
  Unroutable = {}
  Strays = {}
  StrayNonce <- MCStrayNonce
  Unparsable = {}
  Unprovable = {}
  EPOCH_WINDOW = 1
  MAX_PER_EPOCH = 2
  MaxEpoch = 2
  StrayEpochs = {}
  MaxPoolChanges = 1
SPECIFICATION Spec
INVARIANTS
  SnapshotsProveRoots
