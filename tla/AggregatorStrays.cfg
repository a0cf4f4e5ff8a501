CONSTANTS
  o1 = o1
  o2 = o2
  twin = twin
  junk = junk
  Orders = {o1, o2}
  Drifted = {}
  Unroutable = {o2}
  Strays = {twin, junk}
  StrayNonce <- MCStrayNonce
  Unparsable = {junk}
  Unprovable <- MCUnprovable
  EPOCH_WINDOW = 1
  MAX_PER_EPOCH = 2
  MaxEpoch = 2
  StrayEpochs = {1}
  MaxPoolChanges = 0
SPECIFICATION Spec
INVARIANTS
  TypeOK
  OwnRootsHaveSnapshots
  CompleteEpochsAreNotRolled
PROPERTIES
  MatchingRevealsSurvive
  ExpiredEpochsEnd
