CONSTANTS
  Plans = {1}
  SplitInto = 2
  Requests <- MCRequests
  MaxProcesses = 2
  MaxTime = 1
  MaxExits = 6
  MaxFaults = 1
  MaxOverlaps = 1
SPECIFICATION Spec
INVARIANTS
  TypeOK
  SubmittedLegsAreBurned
  DonePlansArePaid
  ExtraExitsHaveACause
PROPERTIES
  StatusOnlyAdvances
  PublicLegsArePaid
