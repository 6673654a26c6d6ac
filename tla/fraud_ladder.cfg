SPECIFICATION FairSpec
CONSTANTS
  Instances <- MCInstances
  Drivers <- MCDrivers
  DriverOf <- MCDriverOf
  Window = 2
  CleanStreak = 2
  MaxTime = 2
  MaxReports = 2
INVARIANTS
  TypeOK
  LockIffTwoConfirmed
  NeverUnderstated
  FraudIsEarned
PROPERTIES
  LockedOnlyLeavesByReset
  StateMovesAsPromised
  Relaxation
