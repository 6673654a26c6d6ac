SPECIFICATION FairSpec
CHECK_DEADLOCK FALSE
CONSTANTS
  Payments <- MCPayments
  StepUpRetries = 2
  OtpMaxTries = 3
  MaxCalls <- MCMaxCalls
  MaxReports = 1
INVARIANTS
  TypeOK
  ReuseIsSound
  AttemptsBounded
  ChallengeIsForPending
  LockStopsPayments
PROPERTIES
  StepUpEnds
