SPECIFICATION Spec
CHECK_DEADLOCK FALSE
CONSTANTS
  Payments <- MCPayments
  StepUpRetries = 2
  OtpMaxTries = 3
  MaxCalls <- MCMaxCalls
  MaxReports = 1
INVARIANT ReuseSeesReports
