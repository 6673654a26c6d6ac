SPECIFICATION OtpSpec
CONSTANTS
  Probes = {p1, p2}
  LadderTries = 1
  MaxCodes = 3
  MaxAir = 2
INVARIANTS
  LaneInOrder
CHECK_DEADLOCK FALSE
