SPECIFICATION FairSpec
CONSTANTS
  Clients = {c1, c2}
  MaxStarts = 3
INVARIANTS
  OneServer
PROPERTIES
  ClientAnswered
CHECK_DEADLOCK FALSE
