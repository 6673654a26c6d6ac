SPECIFICATION StoreSpec
CONSTANTS
  live = live
  mock = mock
  vehicle = vehicle
  dashboard = dashboard
  Object = {live, mock}
  Process = {vehicle, dashboard}
  MinTxns = 2
  MinAge = 1
  StaleAfter = 0
  MaxClock = 2
  MaxTxns = 2
  MaxHistories = 2
INVARIANTS
  LostOnlyBySharing
  MatureIsEarned
PROPERTIES
  EpochMoves
SYMMETRY Swaps
