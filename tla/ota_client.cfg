SPECIFICATION OtaSpec
CONSTANTS
  Versions = {"v1", "v2", "v3"}
  Healthy = {"v1", "v2"}
INVARIANTS
  OtaTypeOK
  CurrentIsWhole
  RollbackRestores
  OldVersionKept
