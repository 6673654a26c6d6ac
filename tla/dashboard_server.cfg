SPECIFICATION Spec
CONSTANTS
  Manuals = {m1, m2}
  Objects = {o1, o2, o3, o4}
  None = None
  MaxRequests = 3
SYMMETRY ServerSymmetry
INVARIANTS
  OwnInputs
  OneAuditWriter
CHECK_DEADLOCK FALSE
