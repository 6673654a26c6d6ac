SPECIFICATION Spec
CONSTANTS
  Writers = {w1, w2}
  MaxEntries = 5
INVARIANTS
  TypeOK
  OrderlyVerifies
  DamageBounded
PROPERTIES
  BrokenStaysBroken
