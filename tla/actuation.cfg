SPECIFICATION FairSpec
CONSTANT Timeout = 2
INVARIANTS
  TypeOK
  NoStaleClose
PROPERTIES
  StaleOpens
