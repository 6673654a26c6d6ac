SPECIFICATION Spec
CONSTANTS
  upload = upload
  other = other
  Request = {upload, other}
INVARIANTS
  ConsentKept
  
SYMMETRY Swap
