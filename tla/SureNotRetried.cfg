\* AsyncRunner alone, for what its comment says of SurePost.
SPECIFICATION Spec
CONSTANTS
  Parts = {"async"}
  None = None
  a1 = a1  a2 = a2  b1 = b1  b2 = b2  c1 = c1  c2 = c2  c3 = c3
CHECK_DEADLOCK FALSE
INVARIANTS
  SureRetries
