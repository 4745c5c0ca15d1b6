CONSTANTS
  Parts = {"id"}
  NULL = NULL  r1 = r1  r2 = r2  r3 = r3
SPECIFICATION Spec
PROPERTY GetIDNotStale
CHECK_DEADLOCK FALSE
