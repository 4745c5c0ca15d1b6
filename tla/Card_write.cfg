CONSTANTS
  Parts = {"sound"}
  NULL = NULL
SPECIFICATION LongSpec
INVARIANT WritesGivenLength
CHECK_DEADLOCK FALSE
