CONSTANTS
  Parts = {"sound", "faulty", "format"}
  NULL = NULL
SPECIFICATION Spec
INVARIANTS CardConsistent Acknowledged
PROPERTIES IsFileStore
CHECK_DEADLOCK FALSE
