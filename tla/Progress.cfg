CONSTANTS
  Parts = {"tick", "arq", "card"}
  NULL = NULL  r1 = r1  r2 = r2
SPECIFICATION Spec
PROPERTIES OneShotFires TransferReturns CardReturns
CHECK_DEADLOCK FALSE
