CONSTANTS
  Tasks = {a, b}  Half = 4  MaxDec = 1  Delays = {0, 2}  Periods = {0, 1}  MaxLag = 1
SPECIFICATION CarefulSpec
INVARIANTS TickInv TargetsSorted DecrementerCovers
