CONSTANTS
  NULL = NULL  T1 = t1  T2 = t2  B1 = b1  B2 = b2  X = x  Y = y
  Threads = {main, t1, t2, idle}  MainThread = main  IdleThread = idle
  Mutexes = {}  CondVars = {}  Objects = {b1, b2}  Mailboxes = {b1, b2}  Messages = {x, y}
  MinPrio = 1  MainPrio = 1  MaxSuspend = 1  Slots = 2  Modulus = 4  Receivers <- Two
SPECIFICATION MCSpec
INVARIANT PendingWithinCount
