CONSTANTS
  NULL = NULL  T1 = t1  T2 = t2
  Threads = {main, t1, t2, idle}  MainThread = main  IdleThread = idle
  Mutexes = {}  CondVars = {}  Objects = {s1, s2}  Sems = {s1, s2}
  MinPrio = 1  MainPrio = 1  MaxSuspend = 1  MaxCount = 1
SPECIFICATION MCSpec
INVARIANTS IInv SemInv CountMatchesWaiters
PROPERTY IsSemaphore
