CONSTANTS
  Threads = {main, t1, t2, t3, idle}
  MainThread = main  IdleThread = idle  T1 = t1  T2 = t2  M1 = m1  M2 = m2
  Mutexes = {m1, m2}  CondVars = {}  Objects = {}
  NULL = NULL
  MinPrio = 3  MainPrio = 3  MaxSuspend = 1
  Scenarios = {"inherit", "yield", "settle"}
SPECIFICATION LiveSpec
PROPERTIES InheritanceUnblocks YieldRotates KernelTerminates
CHECK_DEADLOCK FALSE
