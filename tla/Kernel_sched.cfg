CONSTANTS
  Threads = {main, t1, t2, idle}
  MainThread = main  IdleThread = idle  T1 = t1  T2 = t2  M1 = m1  M2 = m2
  Mutexes = {m1, m2}  CondVars = {c1}  Objects = {}
  NULL = NULL
  MinPrio = 1  MainPrio = 1  MaxSuspend = 1
  Scenarios = {"sched"}
SPECIFICATION SafetySpec
INVARIANTS BestInv BestThreadRuns
CHECK_DEADLOCK FALSE
