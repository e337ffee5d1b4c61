SPECIFICATION Spec
CONSTANTS
  Threads = {t1, t2, t3}
  NoThread = NoThread
  Conds = {c1}
  Cond = c1
  InitValue = 0
  UINT_MAX = 2
  MaxCalls = 2
INVARIANTS SemTypeOK NoLostWakeup
PROPERTIES NobodyLeftBehind
\* A sem_wait() that nobody posts for sleeps for ever.
CHECK_DEADLOCK FALSE
