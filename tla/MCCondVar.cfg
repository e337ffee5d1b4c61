SPECIFICATION CondSpec
CONSTANTS
  Threads = {t1, t2, t3, t4}
  NoThread = NoThread
  Locks = {l1}
  NoLock = NoLock
  Recursive = {l1}
  MaxReads = 1
  MaxRecursion = 1
  Conds = {c1}
  NoCond = NoCond
  Mutex = l1
SYMMETRY Symmetry
INVARIANTS CondTypeOK WaiterInOnePlace CondBookkeeping NoStrandedSleeper
PROPERTIES ImplementsMonitor
\* Every thread may be waiting for a signal that no caller sends.
CHECK_DEADLOCK FALSE
