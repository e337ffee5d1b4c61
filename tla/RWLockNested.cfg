SPECIFICATION ClientSpec
CONSTANTS
  Threads = {w1, w2, r1, r2}
  NoThread = NoThread
  Locks = {l1, l2}
  NoLock = NoLock
  Recursive = {}
  MaxReads = 2
  MaxRecursion = 0
  Writers = {w1, w2}
  Rounds = 1
CHECK_DEADLOCK FALSE
PROPERTIES EveryCallReturns
