SPECIFICATION ClientSpec
CONSTANTS
  Threads = {w1, r1, r2}
  NoThread = NoThread
  Locks = {l1, l2}
  NoLock = NoLock
  Recursive = {}
  MaxReads = 2
  MaxRecursion = 0
  Writers = {w1}
  Rounds = 0
PROPERTIES WriterNotStarved
