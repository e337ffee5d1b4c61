SPECIFICATION Spec
CONSTANTS
  Threads = {t1, t2, t3, t4}
  NoThread = NoThread
  Locks = {l1}
  NoLock = NoLock
  Recursive = {l1}
  MaxReads = 2
  MaxRecursion = 1
SYMMETRY Symmetry
INVARIANTS TypeOK MutualExclusion WordTellsHolders NoStrandedSleeper AssertsHold BookkeepingAgrees
PROPERTIES WritersNotOvertaken ImplementsRWLock
