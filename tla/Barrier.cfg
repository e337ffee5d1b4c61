SPECIFICATION Spec
CONSTANTS
  Threads = {t1, t2, t3, t4}
  NoThread = NoThread
  Cond = Cond
  Conds = {Cond}
  Count = 2
  GenMod = 4
  MaxCalls = 2
INVARIANTS TypeOK NoEarlyRelease RemainingCounts
PROPERTIES OnlyIncompleteRoundWaits
\* A thread waits for ever in a round that stays incomplete.
CHECK_DEADLOCK FALSE
