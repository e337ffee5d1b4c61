SPECIFICATION Spec
CONSTANTS
  Threads = {t1, t2, t3, t4}
  NoThread = NoThread
  MaxCalls = 2
INVARIANTS TypeOK InitializedOnce SleepersWillBeWoken WinnerKeepsLock
PROPERTIES FastPathWorks
\* The threads stop after MaxCalls calls.
CHECK_DEADLOCK FALSE
