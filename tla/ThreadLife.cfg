SPECIFICATION Spec
CONSTANTS
  Main = Main
  Kids = {k1, k2}
  NoThread = NoThread
  Dead = Dead
INVARIANTS TypeOK StackOutlivesThread JoinIsExclusive AssertsHold DetachedNotLeaked ProcessEndsWithLastThread
PROPERTIES ExitingThreadDies
\* The process ends, or its threads join each other.
CHECK_DEADLOCK FALSE
