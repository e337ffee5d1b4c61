SPECIFICATION Spec
CONSTANTS
  Main = Main
  Kids = {k1, k2}
  NoThread = NoThread
  Dead = Dead
INVARIANTS CreatorFindsHandle
\* The process ends, or its threads join each other.
CHECK_DEADLOCK FALSE
