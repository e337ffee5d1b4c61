SPECIFICATION Spec
CONSTANTS
  Threads = {s1, s2, r1}
  Senders = {s1, s2}
  Receivers = {r1, s2}
  Setters = {r1}
  NoThread = NoThread
  CondReceive = CondReceive
  CondSend = CondSend
  Conds = {CondReceive, CondSend}
  NULL = NULL
  Cells = {m1, m2, m3}
  Priorities = {0}
  MaxMsg = 1
  MallocFails = FALSE
  MaxCalls = 2
INVARIANTS TypeOK CellsAccountedFor NoLostQueueWakeup
PROPERTIES ImplementsQueue NobodyLeftAtQueue
\* A receiver that nobody sends to sleeps for ever.
CHECK_DEADLOCK FALSE
