SPECIFICATION Spec
CONSTANTS
  Threads = {s1, r1}
  Senders = {s1}
  Receivers = {r1}
  Setters = {}
  NoThread = NoThread
  CondReceive = CondReceive
  CondSend = CondSend
  Conds = {CondReceive, CondSend}
  NULL = NULL
  Cells = {m1, m2, m3}
  Priorities = {0, 1, 2}
  MaxMsg = 3
  MallocFails = TRUE
  MaxCalls = 4
SYMMETRY Symmetry
INVARIANTS SkipListOK
\* A receiver that nobody sends to sleeps for ever.
CHECK_DEADLOCK FALSE
PROPERTIES ImplementsQueue
