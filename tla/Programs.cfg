SPECIFICATION MCSpec
CONSTANTS
  Setters = {t1, t2}
  Resetters = {r1}
  Waiters = {w1}
  TimedWaiters = {w2}
  Timeout = 1
  MaxTime = 3
  NULL = NULL
  Keys = {0, 1, 2, 3}
  Items = {i1}
  MaxRecords = 2
  Instants = {999, 3661001, 86399999, 172805000}
  Lines <- MCLines
  MaxLines = 3
  LineBuf = 4
  SP = 0
  Clients = {c1, c2}
  BufSize = 3
  Backlog = 1
INVARIANTS
  NoLostWakeup
  TreeAsTold
  ElapsedTrue
  WordsVisited
  EchoRight
PROPERTIES
  WaitsEndTruly
  
CHECK_DEADLOCK FALSE
