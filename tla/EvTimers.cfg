SPECIFICATION Spec
CONSTANTS
  e1 = e1
  e2 = e2
  Events = {e1, e2}
  NoEvt = NoEvt
  Fds = {}
  MapSize = 2
  TicksPerMs = 2
  DefWaitMs = 1
  S32Max = 1
  Uses <- TimerUses
  Timeouts = {0, 1, 2, 8}
  NEvents = 2
  MaxTime = 4
  OthersOps = {}
  CloseEarly = FALSE
  AddMayFail = FALSE
INVARIANTS
  TimeTreeKept
  TimeoutsDue
PROPERTIES
  WaitExact
  NoEarlyExit
  PersistInterval
CHECK_DEADLOCK FALSE
