SPECIFICATION FairSpec
CONSTANTS
  e1 = e1
  e2 = e2
  Events = {e1, e2}
  NoEvt = NoEvt
  Fds = {1}
  MapSize = 2
  TicksPerMs = 2
  DefWaitMs = 10
  S32Max = 10
  Uses <- LiveUses
  Timeouts = {1}
  NEvents = 2
  MaxTime = 4
  OthersOps = {}
  CloseEarly = FALSE
  AddMayFail = FALSE
PROPERTIES
  TimerFires
CHECK_DEADLOCK FALSE
