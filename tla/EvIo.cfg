SPECIFICATION Spec
CONSTANTS
  e1 = e1
  e2 = e2
  Events = {e1, e2}
  NoEvt = NoEvt
  Fds = {1, 3}
  MapSize = 2
  TicksPerMs = 2
  DefWaitMs = 10
  S32Max = 10
  Uses <- IoUses
  Timeouts = {1}
  NEvents = 2
  MaxTime = 2
  OthersOps = {"add"}
  CloseEarly = FALSE
  AddMayFail = TRUE
INVARIANTS
  ListsKept
  WalkLinked
  EpollMatchesMap
  BaseFreeClean
CHECK_DEADLOCK FALSE
