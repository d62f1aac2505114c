SPECIFICATION FairSpec
CONSTANTS
  MaxFd = 1
  FdAge = 1
  Readers = {r1}
  Handlers = {h1, h2}
  None = None
  MaxConn = 3
  MaxTime = 3
INVARIANTS
  TimesTracked
PROPERTIES
  ClosesAged
  Reaped
  ReadsNoOlder
CHECK_DEADLOCK FALSE
