SPECIFICATION FairSpec
CONSTANTS
  Endpoints = 2
  ConnTimeout = 1
  TransferTimeout = 2
  Responses <- MCResponses
  IntMax = 7
INVARIANTS
  DeadlineArmed
  ResultOnce
  ContentRight
PROPERTIES
  TimedOutMovesOn
  QuietAfterStop
  Drains
CHECK_DEADLOCK FALSE
