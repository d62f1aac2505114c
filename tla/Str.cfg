SPECIFICATION Spec
CONSTANTS
  SizeMax = 31
  MaxReserve = 3
  Slots = 2
  HeapMax = 7
  Strs <- MCStrs
  Caps <- MCCaps
  Seps <- MCSeps
  Raw = Raw
  Freed = Freed
  NULL = NULL
INVARIANTS
  WellFormed
  NoTokenLeak
PROPERTIES
  AllOrNothing
  TokensRight
