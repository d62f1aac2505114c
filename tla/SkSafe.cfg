SPECIFICATION MCSpec
CONSTANTS
  Nodes = {n1, n2, n3, n4}
  head = head
  NULL = NULL
  Keys = {1, 2}
  MaxLevel = 3
SYMMETRY NodeSymmetry
INVARIANTS
  LinksKept
  SearchFinds
PROPERTIES
  KeyListSpec
  RecursiveListSpec
