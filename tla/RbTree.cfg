SPECIFICATION MCSpec
CONSTANTS
  Free = 8
  Nodes <- MCNodes
  Keys <- MCKeys
  NULL = 0
  Heads = {h1, h2}
  Entries = {a, b, c}
INVARIANTS
  RedBlack
  WalksInOrder
  AugmentRight
PROPERTIES
  TimeListSpec
  ListSpec
