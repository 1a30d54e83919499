CONSTANTS
  Values = {v1, v2}
  NoItem = NoItem
  Depth = 4
  FullThresh = 3
SPECIFICATION Spec
INVARIANTS
  FifoInv
PROPERTIES
  ImplementsQueue
