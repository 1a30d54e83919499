CONSTANTS
  BufReqs = 2
  LineLen = 4
  LineCounts = {4, 20}
  MaxOvertake = 1
  TxCap = 12
  TxThresh = 2
  RollCounts = {}
  PendLimit = 100
  CountMod = 32
  NoItem = NoItem
SPECIFICATION Spec
INVARIANTS
  TypeOK
  OncePerLine
  NeverRefused
  LinesIntact
PROPERTIES
  ImplementsCopy
  PacketsContiguous
