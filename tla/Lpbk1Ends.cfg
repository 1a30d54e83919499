CONSTANTS
  BufReqs = 2
  LineLen = 1
  LineCounts = {1, 4, 5}
  MaxOvertake = 0
  TxCap = 8
  TxThresh = 1
  RollCounts = {3}
  PendLimit = 1
  CountMod = 6
  NoItem = NoItem
SPECIFICATION FairSpec
PROPERTIES
  Completes
  GoesOn
