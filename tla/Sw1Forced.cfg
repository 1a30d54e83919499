CONSTANTS
  Configs <- Polling
  DefaultCfg <- NoTest
  NoWrite = NoWrite
  NoItem = NoItem
  NoMessage = NoMessage
  Flag = 9
  Blank = 8
  Garbage = 7
  LineCounts = {2}
  TxCap = 2
  Corrupts = FALSE
  Forces = TRUE
  IntrTest = FALSE
  IntrOnError = FALSE
SPECIFICATION FairSpec
PROPERTIES
  ForcedEnds
