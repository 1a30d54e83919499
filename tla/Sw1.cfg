CONSTANTS
  Configs <- RoundTrips
  DefaultCfg <- NoTest
  NoWrite = NoWrite
  NoItem = NoItem
  NoMessage = NoMessage
  Flag = 9
  Blank = 8
  Garbage = 7
  LineCounts = {0, 1, 3}
  TxCap = 2
  Corrupts = TRUE
  Forces = FALSE
  IntrTest = FALSE
  IntrOnError = FALSE
SPECIFICATION FairSpec
INVARIANTS
  TypeOK
  DataBeforeFlag
  CountsLines
  ReportsTruth
PROPERTIES
  RoundTripEnds
