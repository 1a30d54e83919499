CONSTANTS
  Configs <- Writing
  DefaultCfg <- Loopback
  NoWrite = NoWrite
  NoItem = NoItem
  LineLen = 2
  LineCounts = {2, 4}
  TxCap = 2
  MaxWrites = 2
  MaxReads = 1
  Forces = TRUE
  Meddles = FALSE
  Errors = TRUE
  IntrTest = TRUE
  IntrOnError = FALSE
  PendMod = 16
SPECIFICATION FairSpec
INVARIANTS
  DataMatchesRequest
  RunsAsConfigured
PROPERTIES
  StreamOrder
  Ends
