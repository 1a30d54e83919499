CONSTANTS
  Configs <- Finite
  DefaultCfg <- Loopback
  NoWrite = NoWrite
  NoItem = NoItem
  LineLen = 2
  LineCounts = {0, 4}
  TxCap = 3
  MaxWrites = 3
  MaxReads = 2
  Forces = FALSE
  Meddles = TRUE
  Errors = FALSE
  IntrTest = TRUE
  IntrOnError = FALSE
  PendMod = 16
SPECIFICATION Spec
INVARIANTS
  TypeOK
  PendingExact
  CompleteWhenDrained
PROPERTIES
  ConfigFrozen
