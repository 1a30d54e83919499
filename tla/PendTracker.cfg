CONSTANTS
  LineLen = 2
  MaxPack = 2
  Thresh = 3
  Top = 15
  ResetClocks = 2
  Modes = {{"reads"}, {"writes"}}
SPECIFICATION FairSpec
INVARIANTS
  Exact
  NoFalseError
  HostLoad
PROPERTIES
  Released
