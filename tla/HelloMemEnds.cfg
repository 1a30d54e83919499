CONSTANTS
  SweepWords = 64
  BurstMod = 2048
  Data = {d1, d3}
  Data1 = d1
  Data3 = d3
  Nothing = Nothing
  Addr = 17
  Burst = 32
  Cap = 128
  MmioGap = 4
  Sleeping = TRUE
SPECIFICATION FairSpec
PROPERTIES
  Ends
