CONSTANTS
  NumWords = 6
  NumWorkers = 3
  Tids = {0, 1, 2, 3}
  MinGap = 3
  ResetClocks = 5
SPECIFICATION FairSpec
INVARIANTS
  ReadBack
  AnswersAreWaitedFor
  HeaderRestored
PROPERTIES
  Ends
