CONSTANTS
  NumServices <- MCServices
  NumBuffers <- MCBuffers
  TestOf <- MCTests
  MaxRequests = 2
SPECIFICATION FairSpec
INVARIANTS
  NoCallbackOwed
  NoNullPointer
  FailureTold
PROPERTIES
  Ends
CHECK_DEADLOCK FALSE
