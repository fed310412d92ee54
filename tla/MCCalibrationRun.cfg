SPECIFICATION FairSpec
CONSTANTS
  Cases = 2
  MaxDocs = 2
  MaxFaults = 1
CHECK_DEADLOCK FALSE
INVARIANTS
  OncePerCase
  RowTruth
  IndexIsSealed
PROPERTIES
  RecoversUnlessLost
