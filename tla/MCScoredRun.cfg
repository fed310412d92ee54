SPECIFICATION FairSpec
CONSTANTS
  Cases = 2
  Decisions = {"call", "unusable"}
  MaxLost = 1
  MaxStops = 1
  NoKey = NoKey
  NoRow = NoRow
  NoDigest = NoDigest
CHECK_DEADLOCK FALSE
INVARIANTS
  TerminalLogVerifies
  EvidenceIsTheLog
PROPERTIES
  CallsAreAccounted
  RowsAreFinal
  RunEnds
  SealedIsAcknowledged
