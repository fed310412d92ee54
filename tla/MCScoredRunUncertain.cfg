SPECIFICATION FairSpec
CONSTANTS
  Cases = 1
  Decisions = {"call", "unusable"}
  MaxLost = 0
  MaxStops = 0
  NoKey = NoKey
  NoRow = NoRow
  NoDigest = NoDigest
CHECK_DEADLOCK FALSE
PROPERTIES
  TerminalIsSealed
