SPECIFICATION FairJourney
CONSTANTS
  a = a
  b1 = b1
  b2 = b2
  d1 = d1
  d2 = d2
  p = p
  i = i
  Tokens = {a, b1, b2, d1, d2}
  RunOf <- MCRunOf
  Contexts = {c}
  Browser = c
  Plan <- MCPlan
  Handlers = {h1, h2}
  Results = {p, i}
  VerdictOf <- MCVerdictOf
  NoToken = NoToken
  NoContext = NoContext
  NoResult = NoResult
  Ttl = 1
  Timeout = 0
  Grace = 0
  Window = 1
  IssueLimit = 3
  ActiveLimit = 3
  MaxNow = 0
  MaxFaults = 1
  MaxReloads = 1
CHECK_DEADLOCK FALSE
INVARIANTS
  StepsInOrder
  KnownJourneyCarries
PROPERTIES
  AdvanceIsServed
