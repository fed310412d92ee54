SPECIFICATION FairRunner
CONSTANTS
  t = t
  o = o
  c = c
  e = e
  p = p
  i = i
  n = n
  u = u
  Tokens = {t, o}
  RunOf <- MCRunOf
  Contexts = {c, e}
  Results = {p, i, n, u}
  VerdictOf <- MCVerdictOf
  NoToken = NoToken
  NoContext = NoContext
  NoResult = NoResult
  Handoff = t
  Agent = c
  Ttl = 3
  Timeout = 1
  Grace = 1
  Window = 2
  IssueLimit = 1
  ActiveLimit = 1
  MaxNow = 4
  MaxDocs = 2
CHECK_DEADLOCK FALSE
INVARIANTS
  SlotsAreOpenRuns
  ObservationFits
  JudgedCallWasMade
PROPERTIES
  ArmedIsDecided
  ImplementsTrial
