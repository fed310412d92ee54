SPECIFICATION FairPaid
CONSTANTS
  a = a
  b = b
  p = p
  s = s
  Jtis = {a, b, p, s}
  Requests = {q1, q2}
  JudgeTokens = {a, b}
  RepairToken = p
  SuccessorToken = s
  PurposeOf <- MCPurposeOf
  SubjectOf <- MCSame
  ActorOf <- MCSame
  PrimaryCounts <- MCPrimary
  PolicyLimits <- MCPolicyLimits
  MigrationCalls <- MCMigrationCalls
  Responses <- MCResponses
  Digests <- MCDigests
  Costs = {1}
  NoJti = NoJti
  NoResponse = NoResponse
  NoDigest = NoDigest
  NoArt = NoArt
  NoAnchor = NoAnchor
  RevisedCap = 1
  GlobalLimit = 3
  Reservation = 2
  MaxConcurrency = 1
  TokenTTL = 1
  Lease = 1
  IssueWindow = 3
  ClosesAt = 2
  MaxNow = 2
  MaxFaults = 1
CHECK_DEADLOCK FALSE
INVARIANTS
  PaidOnceAndKept
  AnswersAgree
PROPERTIES
  JudgeConcludes
