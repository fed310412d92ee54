SPECIFICATION MigrationSpec
CONSTANTS
  j1 = j1
  j2 = j2
  j3 = j3
  Jtis = {j1, j2, j3}
  Responses = {r1, r2}
  Digests = {d1, d2}
  Costs = {1, 3}
  PurposeOf <- MCPurposeOf
  SubjectOf <- MCSubjectOf
  ActorOf <- MCActorOf
  NoJti = NoJti
  NoResponse = NoResponse
  NoDigest = NoDigest
  PolicyLimits <- MCPolicyLimits
  MigrationCalls <- MCMigrationCalls
  GlobalLimit = 3
  Reservation = 2
  MaxConcurrency = 1
  TokenTTL = 1
  Lease = 1
  IssueWindow = 2
  ClosesAt = 2
  MaxNow = 2
  Runs = {b1, b2}
  Commits = {c1}
  Lenient = {1}
  Sealed = {2}
  Tombstones <- MCTombstones
  NoReceipt = NoReceipt
SYMMETRY Symmetric
CHECK_DEADLOCK FALSE
INVARIANTS
  NeverHaltsByDrift
  GuardMatchesCalls
  SpendIsCapped
  HistoryIsKept
PROPERTIES
  ImplementsCallBudget
