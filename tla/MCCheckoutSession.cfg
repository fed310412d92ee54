SPECIFICATION Spec
CONSTANTS
  r1 = r1
  r2 = r2
  r3 = r3
  a = a
  b = b
  mug = mug
  pen = pen
  Requests = {r1, r2, r3}
  Ops = {a, b}
  Items = {mug, pen}
  Fixture <- MCFixture
  NoOp = NoOp
  NoCommand = NoCommand
  Nobody = Nobody
  Commands <- MCCommands
  MaxTombstones = 2
CHECK_DEADLOCK FALSE
INVARIANTS
  RepliesAgree
  PendingMatchesCart
  AbortIsHonest
  FailureIsKept
  NothingIsStuck
PROPERTIES
  ReleasedFromFixture
  ImplementsOnceOnly
