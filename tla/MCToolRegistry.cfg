SPECIFICATION FairCallsSpec
CONSTANTS
  get = get
  cancel = cancel
  getChanged = getChanged
  Tools = {get, cancel, getChanged}
  NameOf <- MCNameOf
  Catalogs <- MCCatalogs
  MaxLeases = 2
  MaxObjects = 4
  MaxCalls = 1
  MaxFaults = 1
  NoTool = NoTool
CHECK_DEADLOCK FALSE
INVARIANTS
  ReadyMeansExact
  ToolIdentityStable
PROPERTIES
  HeldStaysRegistered
  RequestsSettle
