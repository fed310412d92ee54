SPECIFICATION FairSpec
CONSTANTS
  get = get
  cancel = cancel
  getChanged = getChanged
  Tools = {get, cancel, getChanged}
  NameOf <- MCNameOf
  Catalogs <- MCStableCatalogs
  MaxLeases = 2
  MaxObjects = 4
  MaxCalls = 0
  MaxFaults = 0
  NoTool = NoTool
CHECK_DEADLOCK FALSE
INVARIANT
  SupersedingLeaseIsServed
