SPECIFICATION Spec
CONSTANTS
  t1 = t1
  t2 = t2
  Tabs = {t1, t2}
  First = t1
  Cases = {1, 2}
  None = None
  Handoffs = {1, 2}
  Bounds <- OneRun
CHECK_DEADLOCK FALSE
INVARIANTS
  BlockedBeforeExposed
