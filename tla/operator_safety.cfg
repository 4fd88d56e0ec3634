SPECIFICATION OpSpec
CONSTANTS
  Specs <- OneSpec
  Creds = {"c1"}
  Pods = {"p1", "p2"}
  Sizes = {"s1"}
  Templates = {"t1"}
  TPort <- MCTPort
  NoChild = NoChild
  Kinds = {"statefulset"}
  MaxGen = 1
  FaultyCalls = {"status", "finalizer", "template", "read", "ensure", "delete", "crash"}
  MaxFaults = 1
  Drifts = {"child"}
  MaxFlaps = 1
  ChildLag = FALSE
  FreshReads = TRUE
  MaxRetries = 1
  MaxCycle = 2
  EPOutcomes = {"found", "notfound", "error"}
INVARIANTS
  OpTypeOK
  UrlHasRoute
  RetriesBounded
CHECK_DEADLOCK FALSE
