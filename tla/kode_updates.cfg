SPECIFICATION Spec
CONSTANTS
  Specs <- AnyField
  Creds = {"c1", "c2"}
  Pods = {"p1", "p2"}
  Sizes = {"s1"}
  Templates = {"t1", "t2"}
  TPort <- MCTPort
  NoChild = NoChild
  Kinds = {"secret", "service", "statefulset", "pvc"}
  MaxGen = 2
  FaultyCalls = {"crash", "status", "ensure"}
  MaxFaults = 1
  Drifts = {"pods"}
  MaxFlaps = 1
  ChildLag = FALSE
  FreshReads = TRUE
  MaxRetries = 1
  MaxCycle = 2
INVARIANTS
  NoOrphans
PROPERTIES
  ActiveIsApplied
CHECK_DEADLOCK FALSE
