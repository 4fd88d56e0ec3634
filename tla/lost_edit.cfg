SPECIFICATION Spec
CONSTANTS
  Specs <- PodEdit
  Creds = {"c1"}
  Pods = {"p1", "p2"}
  Sizes = {"s1"}
  Templates = {"t1", "t2"}
  TPort <- MCTPort
  NoChild = NoChild
  Kinds = {"statefulset", "pvc"}
  MaxGen = 3
  FaultyCalls = {}
  MaxFaults = 0
  Drifts = {}
  MaxFlaps = 0
  ChildLag = FALSE
  FreshReads = FALSE
  MaxRetries = 1
  MaxCycle = 2
PROPERTIES
  MismatchUpdates
CHECK_DEADLOCK FALSE
