SPECIFICATION TimelySpec
CONSTANTS
  Specs <- Keep
  Creds = {"c1"}
  Pods = {"p1", "p2"}
  Sizes = {"s1"}
  Templates = {"t1", "t2"}
  TPort <- MCTPort
  NoChild = NoChild
  Kinds = {"statefulset", "pvc"}
  MaxGen = 1
  FaultyCalls = {}
  MaxFaults = 0
  Drifts = {}
  MaxFlaps = 0
  ChildLag = FALSE
  FreshReads = TRUE
  MaxRetries = 1
  MaxCycle = 2
PROPERTIES
  DeletionCompletes
CHECK_DEADLOCK FALSE
