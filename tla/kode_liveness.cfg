SPECIFICATION TimelySpec
CONSTANTS
  Specs <- AnyEdit
  Creds = {"c1"}
  Pods = {"p1", "p2"}
  Sizes = {"s1", "s2"}
  Templates = {"t1", "t2"}
  TPort <- MCTPort
  NoChild = NoChild
  Kinds = {"statefulset", "pvc"}
  MaxGen = 2
  FaultyCalls = {"status", "finalizer", "template", "read", "ensure", "crash"}
  MaxFaults = 1
  Drifts = {"pods", "entrypoint"}
  MaxFlaps = 1
  ChildLag = FALSE
  FreshReads = TRUE
  MaxRetries = 2
  MaxCycle = 2
PROPERTIES
  FollowsLifecycle
  Converges
  DeletionCompletes
CHECK_DEADLOCK FALSE
