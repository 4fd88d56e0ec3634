SPECIFICATION OpTimelySpec
CONSTANTS
  Specs <- OneSpec
  Creds = {"c1"}
  Pods = {"p1", "p2"}
  Sizes = {"s1"}
  Templates = {"t1"}
  TPort <- MCTPort
  NoChild = NoChild
  Kinds = {"statefulset"}
  MaxGen = 1
  FaultyCalls = {"ensure"}
  MaxFaults = 2
  Drifts = {}
  MaxFlaps = 0
  ChildLag = FALSE
  FreshReads = TRUE
  MaxRetries = 1
  MaxCycle = 2
  EPOutcomes = {"found"}
PROPERTIES
  Recovers
  PublishesAgain
  DeletionCompletes
CHECK_DEADLOCK FALSE
