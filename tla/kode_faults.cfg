SPECIFICATION Spec
CONSTANTS
  Specs <- ValidOrNot
  Creds = {"c1"}
  Pods = {"p1", "p2"}
  Sizes = {"s1"}
  Templates = {"t1", "t2"}
  TPort <- MCTPort
  NoChild = NoChild
  Kinds = {"statefulset"}
  MaxGen = 1
  FaultyCalls = {"status", "finalizer", "template", "read", "ensure", "delete", "crash"}
  MaxFaults = 1
  Drifts = {}
  MaxFlaps = 0
  ChildLag = TRUE
  FreshReads = FALSE
  MaxRetries = 1
  MaxCycle = 2
INVARIANTS
  TypeOK
  HandlerRegistered
  ConditionsPresent
  NeverForgotten
  NeverFails
PROPERTIES
  FollowsLifecycle
  DeletingIsFinal
CHECK_DEADLOCK FALSE
