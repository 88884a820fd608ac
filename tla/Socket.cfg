SPECIFICATION FairSpec
CONSTANTS
  n1 = n1
  n2 = n2
  n3 = n3
  Node <- ThreeNodes
  Goroutine <- TwoGoroutines
  Scenarios <- AllScenarios
  Attempts = 2
  Cap = 2
  MaxFaults = 1
  MaxResets = 1
INVARIANTS
  TypeOK
  AtMostOnce
  OrderedUnlessRedialled
PROPERTIES
  LinkSpec
  EventuallyReceived
CHECK_DEADLOCK FALSE
