SPECIFICATION ChosenFairSpec
CONSTANTS
  n1 = n1
  n2 = n2
  n3 = n3
  n4 = n4
  Node <- ThreeNodes
  Leader <- Rotation3
  Silent = {}
  Forking = {}
  TornRead = FALSE
  Ordered = TRUE
  MaxView = 12
  TimerViews = {}
INVARIANTS
  PipelinesAlternate
PROPERTIES
  EventuallyCommitted
CHECK_DEADLOCK FALSE
