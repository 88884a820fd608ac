SPECIFICATION ChosenFairSpec
CONSTANTS
  n1 = n1
  n2 = n2
  n3 = n3
  n4 = n4
  Node <- FourNodes
  Leader <- Static4
  Silent = {n1}
  Forking = {}
  TornRead = FALSE
  Ordered = TRUE
  MaxView = 12
  TimerViews = {}
INVARIANTS
  QCBacked
PROPERTIES
  EventuallyCommitted
CHECK_DEADLOCK FALSE
