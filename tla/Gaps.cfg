SPECIFICATION Spec
CONSTANTS
  n1 = n1
  n2 = n2
  n3 = n3
  n4 = n4
  Node <- TwoNodes
  Leader <- Static2
  Silent = {}
  Forking = {}
  TornRead = FALSE
  Ordered = TRUE
  MaxView = 14
  TimerViews = {4, 8}
INVARIANTS
  CommittedPrefix
CHECK_DEADLOCK FALSE
