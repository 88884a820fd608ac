SPECIFICATION ChosenSpec
CONSTANTS
  n1 = n1
  n2 = n2
  n3 = n3
  n4 = n4
  Node <- OneNode
  Leader <- Static1
  Silent = {}
  Forking = {}
  TornRead = FALSE
  Ordered = TRUE
  MaxView = 8
  TimerViews = {3, 4, 5, 6}
INVARIANTS
  QCOrder
  TCPair
  DualChanFits
PROPERTIES
  NoEquivocation
CHECK_DEADLOCK FALSE
