SPECIFICATION ChosenSpec
CONSTANTS
  n1 = n1
  n2 = n2
  n3 = n3
  n4 = n4
  Node <- TwoNodes
  Leader <- Rotation2
  Silent = {}
  Forking = {n1}
  TornRead = TRUE
  Ordered = TRUE
  MaxView = 7
  TimerViews = {3}
INVARIANTS
  SeqFollowsView
  CommitLocked
PROPERTIES
  NoEquivocation
CHECK_DEADLOCK FALSE
