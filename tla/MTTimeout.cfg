SPECIFICATION MTSpec
CONSTANTS
  n1 = n1
  n2 = n2
  n3 = n3
  n4 = n4
  Node <- TwoNodes
  Leader <- Rotation2
  Silent = {}
  Forking = {}
  TornRead = FALSE
  Ordered = TRUE
  MaxView = 12
  TimerViews = {5}
INVARIANTS
  LocksOrdered
  MTCommitBacked
  CommitLocked
  TCPair
  Agreement
PROPERTIES
  LedgerSpec
CHECK_DEADLOCK FALSE
