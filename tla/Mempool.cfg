SPECIFICATION FairSpec
CONSTANTS
  n1 = n1
  n2 = n2
  Node <- TwoNodes
  Proposer <- TwoNodes
  Source <- Both
  Tx = {1, 2, 3}
  Workloads <- OneOrTwoSources
  Limit = 1
  BSize = 2
  DeliverSize = 1
INVARIANTS
  NoTxLost
  OrderMatches
  ProposedOncePerNode
  ShareComplete
PROPERTIES
  EventuallyProposed
CHECK_DEADLOCK FALSE
