SPECIFICATION FairSpec
CONSTANTS
  Traffic <- PeersOnly
  ChanCap = 2
  EventCap = 2
  DualCap = 2
  MaxView = 3
PROPERTIES
  EveryMessageHandled
CHECK_DEADLOCK FALSE
