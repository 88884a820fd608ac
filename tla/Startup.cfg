SPECIFICATION FairSpec
CONSTANTS
  Traffic <- AllTraffic
  ChanCap = 2
  EventCap = 2
  DualCap = 2
  MaxView = 3
PROPERTIES
  ViewNeverFalls
  EventuallyRunning
  EventuallyKickedOff
  HandledByOneStarter
CHECK_DEADLOCK FALSE
