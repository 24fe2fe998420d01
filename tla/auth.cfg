SPECIFICATION Spec
CONSTANTS
  p1 = p1  p2 = p2
  Peers <- MCPeers
  MaxMessageAge = 1
  SequenceWindow = 1
  RateWindow = 1
  RateMax = 2
  Skews <- MCSkews
  MaxSequence = 1
  MaxMessages = 2
  MaxClock = 4
  MaxReceived = 4
  MaxForgotten = 1
SYMMETRY MCSymmetry
INVARIANTS TypeOK AtMostOnceInOrder RateBounded
PROPERTY ReplayMeansHandled
CHECK_DEADLOCK FALSE
