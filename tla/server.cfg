CONSTANTS
  a1 = a1
  a2 = a2
  Addresses <- MCAddresses
  MaxMessages = 3
  MaxCrashes = 1
SPECIFICATION Spec
SYMMETRY MCSymmetry
INVARIANTS
  TypeOK
  NoFalseHeartbeat
  ExactWhenAlone
  AckedIsRecorded
  NoGhostPeers
CHECK_DEADLOCK FALSE
