SPECIFICATION Spec
CONSTANTS
  p1 = p1  p2 = p2
  Peers <- MCPeers
  MaxClock = 2
  MaxRotations = 3
  MaxFailures = 1
  MaxCrashes = 2
SYMMETRY MCSymmetry
INVARIANTS TypeOK KeysKept GenuineVerifies
PROPERTY NeverGoesBack
CHECK_DEADLOCK FALSE
