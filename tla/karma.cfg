SPECIFICATION Spec
CONSTANTS
  n1 = n1
  n2 = n2
  c1 = c1
  c2 = c2
  Nodes = {n1, n2}
  Clusters = {c1, c2}
  ClusterSize = 1
  Events <- MCEvents
  Adjustment <- MCAdjustment
  MinXP <- MCMinXP
  KarmaStart = 1
  KarmaMax = 2
  KarmaFloor = 1
  EvictionKarma <- MCEvictionKarma
  Suspension = 1
  DecayPeriod = 2
  DecayPercent = 50
  MaxClock = 3
  MaxCalls = 4
  MaxCrashes = 1
  MaxFailures = 1
SYMMETRY MCSymmetry
INVARIANTS
  TypeOK
  Consistent
PROPERTIES
  ElectionSound
  EvictionLasts
CHECK_DEADLOCK FALSE
