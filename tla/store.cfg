SPECIFICATION Spec
CONSTANTS
  k1 = k1  k2 = k2  k3 = k3
  Keys <- MCKeys
  Items = {x}
  Scalars = {dict}
  Slug <- MCSlug
  MaxList = 1
  MaxCalls = 3
  MaxFailures = 1
  MaxCrashes = 1
SYMMETRY MCSymmetry
INVARIANTS TypeOK Durable ExistsAgrees
PROPERTY OnlyItsKey
CHECK_DEADLOCK FALSE
