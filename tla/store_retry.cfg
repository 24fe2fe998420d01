SPECIFICATION Spec
CONSTANTS
  k1 = k1  k2 = k2  k3 = k3
  Keys <- MCKeys
  Items = {x}
  Scalars = {dict}
  Slug <- MCSlug
  MaxList = 1
  MaxCalls = 2
  MaxFailures = 1
  MaxCrashes = 0
INVARIANT Recalled
CHECK_DEADLOCK FALSE
