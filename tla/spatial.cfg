SPECIFICATION Spec
CONSTANTS
  u1 = u1  u2 = u2
  Users <- MCUsers
  Layouts <- MCLayouts
  Keys = {1, 2}
  Values = {1, 2}
  Text <- MCText
  Code = 7
  MaxCalls = 3
  MaxCrashes = 1
  MaxFailures = 1
SYMMETRY MCSymmetry
INVARIANTS TypeOK ProgramKept RegionsKeep
PROPERTY StoreEditsOneKey
CHECK_DEADLOCK FALSE
