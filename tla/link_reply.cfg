SPECIFICATION Spec
CONSTANTS
  Header = 2
  Body = 2
  MaxGarbage = 9
  MaxRequests = 2
INVARIANTS OwnReply
CHECK_DEADLOCK FALSE
