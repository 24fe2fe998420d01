SPECIFICATION FairSpec
CONSTANTS
  Header = 2
  Body = 2
  MaxGarbage = 9
  MaxRequests = 4
INVARIANTS RawPingAnswers
PROPERTIES ImplementsRequestReply PingReturns StopTakesEffect
CHECK_DEADLOCK FALSE
