CONSTANTS
  QueueSize = 1
  Backlog = 2
  MaxRequests = 3
  MaxNotices = 4
  MaxCalls = 3
SPECIFICATION HandleSpec
INVARIANTS  NoCallbackAfterFree WaitingCanBeAnswered ToldInOrder
PROPERTIES  DispatchGoesOn
CHECK_DEADLOCK FALSE
