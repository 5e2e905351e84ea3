SPECIFICATION Spec
CONSTANTS
  People = {"a", "b"}
  Handlers = {1, 2, 3}
  Inboxes <- MCInboxes
  Starts <- MCStarts
INVARIANTS TypeOK RegisteredOnceHandled DeadlockTakesAnother
PROPERTIES OnlySelfReturns LeaveSticks EveryUpdateHandled
CHECK_DEADLOCK FALSE
