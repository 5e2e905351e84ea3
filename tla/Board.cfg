SPECIFICATION Spec
CONSTANTS
  Handlers = {h1, h2}
  MaxDue = 2
  MaxJobs = 5
  MaxFaults = 1
INVARIANTS TypeOK NeverOverpaid OneBoard NoBoardOnceArchived PinnedWasRecorded BoardCatchesUp
PROPERTIES EveryHandlerEnds
CHECK_DEADLOCK FALSE
