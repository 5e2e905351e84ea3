SPECIFICATION Spec
CONSTANTS
  Updates = {u1, u2}
  Handlers = {h1, h2}
  Faults <- MCFaults
  MaxFaults = 3
INVARIANTS TypeOK ProcessedAtMostOnce
PROPERTIES EventuallyAcked NotDropped ImplementsInbox
CHECK_DEADLOCK FALSE
