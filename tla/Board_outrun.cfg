SPECIFICATION Spec
CONSTANTS
  Handlers = {h1, h2}
  MaxDue = 1
  MaxJobs = 3
  MaxFaults = 0
INVARIANT OnlyOneBoard
CHECK_DEADLOCK FALSE
