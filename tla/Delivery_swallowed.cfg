SPECIFICATION Spec
CONSTANTS
  Updates = {u1}
  Handlers = {h1, h2}
  Faults <- OnlyImpatience
  MaxFaults = 2
INVARIANT RetryNotSwallowed
CHECK_DEADLOCK FALSE
