CONSTANTS
  r1 = r1
  r2 = r2
  r3 = r3
  launch = launch
  promote = promote
  p1 = p1
  p2 = p2
  None = None
  Deliveries <- MCDeliveries
  Slots = {launch}
  Launches = {launch}
  Payloads = {p1}
  Threads = 1
  MaxRestarts = 0
SPECIFICATION Spec
INVARIANT NoDuplicateRuns
CHECK_DEADLOCK FALSE
