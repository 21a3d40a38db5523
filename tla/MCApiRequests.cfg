CONSTANTS
  r1 = r1
  r2 = r2
  r3 = r3
  launch = launch
  promote = promote
  p1 = p1
  p2 = p2
  None = None
  Deliveries <- MCDeliveries
  Slots = {launch, promote}
  Launches = {launch}
  Payloads = {p1, p2}
  Threads = 2
  MaxRestarts = 1
SPECIFICATION Spec
SYMMETRY MCSymmetry
INVARIANTS TypeOK AnswersAreOfTheRequest RepeatsDoNotAct LiveGroupsAreOwned
PROPERTY StoredAnswersAreKept
CHECK_DEADLOCK FALSE
