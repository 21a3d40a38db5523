CONSTANTS
  Worker = worker
  Recovery = recovery
  NULL = NULL
  h1 = h1
  h2 = h2
  t1 = t1
  t2 = t2
  Handlers = {h1, h2}
  Processes <- MCProcesses
  Selected <- MCOneTest
  Shapes <- MCOneShape
  MaxFaults = 0
  MaxCrashes = 1
SPECIFICATION FairSpec
INVARIANTS CancelAckSound FinishEventsAgree
PROPERTIES ImplementsContract EventuallyDecided
CHECK_DEADLOCK FALSE
