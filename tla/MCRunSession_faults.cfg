CONSTANTS
  Worker = worker
  Recovery = recovery
  NULL = NULL
  h1 = h1
  h2 = h2
  t1 = t1
  t2 = t2
  Handlers = {h1}
  Processes <- MCProcesses
  Selected <- MCSelected
  Shapes <- MCShapes
  MaxFaults = 1
  MaxCrashes = 1
SPECIFICATION Spec
INVARIANTS TypeOK RowConsistent OutcomeMatchesFacts CleanExitSettles
PROPERTIES ImplementsContract NoLostUpdate
CHECK_DEADLOCK FALSE
