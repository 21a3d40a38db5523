CONSTANTS
  s1 = s1
  s2 = s2
  Envelopes = {1}
  Syncers <- MCSyncers
  MaxAttempts = 2
  Limit = 1
  MaxFaults = 0
SPECIFICATION Spec
INVARIANT BudgetBlocks
CHECK_DEADLOCK FALSE
