CONSTANTS
  s1 = s1
  s2 = s2
  Envelopes = {1, 2}
  Syncers <- MCSyncers
  MaxAttempts = 2
  Limit = 2
  MaxFaults = 1
SPECIFICATION FairSpec
INVARIANTS TypeOK AckedWasAccepted BlockedSpentBudget
PROPERTY EventuallySettled
CHECK_DEADLOCK FALSE
