CONSTANTS
  o1 = o1
  o2 = o2
  old = old
  new = new
  rebuilt = rebuilt
  v1 = v1
  v2 = v2
  None = None
  Ops = {o1, o2}
  Images = {old, new, rebuilt}
  Version <- MCVersion
  Old = old
  New = new
  MaxRebuilds = 2
  MaxStoreFaults = 1
  FaultSet <- MCFaults
  Casts <- MCCasts
SPECIFICATION Spec
INVARIANTS TypeOK VerifiedVersionRuns FlashedAsDeclared MutationsAnnounced NeverResent NoSilentResidue HealthyLabIsMended
PROPERTY NoMutationDuringARun
CHECK_DEADLOCK FALSE
