CONSTANTS
  o1 = o1
  o2 = o2
  c1 = c1
  c2 = c2
  e1 = e1
  e2 = e2
  first = first
  None = None
  Absent = Absent
  Procs = {o1, o2}
  Stations = {c1, c2}
  Target = c1
  Stranger = c2
  Protocols = {"eapol", "dhcp", "dns", "beacon"}
  MaxFrames <- MCFrames
  LowerIsBetter = {"ms"}
  Policy <- MCPolicy
  Captures <- MCCaptures
  Threshold = 20
  Environments = {e1, e2}
  Measurements <- MCMeasurements
  Waivers <- MCWaivers
  Scenes <- MCScenes
SPECIFICATION Spec
INVARIANTS TypeOK ClaimsAreExact AcceptSound FilesAreConsistent StoredRowsSurvive ServesAtHead
CHECK_DEADLOCK FALSE
