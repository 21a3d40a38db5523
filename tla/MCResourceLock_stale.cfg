CONSTANTS
  run1 = run1
  firmware = firmware
  Nobody = Nobody
  Recovery = recovery
  Resources <- MCResources
  Owners <- MCMixed
  Needs <- MCMixedNeeds
SPECIFICATION Spec
PROPERTY MarksOnlyStale
