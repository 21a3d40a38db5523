CONSTANTS
  run1 = run1
  firmware = firmware
  Nobody = Nobody
  Recovery = recovery
  Resources <- MCResources
  Owners <- MCMixed
  Needs <- MCMixedNeeds
SPECIFICATION FairSpec
INVARIANTS TypeOK LeasesAreLocked AllOrNothing HolderMetadata
PROPERTIES ImplementsExclusion RequestDecided AbandonedRecovered
