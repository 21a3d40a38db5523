-------------------------- MODULE MCResourceLock --------------------------
(* Small instances of ResourceLock.  Sorted, "device:..." (1) comes before  *)
(* "lab:..." (2): a Run needs both, a firmware operation the device.        *)
EXTENDS ResourceLock

CONSTANTS run1, firmware

MCResources == {1, 2}
MCMixed == {run1, firmware}
MCMixedNeeds == [a \in MCMixed |-> IF a = firmware THEN {1} ELSE {1, 2}]
=============================================================================
