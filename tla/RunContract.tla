---------------------------- MODULE RunContract ----------------------------
(***************************************************************************)
(* What the row of a Run promises whoever reads it: the Run moves forward  *)
(* through its active states, is decided once, with an outcome and a       *)
(* failure class that belong together, and never changes again.            *)
(***************************************************************************)
EXTENDS Naturals

VARIABLES lc, outcome, fclass

Rank == [ABSENT |-> 0, QUEUED |-> 1, PREPARING |-> 2, LAB_HEALTH_CHECK |-> 3, RUNNING |-> 4]
ActiveStates == {"QUEUED", "PREPARING", "LAB_HEALTH_CHECK", "RUNNING"}

Undecided == outcome = "NONE" /\ fclass = "NONE"

Decision(l, o, f) ==
  \/ /\ l = "COMPLETED"
     /\ o \in {"VALIDATED", "VALIDATED_WITH_WARNINGS", "REJECTED", "UNVALIDATED"}
     /\ f = "NONE"
  \/ /\ l = "FAILED"
     /\ \/ o \in {"REJECTED", "UNVALIDATED"} /\ f = "NONE"
        \/ o = "REJECTED" /\ f = "PRODUCT_FAILED"
  \/ l \in {"LAB_FAILED", "CANCELLED"} /\ o = "UNVALIDATED" /\ f = l
  \/ /\ l = "ABORTED"
     /\ o = "UNVALIDATED"
     /\ f \in {"ABORTED", "TIMED_OUT", "RUNNER_DISCONNECTED", "WORKER_CRASHED"}

Init == lc = "ABSENT" /\ Undecided

\* Creation is the step from ABSENT to QUEUED and to nothing else.
Advance ==
  /\ lc \in ActiveStates \cup {"ABSENT"}
  /\ lc' \in ActiveStates
  /\ Rank[lc] < Rank[lc']
  /\ lc = "ABSENT" => lc' = "QUEUED"
  /\ UNCHANGED <<outcome, fclass>>

\* Only a Run that was executing can complete.
Decide ==
  /\ lc \in ActiveStates
  /\ Decision(lc', outcome', fclass')
  /\ lc' = "COMPLETED" => lc = "RUNNING"
  /\ lc' = "FAILED" => lc \in {"PREPARING", "RUNNING"}

Next == Advance \/ Decide

Spec == Init /\ [][Next]_<<lc, outcome, fclass>>
=============================================================================
