-------------------------- MODULE BusinessOutcome --------------------------
(***************************************************************************)
(* The business outcome of a Run, derived from persisted facts             *)
(* (RunService.derive_business_outcome and its helpers).                   *)
(*                                                                         *)
(* A TestResult is reduced to the fields the derivation reads: the test it *)
(* belongs to, its status, criticality and evidence state, and whether its *)
(* failure class is PRODUCT_FAILED.                                        *)
(***************************************************************************)
EXTENDS Naturals, Sequences, FiniteSets

TestStatus == {"PASS", "FAIL", "ERROR", "SKIPPED", "BLOCKED",
               "KNOWN_FAILURE", "XPASS", "UNVALIDATED"}
Criticality == {"BLOCKING", "ADVISORY", "INFORMATIONAL"}
Evidence == {"REQUIRED", "COMPLETE", "INCOMPLETE", "INVALID", "NOT_REQUIRED"}
Health == {"HEALTHY", "DEGRADED", "UNKNOWN", "FAILED"}
Outcomes == {"VALIDATED", "VALIDATED_WITH_WARNINGS", "REJECTED", "UNVALIDATED"}

\* "NONE" stands for Python's None in every field that is optional.
Validated == {"VALIDATED", "VALIDATED_WITH_WARNINGS"}

EvidenceMissing == {"REQUIRED", "INCOMPLETE", "INVALID"}

Results(Tests) == [test : Tests, status : TestStatus, criticality : Criticality,
                   evidence : Evidence, product : BOOLEAN]

\* The TestResult constructor refuses the other combinations.
Recordable(r) ==
  /\ r.status \in {"PASS", "XPASS"} => r.evidence \notin EvidenceMissing
  /\ r.status = "UNVALIDATED" => r.evidence # "COMPLETE"

\* One result decides the Run on its own, or leaves it to the others ("NONE").
Verdict(r) ==
  CASE r.status = "UNVALIDATED" -> "UNVALIDATED"
    [] r.status \in {"PASS", "XPASS"} /\ r.evidence \in EvidenceMissing -> "UNVALIDATED"
    [] r.status = "ERROR" -> IF r.product THEN "REJECTED" ELSE "UNVALIDATED"
    [] r.criticality = "BLOCKING" /\ r.status \in {"FAIL", "KNOWN_FAILURE", "BLOCKED"}
         -> "REJECTED"
    [] r.criticality = "BLOCKING" /\ r.status \in {"SKIPPED", "XPASS"} -> "UNVALIDATED"
    [] OTHER -> "NONE"

Warns(r) == r.criticality # "BLOCKING" /\ r.status # "PASS"

ResultsOf(t, results) == {i \in DOMAIN results : results[i].test = t}

\* Exactly one result for every selected test and none for a test not selected.
OneToOne(selected, results) ==
  /\ selected # <<>>
  /\ \A i, j \in DOMAIN selected : selected[i] = selected[j] => i = j
  /\ \A i \in DOMAIN results : \E k \in DOMAIN selected : selected[k] = results[i].test
  /\ \A k \in DOMAIN selected : Cardinality(ResultsOf(selected[k], results)) = 1

ResultFor(t, results) == results[CHOOSE i \in DOMAIN results : results[i].test = t]

\* The loop runs in the order of the selected tests and the first decisive
\* result returns, so a REJECTED counts only when nothing decisive precedes it.
DeriveFromResults(selected, results) ==
  LET VerdictAt(k) == Verdict(ResultFor(selected[k], results))
      Decisive == {k \in DOMAIN selected : VerdictAt(k) # "NONE"}
  IN IF ~OneToOne(selected, results) THEN "UNVALIDATED"
     ELSE IF \E k \in Decisive : /\ VerdictAt(k) = "REJECTED"
                                 /\ \A j \in Decisive : k <= j THEN "REJECTED"
     ELSE IF Decisive # {} THEN "UNVALIDATED"
     ELSE IF \E k \in DOMAIN selected : Warns(ResultFor(selected[k], results))
          THEN "VALIDATED_WITH_WARNINGS"
     ELSE "VALIDATED"

HealthUsable(health) == health \in {"HEALTHY", "DEGRADED"}

Derive(health, selected, results) ==
  IF HealthUsable(health) THEN DeriveFromResults(selected, results) ELSE "UNVALIDATED"
=============================================================================
