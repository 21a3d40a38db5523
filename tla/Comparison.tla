----------------------------- MODULE Comparison -----------------------------
(***************************************************************************)
(* Whether a Run may be released: its results against those of a baseline  *)
(* Run (lib/domain/statistics.py, lib/services/regression_intelligence.py) *)
(* and the release gate over the comparison                                *)
(* (lib/services/release_gate.py, DashboardQueryService.release_gate).     *)
(*                                                                         *)
(* A Run is a record of what its rows and its telemetry say.  Every test   *)
(* has at most one metric.  Values are integers; percentages and decision  *)
(* values are in hundredths.                                               *)
(***************************************************************************)
EXTENDS BusinessOutcome, Integers, SequencesExt

CONSTANTS None,
          LowerIsBetter,  \* units
          Policy,         \* measurement policy of each test, or None
          Threshold       \* regression threshold, in percent

ASSUME ThresholdAssumption == Threshold \in Nat \ {0}

\* A policy decides by the size of the samples: not by their count or deviation.
ASSUME PolicyAssumption ==
  \A t \in DOMAIN Policy : Policy[t] # None =>
    /\ Policy[t].aggregate \in {"mean", "median", "p90", "p95", "max", "min"}
    /\ Policy[t].minimum \in Nat \ {0}

-----------------------------------------------------------------------------
(* MeasurementPolicyEvaluator.                                              *)

\* Where the samples are that count.
Eligible(policy, samples) ==
  {i \in DOMAIN samples :
    /\ ~samples[i].warmup
    /\ samples[i].status \in policy.statuses
    /\ samples[i].retried => policy.retried}

Enough(policy, samples) == Cardinality(Eligible(policy, samples)) >= policy.minimum

ValuesAt(samples, places) == {samples[i].value : i \in places}

\* The k-th of these values in ascending order.
Ranked(samples, places, k) ==
  Min({v \in ValuesAt(samples, places) : Cardinality({i \in places : samples[i].value <= v}) >= k})

\* Linear interpolation between the two nearest ranks.
Percentile(samples, places, percent) ==
  LET n == Cardinality(places)
      index == (n - 1) * percent
      lower == index \div 100 + 1
      upper == IF lower + 1 > n THEN n ELSE lower + 1
      part == index % 100
  IN  Ranked(samples, places, lower) * (100 - part) + Ranked(samples, places, upper) * part

Total(samples, places) ==
  LET sum[i \in 0..Len(samples)] ==
        IF i = 0 THEN 0 ELSE sum[i - 1] + (IF i \in places THEN samples[i].value ELSE 0)
  IN  sum[Len(samples)]

DecisionValue(policy, samples) ==
  LET places == Eligible(policy, samples)
      n == Cardinality(places)
  IN CASE policy.aggregate = "mean" -> (100 * Total(samples, places)) \div n
       [] policy.aggregate = "median" -> Percentile(samples, places, 50)
       [] policy.aggregate = "p90" -> Percentile(samples, places, 90)
       [] policy.aggregate = "p95" -> Percentile(samples, places, 95)
       [] policy.aggregate = "max" -> 100 * Ranked(samples, places, n)
       [] policy.aggregate = "min" -> 100 * Ranked(samples, places, 1)

-----------------------------------------------------------------------------
(* RegressionIntelligenceService.                                           *)

NotEvidence == {"ERROR", "BLOCKED", "UNVALIDATED", "SKIPPED"}

\* environment_class: what all telemetry of the Run agrees on.
EnvironmentClass(run) ==
  IF \E e \in run.seen : run.seen = {e} THEN CHOOSE e \in run.seen : TRUE ELSE None

\* _compare_context; suite: profile, lab, tests and their versions.
Comparable(b, c) ==
  /\ b.suite = c.suite
  /\ None \notin {EnvironmentClass(b), EnvironmentClass(c)}
  /\ EnvironmentClass(b) = EnvironmentClass(c)

Rounded(x, y) == (2 * x + y) \div (2 * y)

\* _delta: how much worse, in hundredths of a percent.
Delta(base, current, unit) ==
  IF base = 0 THEN IF current = 0 THEN 0 ELSE 10000
  ELSE Rounded(10000 * (IF unit \in LowerIsBetter THEN current - base ELSE base - current), base)

MetricClass(policy, base, curr) ==
  IF curr.unit = None /\ base.unit = None THEN "UNCHANGED"
  ELSE IF \/ curr.unit # base.unit \/ policy = None
          \/ ~Enough(policy, base.samples) \/ ~Enough(policy, curr.samples) THEN "UNVALIDATED"
  ELSE LET delta == Delta(DecisionValue(policy, base.samples),
                          DecisionValue(policy, curr.samples), curr.unit)
       IN IF delta >= 100 * Threshold THEN "SOFT_REGRESSION"
          ELSE IF delta <= -100 * Threshold THEN "IMPROVED"
          ELSE "UNCHANGED"

\* _compare_test.
CompareTest(base, curr) ==
  IF base.status \in NotEvidence THEN "NO_BASELINE"
  ELSE IF curr.status \in NotEvidence \/ curr.evidence \in {"INCOMPLETE", "INVALID"}
       THEN "UNVALIDATED"
  ELSE CASE base.status = "PASS" /\ curr.status = "FAIL" -> "REGRESSION"
         [] base.status = "FAIL" /\ curr.status = "PASS" -> "FIXED"
         [] base.status = "PASS" /\ curr.status = "PASS" ->
              MetricClass(Policy[curr.test], base, curr)
         [] OTHER -> "UNCHANGED"

\* compare_runs.
Classification(b, c, t) ==
  IF ResultsOf(t, c.results) = {} THEN "UNVALIDATED"
  ELSE IF ~Comparable(b, c) THEN "NO_BASELINE"
  ELSE IF ResultsOf(t, b.results) = {}
       THEN IF ResultFor(t, c.results).status = "PASS" THEN "NEW_PASS" ELSE "NEW_FAILURE"
  ELSE CompareTest(ResultFor(t, b.results), ResultFor(t, c.results))

-----------------------------------------------------------------------------
(* ReleaseGateEvaluator.                                                    *)

Disallowed == {"REGRESSION", "SOFT_REGRESSION", "NEW_FAILURE", "NO_BASELINE", "UNVALIDATED"}
NonPassing == {"FAIL", "ERROR", "BLOCKED", "UNVALIDATED"}

Issue(code, t) == [code |-> code, test |-> t]
When(condition, issue) == IF condition THEN {issue} ELSE {}

RunIssues(b, c) ==
  When(c.lifecycle # "COMPLETED", Issue("RUN_NOT_COMPLETED", None))
    \cup When(c.health # "HEALTHY", Issue("LAB_NOT_HEALTHY", None))
    \cup When(~Comparable(b, c), Issue("NO_BASELINE", None))

ObservedIssues(c, t) ==
  IF ResultsOf(t, c.results) = {}
  THEN {Issue("MISSING_REQUIRED_TEST", t), Issue("INVALID_REQUIRED_EVIDENCE", t)}
  ELSE When(ResultFor(t, c.results).status \in NonPassing, Issue("NON_PASSING_TEST", t))
         \cup When(ResultFor(t, c.results).evidence \in {"INCOMPLETE", "INVALID"},
                   Issue("INVALID_REQUIRED_EVIDENCE", t))

Compared(b, c) == ToSet(b.selected) \cup ToSet(c.selected)
Unreleasable(b, c) == {t \in Compared(b, c) : Classification(b, c, t) \in Disallowed}

Issues(b, c) ==
  RunIssues(b, c)
    \cup {Issue("DISALLOWED_REGRESSION_CLASS", t) : t \in Unreleasable(b, c)}
    \cup UNION {ObservedIssues(c, t) : t \in ToSet(c.selected)}

\* Mutant: the code of the issue is not looked at.
Waives_AnyCode(w, issue) == w.scope = "RUN" \/ w.target \in {"*", issue.test}

Waives(w, issue) ==
  /\ w.code = issue.code
  /\ CASE w.scope \in {"TEST", "REGRESSION"} -> issue.test # None /\ w.target \in {"*", issue.test}
       [] w.scope = "RUN" -> w.target \in {"*", "run"}
       [] w.scope = "RELEASE" -> w.target = "*"

Accepts(b, c, waivers) == \A i \in Issues(b, c) : \E w \in waivers : Waives(w, i)

-----------------------------------------------------------------------------
(* RunService.promote_baseline.                                             *)

\* The metric a test is decided by satisfies its policy.
Measured(r) ==
  Policy[r.test] # None => r.unit = Policy[r.test].unit /\ Enough(Policy[r.test], r.samples)

Promotable(run) ==
  /\ run.lifecycle = "COMPLETED" /\ run.health = "HEALTHY"
  /\ run.outcome = Derive(run.health, run.selected, run.results)
  /\ run.outcome \in Validated
  /\ \A r \in ToSet(run.results) :
       /\ r.status \notin {"UNVALIDATED", "XPASS"}
       /\ r.evidence \notin EvidenceMissing
       /\ r.criticality = "BLOCKING" => r.status = "PASS"
       /\ Measured(r)
=============================================================================
