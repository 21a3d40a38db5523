----------------------------- MODULE MCRecords -----------------------------
(* Small instances of Records: two processes, one or two tests in a Run.   *)
EXTENDS Records

CONSTANTS o1, o2, c1, c2, e1, e2, first

MCPolicy ==
  [eapol |-> None, dhcp |-> None, dns |-> None, beacon |-> None,
   latency |-> [unit |-> "ms", aggregate |-> "p95", minimum |-> 2, statuses |-> {"VALID"},
                retried |-> TRUE],
   throughput |-> [unit |-> "Mbps", aggregate |-> "mean", minimum |-> 2, statuses |-> {"VALID"},
                   retried |-> FALSE]]

MCCaptures == [t \in DOMAIN MCPolicy |-> IF t \in Protocols THEN t ELSE "none"]

Sample(v) == [value |-> v, status |-> "VALID", warmup |-> FALSE, retried |-> FALSE]
Warm(v) == [Sample(v) EXCEPT !.warmup = TRUE]
Retried(v) == [Sample(v) EXCEPT !.retried = TRUE]
Bad(v) == [Sample(v) EXCEPT !.status = "INVALID"]

MCMeasurements ==
  {<<Sample(10), Sample(10)>>, <<Sample(8), Sample(9)>>, <<Sample(12), Sample(14)>>,
   <<Sample(0), Sample(0)>>, <<Warm(14), Sample(10)>>, <<Warm(8), Sample(12), Sample(14)>>,
   <<Retried(10), Sample(10)>>, <<Bad(8), Sample(8)>>}

Run(t, results, seen) ==
  [NewRun(<<t>>) EXCEPT !.results = results, !.seen = seen, !.lifecycle = "COMPLETED",
                        !.health = "HEALTHY", !.outcome = Derive("HEALTHY", <<t>>, results)]

Captured(t) == Run(t, <<Result(t, "PASS", "COMPLETE", None, <<>>)>>, {e1})
Measures(t, status, samples) ==
  Run(t, <<Result(t, status, "NOT_REQUIRED", MCPolicy[t].unit, samples)>>, {e1})

Bases(t) ==
  {Measures(t, "PASS", <<Sample(10), Sample(10)>>), Measures(t, "PASS", <<Sample(0), Sample(0)>>),
   Measures(t, "PASS", <<Sample(10)>>), Measures(t, "FAIL", <<Sample(10), Sample(10)>>),
   Measures(t, "KNOWN_FAILURE", <<Sample(10), Sample(10)>>), Measures(t, "ERROR", <<>>),
   [Measures(t, "PASS", <<Sample(10), Sample(10)>>) EXCEPT !.seen = {}],
   Run(t, <<>>, {e1})}

\* A Run of two tests, a capture and a measurement.
Both ==
  [Captured("beacon") EXCEPT
     !.suite = <<"beacon", "latency">>, !.selected = <<"beacon", "latency">>,
     !.results = Append(@, Result("latency", "PASS", "NOT_REQUIRED", "ms",
                                  <<Sample(10), Sample(10)>>))]

Good == Measures("latency", "PASS", <<Sample(10), Sample(10)>>)

Old == Image("old", "old", {"base", first}, {first}, {})
New == [Old EXCEPT !.schema = "head", !.rev = "head"]

Jobs(a, b) == [p \in Procs |-> IF p = o1 THEN a ELSE b]
Scene(jobs, b, image, kept) ==
  [job |-> jobs, selected |-> b.selected, base |-> b, image |-> image, backups |-> kept]

MCScenes ==
  {Scene(Jobs("session", "idle"), Captured(t), New, {}) : t \in Protocols}
  \cup {Scene(Jobs("session", "idle"), Both, New, {})}
  \cup {Scene(Jobs("session", "idle"), b, New, {}) :
          b \in Bases("latency") \cup Bases("throughput")}
  \cup {Scene(Jobs(a, b), Good, image, {}) :
          a \in {"promote", "import"}, b \in {"promote", "import"}, image \in {Old, NoFile}}
  \cup {Scene(Jobs(a, "resident"), Good, Old, {}) : a \in {"promote", "import"}}
  \cup {Scene(Jobs("restore", b), Good, New, {Old}) : b \in {"promote", "import"}}

Waiver(scope, code, target) == [scope |-> scope, code |-> code, target |-> target]
MCWaivers == {Waiver("TEST", "NON_PASSING_TEST", "*"), Waiver("RUN", "LAB_NOT_HEALTHY", "run"),
              Waiver("RUN", "NON_PASSING_TEST", "run"),
              Waiver("REGRESSION", "DISALLOWED_REGRESSION_CLASS", "latency")}
MCFrames == [p \in Protocols |-> CASE p = "eapol" -> 5 [] p = "dhcp" -> 5 [] p = "dns" -> 4
                                   [] OTHER -> 3]
=============================================================================
