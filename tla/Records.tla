------------------------------ MODULE Records ------------------------------
(***************************************************************************)
(* The records of a Runner: a session that captures, measures and stores   *)
(* its results (tests/conftest.py, lib/services/artifact_service.py,       *)
(* lib/services/pytest_result_mapping.py), promotions of baselines, the    *)
(* import of legacy rows (lib/services/legacy_migration.py), and the       *)
(* release gate that reads it all, on a database that is being upgraded,   *)
(* backed up and restored.                                                 *)
(*                                                                         *)
(* A scene says what the processes are and which Run is in the database    *)
(* when they start.                                                        *)
(***************************************************************************)
EXTENDS ProtocolEvidence, Comparison, DatabaseFiles

CONSTANTS Scenes,        \* records [job, selected, base, image, backups]
          Captures,      \* the protocol whose exchange each test captures, or "none"
          Environments,  \* environment classes
          Measurements,  \* sequences of samples
          Waivers        \* active waivers the gate may find

\* Rows that an import can bring.
Legacy == {"legacy1", "legacy2"}

ASSUME CapturesAssumption == Captures \in [DOMAIN Policy -> Protocols \cup {"none"}]

\* What is measured are durations, rates and shares: never negative.
Samples == Seq([value : Nat, status : STRING, warmup : BOOLEAN, retried : BOOLEAN])
ASSUME MeasurementsAssumption == Measurements \subseteq Samples

ASSUME WaiversAssumption == \A w \in Waivers : w.scope \in {"TEST", "REGRESSION", "RUN", "RELEASE"}

\* The ids of the rows of a Run, of its tests and of legacy rows differ; the
\* files satisfy the unique index on active baselines and were written with the
\* ledger; ids of baselines to come are fresh.
ASSUME ScenesAssumption ==
  \A s \in Scenes :
    /\ DOMAIN s.job = Procs /\ s.selected \in Seq(DOMAIN Policy)
    /\ \A i \in DOMAIN s.base.results : s.base.results[i].samples \in Samples
    /\ \A p, q \in Procs : s.job[p] = "session" /\ s.job[q] = "session" => p = q
    /\ (Procs \cup ToSet(s.selected)) \cap Legacy = {}
    /\ \A image \in {s.image} \cup s.backups :
         /\ image = Image(image.schema, image.rev, image.rows, image.active, image.ledger)
         /\ Cardinality(image.active) <= 1 /\ image.active \cap Procs = {}
         /\ image.ledger = image.rows \cap Legacy
    /\ \A image \in s.backups : Exists(image)
    /\ ~Exists(s.image) => s.image.rows = {} /\ \A p \in Procs : s.job[p] # "resident"

VARIABLES scene,      \* the scene
          candidate,  \* the Run of the session
          choice,     \* what each process is working on
          proved      \* whether the exchange of each test was claimed, and whether it happened

recordVars == <<scene, candidate, choice, proved>>
vars == <<captureVars, fileVars, recordVars>>

\* Points of a process that has initialized the database.
Serving == {"ready", "before", "test", "analyzed", "after", "result", "recording", "completing",
            "promotable", "promoting", "importing"}

base == scene.base
Tests == ToSet(scene.selected)

NewRun(selected) ==
  [suite |-> selected, selected |-> selected, seen |-> {}, results |-> <<>>,
   lifecycle |-> "RUNNING", health |-> "UNKNOWN", outcome |-> "UNVALIDATED"]

-----------------------------------------------------------------------------
(* The session.                                                             *)

\* Telemetry before and after a test: a failure is only a warning.
Telemetry(p, from, to) ==
  /\ point[p] = from
  /\ \E e \in {{}} \cup {{c} : c \in Environments} :
       candidate' = [candidate EXCEPT !.seen = @ \cup e]
  /\ Goto(p, to)
  /\ UNCHANGED <<captureVars, live, backups, flock, open, saved, stored, window,
                 scene, choice, proved>>

\* Where the tests without a result are in the selection; the first is next.
Untested == {k \in DOMAIN scene.selected : ResultsOf(scene.selected[k], candidate.results) = {}}
NextTest == scene.selected[Min(Untested)]

StartTest(p) ==
  /\ point[p] = "ready" /\ scene.job[p] = "session" /\ Untested # {}
  /\ IF Captures[NextTest] = "none"
     THEN UNCHANGED captureVars
     ELSE Listen(Captures[NextTest])
  /\ Goto(p, "before")
  /\ UNCHANGED <<live, backups, flock, open, saved, stored, window, recordVars>>

\* Reports of the phases of a test; call is "none" when the setup ended it.
Reports == [setup : {"passed", "failed", "skipped"}, call : {"passed", "failed", "skipped", "none"},
            teardown : {"passed", "failed"}, xfail : BOOLEAN]

\* map_pytest_reports.
Mapped(r) ==
  IF r.setup = "failed" THEN "ERROR"
  ELSE IF r.call # "none" /\ r.xfail
       THEN IF r.call = "skipped" THEN "KNOWN_FAILURE" ELSE "XPASS"
  ELSE IF r.call = "failed" THEN "FAIL"
  ELSE IF r.teardown = "failed" THEN "ERROR"
  ELSE CASE r.call = "passed" -> "PASS"
         [] r.call = "skipped" -> "SKIPPED"
         [] OTHER -> IF r.xfail THEN "KNOWN_FAILURE" ELSE "SKIPPED"

\* Phases pytest can report when the body of the test passes, or does not.  A
\* body that fails under xfail is skipped, one that passes may be failed.
ReportsOf(passes) ==
  {r \in Reports :
    /\ r.setup = "passed" <=> r.call # "none"
    /\ r.call = "passed" => passes
    /\ r.call = "skipped" => ~passes
    /\ r.call = "failed" => (passes <=> r.xfail)}

\* evaluate_test_evidence of one required artifact: it is there and what was
\* registered, it has changed since, or it is missing.
EvidenceStates == {"COMPLETE", "INVALID", "INCOMPLETE"}

\* Mutant: whatever the state of the evidence, a test that passed has passed.
Trusted_Always(status, evidence) == status

\* A test without its evidence has not passed.
Trusted(status, evidence) ==
  IF status \in {"PASS", "XPASS"} /\ evidence \in EvidenceMissing THEN "UNVALIDATED" ELSE status

Result(t, status, evidence, unit, samples) ==
  [test |-> t, status |-> status, criticality |-> "BLOCKING", evidence |-> evidence,
   product |-> FALSE, unit |-> unit, samples |-> samples]

\* The capture ends and is analyzed; proved also keeps what happened.
EndCapture(p) ==
  /\ point[p] = "test" /\ Captures[NextTest] # "none"
  /\ proved' = [proved EXCEPT ![NextTest] = [claimed |-> Claimed, happened |-> Happened]]
  /\ Listen("none")
  /\ Goto(p, "analyzed")
  /\ UNCHANGED <<live, backups, flock, open, saved, stored, window, scene, candidate, choice>>

\* Its test passes when the analyzer makes the claim and nothing else raises.
Conclude(p) ==
  /\ point[p] = "analyzed"
  /\ \E raises \in BOOLEAN, evidence \in EvidenceStates :
     \E r \in ReportsOf(proved[NextTest].claimed /\ ~raises) :
       choice' = [choice EXCEPT ![p] =
                    Result(NextTest, Trusted(Mapped(r), evidence), evidence, None, <<>>)]
  /\ Goto(p, "after")
  /\ UNCHANGED <<captureVars, live, backups, flock, open, saved, stored, window,
                 scene, candidate, proved>>

\* The test with a measurement passes or fails on a threshold of its own.
Measure(p) ==
  /\ point[p] = "test" /\ Captures[NextTest] = "none"
  /\ \E passes \in BOOLEAN : \E r \in ReportsOf(passes), samples \in Measurements :
       choice' = [choice EXCEPT ![p] =
                    LET t == NextTest IN
                    IF r.call = "none"
                    THEN Result(t, Mapped(r), "NOT_REQUIRED", None, <<>>)
                    ELSE Result(t, Mapped(r), "NOT_REQUIRED", Policy[t].unit, samples)]
  /\ Goto(p, "after")
  /\ UNCHANGED <<captureVars, live, backups, flock, open, saved, stored, window,
                 scene, candidate, proved>>

BeginResult(p) ==
  /\ Begin(p, "result", "recording")
  /\ UNCHANGED <<captureVars, recordVars>>

Add(image, row) == [image EXCEPT !.rows = @ \cup {row}]

RecordResult(p) ==
  /\ point[p] = "recording"
  /\ Commit(p, Add(live.view, choice[p].test), choice[p].test)
  /\ candidate' = [candidate EXCEPT !.results = Append(@, choice[p])]
  /\ choice' = [choice EXCEPT ![p] = None]
  /\ Goto(p, "ready")
  /\ UNCHANGED <<captureVars, scene, proved>>

BeginCompletion(p) ==
  /\ scene.job[p] = "session" /\ Untested = {}
  /\ Begin(p, "ready", "completing")
  /\ UNCHANGED <<captureVars, recordVars>>

CompleteRun(p) ==
  /\ point[p] = "completing"
  /\ Commit(p, Add(live.view, "run"), "run")
  /\ \E h \in {"HEALTHY", "DEGRADED"} :
       candidate' = [candidate EXCEPT
                       !.lifecycle = "COMPLETED", !.health = h,
                       !.outcome = Derive(h, candidate.selected, candidate.results)]
  /\ Goto(p, "over")
  /\ UNCHANGED <<captureVars, scene, choice, proved>>

-----------------------------------------------------------------------------
(* Promotion of a baseline.                                                 *)

\* The results whose rows are in the database, in their order.
Read(results) ==
  LET read[i \in 0..Len(results)] ==
        IF i = 0 THEN <<>>
        ELSE IF results[i].test \in live.view.rows THEN Append(read[i - 1], results[i])
        ELSE read[i - 1]
  IN  read[Len(results)]

\* The Run as its rows tell it.
Stored(run) ==
  [run EXCEPT !.results = Read(@),
              !.lifecycle = IF "run" \in live.view.rows THEN @ ELSE "RUNNING"]

\* The facts are read before the transaction begins.
Check(p) ==
  /\ point[p] = "ready" /\ scene.job[p] = "promote"
  /\ \/ /\ "base" \in live.view.rows /\ Promotable(base)
        /\ choice' = [choice EXCEPT ![p] = "base"]
        /\ Goto(p, "promotable")
     \/ /\ Promotable(Stored(candidate))
        /\ choice' = [choice EXCEPT ![p] = "run"]
        /\ Goto(p, "promotable")
     \/ /\ ~("base" \in live.view.rows /\ Promotable(base))
        /\ ~Promotable(Stored(candidate))
        /\ Goto(p, "over") /\ UNCHANGED choice
  /\ UNCHANGED <<captureVars, live, backups, flock, open, saved, stored, window,
                 scene, candidate, proved>>

BeginPromotion(p) ==
  /\ Begin(p, "promotable", "promoting")
  /\ UNCHANGED <<captureVars, recordVars>>

\* Mutant: nothing is superseded.
Promoted_Beside(image, p) ==
  [Add(image, p) EXCEPT !.active = @ \cup {p}]

\* save_replacing_active: what is active is superseded.
Promoted(image, p) == [Add(image, p) EXCEPT !.active = {p}]

Promote(p) ==
  /\ point[p] = "promoting"
  /\ Commit(p, Promoted(live.view, p), p)
  /\ Goto(p, "over")
  /\ UNCHANGED <<captureVars, recordVars>>

-----------------------------------------------------------------------------
(* The import of legacy rows, and a process of an earlier release.          *)

\* The rows are read once; each has a transaction of its own.
BeginImport(p) ==
  /\ scene.job[p] = "import"
  /\ \E l \in Legacy :
       /\ choice[p] = None \/ (choice[p] = "legacy1" /\ l = "legacy2")
       /\ choice[p] = None => l = "legacy1"
       /\ choice' = [choice EXCEPT ![p] = l]
  /\ Begin(p, "ready", "importing")
  /\ UNCHANGED <<captureVars, scene, candidate, proved>>

Imported(image, l) == [Add(image, l) EXCEPT !.ledger = @ \cup {l}]

\* A row that is in the ledger is skipped; its ids would be refused.
Import(p) ==
  /\ point[p] = "importing"
  /\ IF choice[p] \in live.view.ledger
     THEN Close(p) /\ UNCHANGED <<live, backups, flock, saved, stored, window>>
     ELSE Commit(p, Imported(live.view, choice[p]), choice[p])
  /\ Goto(p, "ready")
  /\ UNCHANGED <<captureVars, recordVars>>

ImportEnds(p) ==
  /\ point[p] = "ready" /\ scene.job[p] = "import" /\ choice[p] = "legacy2"
  /\ Goto(p, "over")
  /\ UNCHANGED <<captureVars, live, backups, flock, open, saved, stored, window, recordVars>>

BeginResident(p) ==
  /\ scene.job[p] = "resident" /\ p \notin stored
  /\ Begin(p, "ready", "writing")
  /\ UNCHANGED <<captureVars, recordVars>>

ResidentWrites(p) ==
  /\ point[p] = "writing"
  /\ Commit(p, Add(live.view, p), p)
  /\ Goto(p, "over")
  /\ UNCHANGED <<captureVars, recordVars>>

-----------------------------------------------------------------------------

First(job) == CASE job = "resident" -> "ready" [] job = "restore" -> "restore"
                [] job = "idle" -> "over" [] OTHER -> "start"

Init ==
  /\ scene \in Scenes
  /\ live = File(scene.image)
  /\ backups = scene.backups
  /\ flock = Absent
  /\ point = [p \in Procs |-> First(scene.job[p])]
  /\ open = [p \in Procs |-> "none"]
  /\ saved = [p \in Procs |-> NoFile]
  /\ stored = scene.image.rows
  /\ window = {}
  /\ Quiet
  /\ candidate = NewRun(scene.selected)
  /\ choice = [p \in Procs |-> None]
  /\ proved = [t \in DOMAIN Policy |-> [claimed |-> FALSE, happened |-> FALSE]]

Session(p) ==
  \/ StartTest(p) \/ Telemetry(p, "before", "test") \/ EndCapture(p) \/ Conclude(p) \/ Measure(p)
  \/ Telemetry(p, "after", "result") \/ BeginResult(p) \/ RecordResult(p)
  \/ BeginCompletion(p) \/ CompleteRun(p)

Files(p) ==
  /\ \/ Initializing(p) \/ LockForRestore(p) \/ Keep(p) \/ Rollback(p, "over") \/ Checkpoint
     \/ protocol = "none" /\ Die(p)
  /\ UNCHANGED <<captureVars, recordVars>>

Frames(p) ==
  /\ point[p] = "test"
  /\ \E c \in Stations : Capturing(c)
  /\ UNCHANGED <<fileVars, recordVars>>

Next ==
  \E p \in Procs :
    \/ Session(p) \/ Frames(p) \/ Check(p) \/ BeginPromotion(p) \/ Promote(p)
    \/ BeginImport(p) \/ Import(p) \/ ImportEnds(p) \/ BeginResident(p) \/ ResidentWrites(p)
    \/ Files(p)

Spec == Init /\ [][Next]_vars

-----------------------------------------------------------------------------
(* Properties.                                                             *)

\* Connections, locks and results have their types, and a process that is over
\* holds nothing.
TypeOK ==
  /\ open \in [Procs -> {"none", "live", "replaced"}]
  /\ flock \in Procs \cup {Absent}
  /\ \A p \in Procs : point[p] = "over" => open[p] = "none" /\ flock # p /\ saved[p] = NoFile
  /\ window \subseteq stored
  /\ candidate.outcome \in Outcomes /\ candidate.health \in Health
  /\ \A r \in ToSet(candidate.results) : Recordable(r)

\* No history is lost: a row whose transaction was answered is in the database
\* or in a backup, whatever upgrade failed, recovered or was killed.  The
\* exception are rows that a process of an earlier release writes while an
\* upgrade is past its backup.  As for ServesAtHead, a database at head is
\* taken to pass its inspection (see Inspect).
StoredRowsSurvive ==
  stored \ window \subseteq
    UNION {image.rows : image \in backups \cup {live.view}}

\* A process that has initialized works on a database at the head of the
\* schema, whoever else upgrades, fails and restores.
ServesAtHead ==
  \A p \in Procs : point[p] \in Serving /\ scene.job[p] # "resident" => AtHead(live.view)

Consistent(image) ==
  /\ Cardinality(image.active) <= 1
  /\ image.ledger = image.rows \cap Legacy
  /\ \A p \in Procs \cap image.active : choice[p] # None => choice[p] \in image.rows

\* The database and every backup hold at most one active baseline, whose Run is
\* there with it, and a legacy row exactly when the ledger names it.
FilesAreConsistent ==
  \A image \in {live.view, live.main} \cup backups : Consistent(image)

-----------------------------------------------------------------------------

\* Every sample that counts is worse than every one of the baseline, by the
\* threshold at least.  (A baseline of 0 counts as doubled by whatever is worse,
\* which is nothing to a threshold above 100 %.)
Degraded(policy, b, c) ==
  LET Values(r) == ValuesAt(r.samples, Eligible(policy, r.samples)) IN
  /\ Values(b) # {} /\ Values(c) # {}
  /\ Threshold > 100 => 0 \notin Values(b)
  /\ \A x \in Values(b), y \in Values(c) :
       IF policy.unit \in LowerIsBetter
       THEN 100 * (y - x) >= Threshold * x /\ y > x
       ELSE 100 * (x - y) >= Threshold * x /\ y < x

Genuine(r) ==
  /\ r.status \in {"PASS", "XPASS", "KNOWN_FAILURE"}
  /\ r.status \in {"PASS", "XPASS"} => r.evidence \in {"COMPLETE", "NOT_REQUIRED"}
  /\ r.status = "PASS" /\ Captures[r.test] # "none" => proved[r.test].happened
  /\ r.status = "PASS" /\ r.unit # None /\ ResultsOf(r.test, base.results) # {} =>
       LET b == ResultFor(r.test, base.results) IN
       b.status = "PASS" =>
         /\ Cardinality({i \in DOMAIN r.samples : ~r.samples[i].warmup})
              >= Policy[r.test].minimum
         /\ ~Degraded(Policy[r.test], b, r)

\* What the release gate accepts, for each set of waivers that may be active, is
\* a Run that nobody waived whose every test has a genuine result: seen to
\* happen on the air, on whole evidence, measured enough and no worse than the
\* baseline in the same environment and lab.
AcceptSound ==
  \A p \in Procs :
    scene.job[p] = "session" /\ point[p] = "over" =>
       \A W \in SUBSET Waivers :
         LET c == Stored(candidate)
             Waived(code, t) ==
               \E w \in W :
                 w.code = code /\ w.target \in {"*", IF w.scope = "RUN" THEN "run" ELSE t}
         IN Accepts(base, c, W) =>
              /\ c.lifecycle = "COMPLETED" \/ Waived("RUN_NOT_COMPLETED", "run")
              /\ c.health = "HEALTHY" \/ Waived("LAB_NOT_HEALTHY", "run")
              /\ \A t \in ToSet(c.selected) :
                   \/ \E code \in {"NON_PASSING_TEST", "DISALLOWED_REGRESSION_CLASS",
                                   "MISSING_REQUIRED_TEST"} : Waived(code, t)
                   \/ /\ ResultsOf(t, c.results) # {}
                      /\ Genuine(ResultFor(t, c.results))
                      /\ c.seen # {} /\ c.seen = base.seen
=============================================================================
