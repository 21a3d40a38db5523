---------------------------- MODULE RunService ----------------------------
(***************************************************************************)
(* The operations of RunService on one persisted Run, one step for each    *)
(* repository call they make.                                              *)
(*                                                                         *)
(* Every repository call opens its own SQLite connection and commits by    *)
(* itself, and SQLiteRunRepository.update writes every column of the row   *)
(* from the caller's object.  An operation is therefore a read, a local    *)
(* change of the copy, a whole-row write, the Attempt updates and an event *)
(* append, with the steps of other processes in between: call[c] is the    *)
(* operation in flight for process c, with the copy it read.               *)
(***************************************************************************)
EXTENDS BusinessOutcome, Integers

CONSTANTS Processes,   \* the processes that call the service
          Selected,    \* Run.selected_tests, a sequence
          NULL         \* no test (the result of a call that stores none)

ASSUME SelectedAssumption ==
  Selected \in Seq({Selected[i] : i \in DOMAIN Selected}) /\ Selected # <<>>
ASSUME NullAssumption == NULL \notin {Selected[i] : i \in DOMAIN Selected}

VARIABLES row,       \* the row of the Run in table runs
          attempts,  \* attempts[n] is "open" until its completed_at is set
          results,   \* the TestResults of Attempt 1, in the order saved
          events,    \* the types of the lifecycle events, oldest first
          call       \* the service call each process is executing

dbVars == <<row, attempts, results, events>>
serviceVars == <<row, attempts, results, events, call>>

Tests == {Selected[i] : i \in DOMAIN Selected}

Active == {"QUEUED", "PREPARING", "LAB_HEALTH_CHECK", "RUNNING"}
Terminal == {"COMPLETED", "FAILED", "LAB_FAILED", "CANCELLED", "ABORTED"}
\* "ABSENT": the row has not been inserted yet.
Lifecycle == Active \cup Terminal \cup {"ABSENT"}
FailureClass == {"PRODUCT_FAILED", "LAB_FAILED", "RUNNER_DISCONNECTED",
                 "WORKER_CRASHED", "TIMED_OUT", "CANCELLED", "ABORTED"}

Allowed(lc) ==
  CASE lc = "QUEUED" -> {"PREPARING", "CANCELLED", "ABORTED", "LAB_FAILED"}
    [] lc = "PREPARING" -> {"LAB_HEALTH_CHECK", "RUNNING", "FAILED", "LAB_FAILED",
                            "CANCELLED", "ABORTED"}
    [] lc = "LAB_HEALTH_CHECK" -> {"RUNNING", "LAB_FAILED", "CANCELLED", "ABORTED"}
    [] lc = "RUNNING" -> Terminal
    [] OTHER -> {}

Rows == [lc : Lifecycle, outcome : Outcomes \cup {"NONE"},
         fclass : FailureClass \cup {"NONE"}, health : Health \cup {"NONE"},
         pid : BOOLEAN, started : BOOLEAN]

NoRow == [lc |-> "ABSENT", outcome |-> "NONE", fclass |-> "NONE",
          health |-> "NONE", pid |-> FALSE, started |-> FALSE]

-----------------------------------------------------------------------------
(* The operations.  The operations that end a Run share _finish and differ *)
(* in what they pass to it; "complete" and "fail" first derive the outcome.*)

FinishOps == {"complete", "fail", "lab_fail", "cancel", "timeout",
              "disconnect", "crash", "abort"}
TransitionOps == {"prepare", "health_check", "start"}
ResaveOps == {"snapshot", "set_pid"}
Ops == FinishOps \cup TransitionOps \cup ResaveOps
         \cup {"health", "result", "request_cancel", "none"}

Target(op) ==
  CASE op = "complete" -> "COMPLETED"
    [] op = "fail" -> "FAILED"
    [] op = "lab_fail" -> "LAB_FAILED"
    [] op = "cancel" -> "CANCELLED"
    [] op \in {"timeout", "disconnect", "crash", "abort"} -> "ABORTED"
    [] op = "prepare" -> "PREPARING"
    [] op = "health_check" -> "LAB_HEALTH_CHECK"
    [] OTHER -> "RUNNING"

ClassOf(op) ==
  CASE op = "lab_fail" -> "LAB_FAILED"
    [] op = "cancel" -> "CANCELLED"
    [] op = "timeout" -> "TIMED_OUT"
    [] op = "disconnect" -> "RUNNER_DISCONNECTED"
    [] op = "crash" -> "WORKER_CRASHED"
    [] op = "abort" -> "ABORTED"
    [] OTHER -> "NONE"

\* Mutant: a failing pytest exit keeps a derived validation.
Settled_Kept(op, outcome) == outcome

\* fail_run(failure_class=None) keeps a derived outcome unless it is a validation.
Settled(op, outcome) ==
  IF op = "fail" /\ outcome \in Validated THEN "UNVALIDATED" ELSE outcome

\* Mutant: the ending operations finish without deriving the outcome.
Entry_NoDerive(op) ==
  CASE op \in FinishOps \cup {"prepare", "health_check"} -> "read"
    [] op = "start" -> "guard"
    [] op = "health" -> "read_health"
    [] op = "result" -> "save"
    [] op = "request_cancel" -> "check"
    [] OTHER -> "update"

\* The first repository call of each operation.
Entry(op) ==
  CASE op \in {"complete", "fail"} -> "derive"
    [] op \in (FinishOps \ {"complete", "fail"}) \cup {"prepare", "health_check"} -> "read"
    [] op = "start" -> "guard"
    [] op = "health" -> "read_health"
    [] op = "result" -> "save"
    [] op = "request_cancel" -> "check"
    [] OTHER -> "update"

Stages == {"idle", "derive", "derive_results", "read", "guard", "read_health",
           "save", "check", "list_events", "update", "list", "close", "event",
           "restamp", "done", "raised", "failed"}

NoResult == [test |-> NULL, status |-> "PASS", criticality |-> "BLOCKING",
             evidence |-> "NOT_REQUIRED", product |-> FALSE]

Calls == [op : Ops, stage : Stages, copy : Rows, outcome : Outcomes,
          todo : SUBSET Nat, health : Health, result : Results(Tests \cup {NULL})]

Idle == [op |-> "none", stage |-> "idle", copy |-> NoRow, outcome |-> "UNVALIDATED",
         todo |-> {}, health |-> "HEALTHY", result |-> NoResult]

\* "raised": RunService refused the operation (DomainValidationError);
\* "failed": a repository call failed.  Both leave it as an exception.
InFlight(c) == call[c].stage \notin {"idle", "done", "raised", "failed"}
Returned(c) == call[c].stage = "done"
Refused(c) == call[c].stage = "raised"
Raised(c) == call[c].stage \in {"raised", "failed"}

\* The calls: an operation that reads the row itself, record_environment_health,
\* record_test_result, and writing back the Run object an earlier operation
\* returned, with a field changed.
Invoked(op) == [Idle EXCEPT !.op = op, !.stage = Entry(op)]
HealthCall(health) == [Invoked("health") EXCEPT !.health = health]
ResultCall(result) == [Invoked("result") EXCEPT !.result = result]
ResaveCall(op, copy) == [Invoked(op) EXCEPT !.copy = copy]

Invoke(c, op) == call' = [call EXCEPT ![c] = Invoked(op)]
InvokeHealth(c, health) == call' = [call EXCEPT ![c] = HealthCall(health)]
InvokeResult(c, result) == call' = [call EXCEPT ![c] = ResultCall(result)]
Resave(c, op, copy) == call' = [call EXCEPT ![c] = ResaveCall(op, copy)]

Goto(c, stage) == call' = [call EXCEPT ![c].stage = stage]
Refuse(c) == Goto(c, "raised")

-----------------------------------------------------------------------------
(* The repository calls.                                                   *)

\* save_initial_bundle: the Run, Attempt 1 and both events in one transaction.
CreateRun ==
  /\ row.lc = "ABSENT"
  /\ row' = [NoRow EXCEPT !.lc = "QUEUED"]
  /\ attempts' = <<"open">>
  /\ events' = <<"RUN_CREATED", "ATTEMPT_CREATED">>
  /\ UNCHANGED results

\* derive_business_outcome reads the Run first: an unusable lab decides.
DeriveFromRun(c) ==
  /\ call[c].stage = "derive"
  /\ IF HealthUsable(row.health)
     THEN Goto(c, "derive_results")
     ELSE call' = [call EXCEPT ![c] = [@ EXCEPT !.stage = "read", !.outcome = "UNVALIDATED"]]
  /\ UNCHANGED dbVars

\* ... and then the results of the latest Attempt.
DeriveFromAttempt(c) ==
  /\ call[c].stage = "derive_results"
  /\ call' = [call EXCEPT ![c] = [@ EXCEPT !.stage = "read",
                !.outcome = Settled(call[c].op, DeriveFromResults(Selected, results))]]
  /\ UNCHANGED dbVars

\* _finish reads the Run again and checks the transition.
FinishRead(c) ==
  LET op == call[c].op IN
  /\ call[c].stage = "read"
  /\ op \in FinishOps
  /\ IF Target(op) \in Allowed(row.lc)
     THEN call' = [call EXCEPT ![c] = [@ EXCEPT !.stage = "update",
                     !.copy = [row EXCEPT !.lc = Target(op), !.outcome = call[c].outcome,
                                          !.fclass = ClassOf(op)]]]
     ELSE Refuse(c)
  /\ UNCHANGED dbVars

TransitionRead(c) ==
  LET op == call[c].op IN
  /\ call[c].stage = "read"
  /\ op \in TransitionOps
  /\ IF Target(op) \in Allowed(row.lc)
     THEN call' = [call EXCEPT ![c] = [@ EXCEPT !.stage = "update",
                                                !.copy = [row EXCEPT !.lc = Target(op)]]]
     ELSE Refuse(c)
  /\ UNCHANGED dbVars

\* start_run_after_health insists on LAB_HEALTH_CHECK before it calls transition.
StartGuard(c) ==
  /\ call[c].stage = "guard"
  /\ IF row.lc = "LAB_HEALTH_CHECK" THEN Goto(c, "read") ELSE Refuse(c)
  /\ UNCHANGED dbVars

\* record_environment_health keeps the worse of the stored and the new status.
HealthSeverity(health) ==
  CASE health = "NONE" -> -1
    [] health = "HEALTHY" -> 0
    [] health \in {"DEGRADED", "UNKNOWN"} -> 1
    [] OTHER -> 2

\* Mutant: the latest status wins instead of the worst.
HealthRead_Latest(c) ==
  /\ call[c].stage = "read_health"
  /\ IF row.lc \notin {"LAB_HEALTH_CHECK", "RUNNING", "COMPLETED", "FAILED", "LAB_FAILED"}
     THEN Refuse(c)
     ELSE call' = [call EXCEPT ![c] = [@ EXCEPT !.stage = "update",
                                              !.copy = [row EXCEPT !.health = call[c].health]]]
  /\ UNCHANGED dbVars

HealthRead(c) ==
  LET new == call[c].health IN
  /\ call[c].stage = "read_health"
  /\ IF row.lc \notin {"LAB_HEALTH_CHECK", "RUNNING", "COMPLETED", "FAILED", "LAB_FAILED"}
     THEN Refuse(c)
     ELSE IF HealthSeverity(new) > HealthSeverity(row.health)
     THEN call' = [call EXCEPT ![c] = [@ EXCEPT !.stage = "update",
                                              !.copy = [row EXCEPT !.health = new]]]
     ELSE Goto(c, "done")
  /\ UNCHANGED dbVars

\* SQLiteRunRepository.update: every column, whatever the row holds by now.
UpdateRun(c) ==
  LET op == call[c].op IN
  /\ call[c].stage = "update"
  /\ row' = call[c].copy
  /\ Goto(c, CASE op \in FinishOps -> "list"
               [] op \in TransitionOps -> "event"
               [] OTHER -> "done")
  /\ UNCHANGED <<attempts, results, events>>

\* start_run_after_health stores started_at from the object transition returned.
RestampStarted(c) ==
  LET started == [call[c].copy EXCEPT !.started = TRUE] IN
  /\ call[c].stage = "restamp"
  /\ row' = started
  /\ call' = [call EXCEPT ![c] = [@ EXCEPT !.stage = "event", !.copy = started]]
  /\ UNCHANGED <<attempts, results, events>>

ListOpenAttempts(c) ==
  LET open == {n \in DOMAIN attempts : attempts[n] = "open"} IN
  /\ call[c].stage = "list"
  /\ call' = [call EXCEPT ![c] = [@ EXCEPT !.stage = IF open = {} THEN "event" ELSE "close",
                                         !.todo = open]]
  /\ UNCHANGED dbVars

CloseAttempt(c) ==
  /\ call[c].stage = "close"
  /\ \E n \in call[c].todo :
       /\ \A m \in call[c].todo : n <= m
       /\ attempts' = [attempts EXCEPT ![n] = "closed"]
       /\ call' = [call EXCEPT ![c] =
            [@ EXCEPT !.stage = IF call[c].todo = {n} THEN "event" ELSE "close",
                      !.todo = call[c].todo \ {n}]]
  /\ UNCHANGED <<row, results, events>>

EventTypes ==
  {"RUN_CREATED", "ATTEMPT_CREATED", "RUN_PREPARING", "RUN_LAB_HEALTH_CHECK",
   "RUN_STARTED", "RUN_RUNNING", "TEST_COMPLETED", "RUN_CANCEL_REQUESTED",
   "RUN_COMPLETED", "RUN_FAILED", "RUN_LAB_FAILED", "RUN_CANCELLED", "RUN_TIMED_OUT",
   "RUN_RUNNER_DISCONNECTED", "RUN_WORKER_CRASHED", "RUN_ABORTED"}

EventOf(op, copy) ==
  CASE op = "prepare" -> "RUN_PREPARING"
    [] op = "health_check" -> "RUN_LAB_HEALTH_CHECK"
    [] op = "start" -> IF copy.started THEN "RUN_STARTED" ELSE "RUN_RUNNING"
    [] op = "result" -> "TEST_COMPLETED"
    [] op = "request_cancel" -> "RUN_CANCEL_REQUESTED"
    [] op = "complete" -> "RUN_COMPLETED"
    [] op = "fail" -> "RUN_FAILED"
    [] op = "lab_fail" -> "RUN_LAB_FAILED"
    [] op = "cancel" -> "RUN_CANCELLED"
    [] op = "timeout" -> "RUN_TIMED_OUT"
    [] op = "disconnect" -> "RUN_RUNNER_DISCONNECTED"
    [] op = "crash" -> "RUN_WORKER_CRASHED"
    [] OTHER -> "RUN_ABORTED"

FinishEvents == {EventOf(op, NoRow) : op \in FinishOps}

\* The last call of an operation, except that "start" stamps started_at between
\* the event of the transition and its own.
AppendEvent(c) ==
  LET op == call[c].op IN
  /\ call[c].stage = "event"
  /\ events' = Append(events, EventOf(op, call[c].copy))
  /\ Goto(c, IF op = "start" /\ ~call[c].copy.started THEN "restamp" ELSE "done")
  /\ UNCHANGED <<row, attempts, results>>

\* record_test_result checks that Run and Attempt exist, never the lifecycle.
SaveResult(c) ==
  /\ call[c].stage = "save"
  /\ IF row.lc # "ABSENT" /\ Recordable(call[c].result)
     THEN results' = Append(results, call[c].result) /\ Goto(c, "event")
     ELSE UNCHANGED results /\ Refuse(c)
  /\ UNCHANGED <<row, attempts, events>>

\* request_cancel refuses a terminal Run ...
CancelCheck(c) ==
  /\ call[c].stage = "check"
  /\ IF row.lc \in Terminal THEN Refuse(c) ELSE Goto(c, "list_events")
  /\ UNCHANGED dbVars

CancelRequested == \E i \in DOMAIN events : events[i] = "RUN_CANCEL_REQUESTED"

\* ... and appends its event unless one is there already.
CancelListEvents(c) ==
  /\ call[c].stage = "list_events"
  /\ Goto(c, IF CancelRequested THEN "done" ELSE "event")
  /\ UNCHANGED dbVars

\* Any repository call may fail instead (a locked or full database): the
\* transaction rolls back and the exception leaves the operation.
RepositoryFails(c) ==
  /\ InFlight(c)
  /\ Goto(c, "failed")
  /\ UNCHANGED dbVars

ServiceStep(c) ==
  \/ DeriveFromRun(c)    \/ DeriveFromAttempt(c) \/ FinishRead(c)
  \/ TransitionRead(c)   \/ StartGuard(c)        \/ HealthRead(c)
  \/ UpdateRun(c)        \/ RestampStarted(c)    \/ ListOpenAttempts(c)
  \/ CloseAttempt(c)     \/ AppendEvent(c)       \/ SaveResult(c)
  \/ CancelCheck(c)      \/ CancelListEvents(c)

ServiceInit ==
  /\ row = NoRow
  /\ attempts = <<>>
  /\ results = <<>>
  /\ events = <<>>
  /\ call = [c \in Processes |-> Idle]

ServiceTypeOK ==
  /\ row \in Rows
  /\ attempts \in Seq({"open", "closed"})
  /\ results \in Seq(Results(Tests))
  /\ events \in Seq(EventTypes)
  /\ call \in [Processes -> Calls]

-----------------------------------------------------------------------------
Contract == INSTANCE RunContract
              WITH lc <- row.lc, outcome <- row.outcome, fclass <- row.fclass

\* A decided row has an outcome and a failure class that fit its lifecycle, an
\* undecided one has neither.
RowOK(r) ==
  IF r.lc \in Terminal THEN Contract!Decision(r.lc, r.outcome, r.fclass)
  ELSE r.outcome = "NONE" /\ r.fclass = "NONE"
=============================================================================
