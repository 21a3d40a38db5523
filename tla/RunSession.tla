---------------------------- MODULE RunSession ----------------------------
(***************************************************************************)
(* One validation Run, end to end: the pytest process that executes it     *)
(* (tests/conftest.py with RunOrchestrator.prepare), the dashboard's       *)
(* cancel handlers and orphan recovery, all calling RunService on the same *)
(* row.                                                                    *)
(*                                                                         *)
(* ctl[p] is where the process p is in its own code; while RunService      *)
(* executes an operation for p, call[p] is in flight and ctl[p] waits.     *)
(***************************************************************************)
EXTENDS RunService

CONSTANTS Worker,     \* the pytest process
          Handlers,   \* concurrent POST /runs/<id>/cancel requests
          Recovery,   \* whoever runs recover_orphaned_runs
          Shapes,     \* the results a test may have (their test is filled in)
          MaxFaults,  \* bound: repository calls, set-up steps and kills that fail
          MaxCrashes  \* bound: worker crashes and dashboard restarts

ASSUME ProcessesAssumption ==
  /\ Worker \notin Handlers
  /\ Recovery \notin Handlers
  /\ Worker # Recovery
  /\ Processes = Handlers \cup {Worker, Recovery}
ASSUME ShapesAssumption == Shapes \subseteq {r \in Results({NULL}) : Recordable(r)}
ASSUME BoundsAssumption == MaxFaults \in Nat /\ MaxCrashes \in Nat

VARIABLES ctl,       \* where each process is in its own code
          w,         \* the pytest process's local state
          group,     \* the pytest process group in the process table
          manifest,  \* the dashboard's ownership record of the group
          acked,     \* some cancel request was answered 200 CANCELLED
          faults, crashes

vars == <<row, attempts, results, events, call, ctl, w, group, manifest, acked,
          faults, crashes>>
procVars == <<group, manifest, acked, faults, crashes>>

WorkerPoints == {"launched", "preparing", "prepare_failed", "snapshot", "begin_health",
                 "before", "before_failed", "starting", "publishing", "testing",
                 "recording", "finalize", "after", "after_lab_fail", "after_lab_fail_again",
                 "close", "decide", "deciding", "crash_handler", "crashing", "gone"}
HandlerPoints == {"waiting", "validate", "requesting", "signal", "killing", "unstopped",
                  "unstopped_done", "settle", "settling", "reply"}

\* "lingering": pytest is gone, a process it started is still in the group.
Groups == {"running", "lingering", "gone"}
\* "watched": a reaper thread of the dashboard will remove the record when the
\* group is gone; "unwatched": it gave up or its dashboard restarted.
Manifests == {"watched", "unwatched", "none"}

At(p, point) == ctl[p] = point
Go(p, point) == ctl' = [ctl EXCEPT ![p] = point]
\* p is at this point and the operation it called there has ended.
Back(p, point) == At(p, point) /\ ~InFlight(p)

IsTerminal == row.lc \in Terminal

-----------------------------------------------------------------------------
(* The pytest process: collection (prepare, health gate, start).           *)

\* prepare: create_run, then transition to PREPARING.
Launch ==
  /\ At(Worker, "launched")
  /\ CreateRun
  /\ Invoke(Worker, "prepare")
  /\ Go(Worker, "preparing")
  /\ UNCHANGED <<w, procVars>>

\* The fingerprint is stored with the Run object that transition returned.
StoreSnapshot ==
  /\ Back(Worker, "preparing")
  /\ Returned(Worker)
  /\ Resave(Worker, "snapshot", call[Worker].copy)
  /\ Go(Worker, "snapshot")
  /\ UNCHANGED <<dbVars, w, procVars>>

\* Any exception of prepare (the fingerprint's too) fails an active Run.
PrepareFails ==
  /\ \/ Back(Worker, "preparing")
     \/ Back(Worker, "snapshot") /\ Raised(Worker)
  /\ IF IsTerminal THEN UNCHANGED call ELSE Invoke(Worker, "lab_fail")
  /\ Go(Worker, "prepare_failed")
  /\ UNCHANGED <<dbVars, w, procVars>>

BeginHealthCheck ==
  /\ Back(Worker, "snapshot")
  /\ Returned(Worker)
  /\ Invoke(Worker, "health_check")
  /\ Go(Worker, "begin_health")
  /\ UNCHANGED <<dbVars, w, procVars>>

\* Until the RunContext exists an exception ends pytest with no finalization.
\* Building the context may raise as well (a device missing from devices.yaml).
CollectionFails ==
  /\ Back(Worker, "begin_health")
  /\ Raised(Worker) \/ faults < MaxFaults
  /\ faults' = IF Raised(Worker) THEN faults ELSE faults + 1
  /\ Go(Worker, "gone")
  /\ call' = [call EXCEPT ![Worker] = Idle]
  /\ group' \in {"gone", "lingering"}
  /\ UNCHANGED <<dbVars, w, manifest, acked, crashes>>

\* LabHealthService rolls UNKNOWN components up to DEGRADED.
Rollups == {"HEALTHY", "DEGRADED", "FAILED"}

CheckBefore ==
  /\ Back(Worker, "begin_health")
  /\ Returned(Worker)
  /\ \/ /\ \E health \in Rollups : InvokeHealth(Worker, health)
        /\ Go(Worker, "before")
     \/ /\ Invoke(Worker, "lab_fail")
        /\ Go(Worker, "before_failed")
  /\ UNCHANGED <<dbVars, w, procVars>>

RecordingHealthFails ==
  /\ Back(Worker, "before")
  /\ Raised(Worker)
  /\ Invoke(Worker, "lab_fail")
  /\ Go(Worker, "before_failed")
  /\ UNCHANGED <<dbVars, w, procVars>>

\* A FAILED lab blocks the tests; the Run stays in LAB_HEALTH_CHECK for now.
Gate ==
  /\ Back(Worker, "before")
  /\ Returned(Worker)
  /\ IF call[Worker].health = "FAILED"
     THEN /\ w' = [w EXCEPT !.blocked = TRUE]
          /\ Go(Worker, "testing")
          /\ UNCHANGED call
     ELSE /\ Invoke(Worker, "start")
          /\ Go(Worker, "starting")
          /\ UNCHANGED w
  /\ UNCHANGED <<dbVars, procVars>>

BlockAfterLabFail ==
  /\ Back(Worker, "before_failed")
  /\ IF Raised(Worker)
     THEN w' = [w EXCEPT !.exit = 3] /\ Go(Worker, "finalize")
     ELSE w' = [w EXCEPT !.blocked = TRUE] /\ Go(Worker, "testing")
  /\ UNCHANGED <<dbVars, call, procVars>>

\* The last write of the collection publishes the PID, from the same object.
PublishPid ==
  /\ Back(Worker, "starting")
  /\ Returned(Worker)
  /\ Resave(Worker, "set_pid", [call[Worker].copy EXCEPT !.pid = TRUE])
  /\ Go(Worker, "publishing")
  /\ UNCHANGED <<dbVars, w, procVars>>

BeginTests ==
  /\ Back(Worker, "publishing")
  /\ Returned(Worker)
  /\ Go(Worker, "testing")
  /\ UNCHANGED <<dbVars, call, w, procVars>>

\* An exception in a hook is a pytest INTERNALERROR: exit status 3, and the
\* session is still finalized.
InternalError ==
  /\ \E point \in {"starting", "publishing", "recording"} : Back(Worker, point)
  /\ Raised(Worker)
  /\ w' = [w EXCEPT !.exit = 3]
  /\ Go(Worker, "finalize")
  /\ UNCHANGED <<dbVars, call, procVars>>

-----------------------------------------------------------------------------
(* The pytest process: the tests.                                          *)

Skipped == [NoResult EXCEPT !.status = "SKIPPED"]

RunTest ==
  /\ At(Worker, "testing")
  /\ w.idx < Len(Selected)
  /\ \E shape \in (IF w.blocked THEN {Skipped} ELSE Shapes) :
       InvokeResult(Worker, [shape EXCEPT !.test = Selected[w.idx + 1]])
  /\ Go(Worker, "recording")
  /\ UNCHANGED <<dbVars, w, procVars>>

ResultRecorded ==
  /\ Back(Worker, "recording")
  /\ Returned(Worker)
  /\ w' = [w EXCEPT !.idx = @ + 1,
                    !.exit = IF call[Worker].result.status \in {"FAIL", "ERROR"} THEN 1 ELSE @]
  /\ Go(Worker, "testing")
  /\ UNCHANGED <<dbVars, call, procVars>>

EndTests ==
  /\ At(Worker, "testing")
  /\ \/ w.idx = Len(Selected) /\ UNCHANGED w
     \/ w.idx < Len(Selected) /\ w' = [w EXCEPT !.exit = 2]  \* KeyboardInterrupt
  /\ Go(Worker, "finalize")
  /\ UNCHANGED <<dbVars, call, procVars>>

-----------------------------------------------------------------------------
(* The pytest process: _finalize_run_session and its exception handler.    *)

CheckAfter ==
  /\ At(Worker, "finalize")
  /\ IF IsTerminal
     THEN Go(Worker, "close") /\ UNCHANGED <<call, w>>
     ELSE \/ /\ \E health \in Rollups : InvokeHealth(Worker, health)
             /\ Go(Worker, "after")
             /\ UNCHANGED w
          \/ /\ Invoke(Worker, "lab_fail")      \* the check itself raised
             /\ w' = [w EXCEPT !.healthErr = TRUE]
             /\ Go(Worker, "after_lab_fail_again")
  /\ UNCHANGED <<dbVars, procVars>>

AfterRecorded ==
  /\ Back(Worker, "after")
  /\ IF Raised(Worker)
     THEN /\ Invoke(Worker, "lab_fail")
          /\ w' = [w EXCEPT !.healthErr = TRUE]
          /\ Go(Worker, "after_lab_fail_again")
     ELSE IF call[Worker].health = "FAILED"
     THEN /\ Invoke(Worker, "lab_fail")
          /\ Go(Worker, "after_lab_fail")
          /\ UNCHANGED w
     ELSE Go(Worker, "close") /\ UNCHANGED <<call, w>>
  /\ UNCHANGED <<dbVars, procVars>>

\* lab_fail_run is inside the try: when it raises it is called once more.
AfterLabFailed ==
  /\ Back(Worker, "after_lab_fail")
  /\ w' = [w EXCEPT !.healthErr = TRUE]
  /\ IF Raised(Worker)
     THEN Invoke(Worker, "lab_fail") /\ Go(Worker, "after_lab_fail_again")
     ELSE Go(Worker, "close") /\ UNCHANGED call
  /\ UNCHANGED <<dbVars, procVars>>

AfterLabFailedAgain ==
  /\ Back(Worker, "after_lab_fail_again")
  /\ Go(Worker, IF Raised(Worker) THEN "crash_handler" ELSE "close")
  /\ UNCHANGED <<dbVars, call, w, procVars>>

\* Closing the command runners finishes their audit, which may fail.
CloseRunners ==
  /\ At(Worker, "close")
  /\ \E failed \in BOOLEAN : w' = [w EXCEPT !.runnerErr = failed]
  /\ Go(Worker, "decide")
  /\ UNCHANGED <<dbVars, call, procVars>>

Decision ==
  CASE CancelRequested -> "cancel"
    [] ~CancelRequested /\ (w.runnerErr \/ w.healthErr) -> "lab_fail"
    [] OTHER -> CASE w.exit = 0 -> "complete"
                  [] w.exit = 2 -> "abort"
                  [] OTHER -> "fail"

\* The Run and its events are read just before; nothing else writes the row
\* of an active Run while pytest is running, so one step stands for both reads.
Decide ==
  /\ At(Worker, "decide")
  /\ IF IsTerminal THEN Go(Worker, "gone") /\ UNCHANGED call /\ group' \in {"gone", "lingering"}
     ELSE Invoke(Worker, Decision) /\ Go(Worker, "deciding") /\ UNCHANGED group
  /\ UNCHANGED <<dbVars, w, manifest, acked, faults, crashes>>

\* Mutant: a refused decision is not turned into a worker crash.
DecisionMade_Unhandled ==
  /\ Back(Worker, "deciding")
  /\ Go(Worker, "gone")
  /\ group' \in {"gone", "lingering"}
  /\ UNCHANGED <<dbVars, call, w, manifest, acked, faults, crashes>>

DecisionMade ==
  /\ Back(Worker, "deciding")
  /\ IF Raised(Worker)
     THEN Go(Worker, "crash_handler") /\ UNCHANGED group
     ELSE Go(Worker, "gone") /\ group' \in {"gone", "lingering"}
  /\ UNCHANGED <<dbVars, call, w, manifest, acked, faults, crashes>>

\* pytest_sessionfinish: an exception of the finalization, on an active Run.
HandleFinalizationError ==
  /\ At(Worker, "crash_handler")
  /\ IF IsTerminal THEN Go(Worker, "gone") /\ UNCHANGED call /\ group' \in {"gone", "lingering"}
     ELSE Invoke(Worker, "crash") /\ Go(Worker, "crashing") /\ UNCHANGED group
  /\ UNCHANGED <<dbVars, w, manifest, acked, faults, crashes>>

\* pytest exits; an exception of the failure handlers themselves is swallowed.
Exit ==
  /\ Back(Worker, "crashing") \/ Back(Worker, "prepare_failed")
  /\ Go(Worker, "gone")
  /\ call' = [call EXCEPT ![Worker] = Idle]
  /\ group' \in {"gone", "lingering"}
  /\ UNCHANGED <<dbVars, w, manifest, acked, faults, crashes>>

WorkerStep ==
  \/ CollectionFails
  \/ Launch \/ StoreSnapshot \/ PrepareFails \/ BeginHealthCheck \/ CheckBefore
  \/ RecordingHealthFails \/ Gate \/ BlockAfterLabFail \/ PublishPid \/ BeginTests
  \/ InternalError \/ RunTest \/ ResultRecorded \/ EndTests
  \/ CheckAfter \/ AfterRecorded \/ AfterLabFailed \/ AfterLabFailedAgain
  \/ CloseRunners \/ Decide \/ DecisionMade \/ HandleFinalizationError \/ Exit

-----------------------------------------------------------------------------
(* The process table: crashes, and the dashboard's ownership record.       *)

\* SIGKILL, the OOM killer or a host restart: the call in flight is dropped
\* between two of its transactions.
CrashWorker ==
  /\ ~At(Worker, "gone")
  /\ crashes < MaxCrashes
  /\ crashes' = crashes + 1
  /\ ctl' = [ctl EXCEPT ![Worker] = "gone"]
  /\ call' = [call EXCEPT ![Worker] = Idle]
  /\ group' \in {"gone", "lingering"}
  /\ UNCHANGED <<dbVars, w, manifest, acked, faults>>

LingerEnds ==
  /\ group = "lingering"
  /\ group' = "gone"
  /\ UNCHANGED <<dbVars, call, ctl, w, manifest, acked, faults, crashes>>

\* _reap_when_finished: waits for pytest, then five seconds for its group.
Reap ==
  /\ manifest = "watched"
  /\ group # "running"
  /\ manifest' = IF group = "gone" THEN "none" ELSE "unwatched"
  /\ UNCHANGED <<dbVars, call, ctl, w, group, acked, faults, crashes>>

\* Mutant: pytest is restarted into the dashboard's program with it.
DashboardRestart_All ==
  /\ crashes < MaxCrashes
  /\ crashes' = crashes + 1
  /\ ctl' = [p \in DOMAIN ctl |-> "waiting"]
  /\ call' = [c \in Processes |-> Idle]
  /\ UNCHANGED <<dbVars, w, group, manifest, acked, faults>>

\* pytest runs in a session of its own and survives the dashboard.
DashboardRestart ==
  /\ crashes < MaxCrashes
  /\ crashes' = crashes + 1
  /\ ctl' = [p \in DOMAIN ctl |-> IF p \in Handlers THEN "waiting" ELSE ctl[p]]
  /\ call' = [c \in Processes |-> IF c \in Handlers THEN Idle ELSE call[c]]
  /\ manifest' = IF manifest = "watched" THEN "unwatched" ELSE manifest
  /\ UNCHANGED <<dbVars, w, group, acked, faults>>

ServiceFault(c) ==
  /\ faults < MaxFaults
  /\ faults' = faults + 1
  /\ RepositoryFails(c)
  /\ UNCHANGED <<ctl, w, group, manifest, acked, crashes>>

-----------------------------------------------------------------------------
(* A cancel request (POST /runs/<id>/cancel).                              *)

Answer(h) == Go(h, "waiting") /\ call' = [call EXCEPT ![h] = Idle]

\* Refused when the Run is terminal or its worker has published no PID.
ReceiveCancel(h) ==
  /\ At(h, "waiting")
  /\ row.lc \in Active
  /\ row.pid
  /\ Go(h, "validate")
  /\ UNCHANGED <<dbVars, call, w, procVars>>

\* RunProcessManager.validate drops the record of a group that is gone.
Validate(h) ==
  /\ At(h, "validate")
  /\ IF manifest # "none" /\ group # "gone"
     THEN Invoke(h, "request_cancel") /\ Go(h, "requesting") /\ UNCHANGED manifest
     ELSE Answer(h) /\ manifest' = "none"
  /\ UNCHANGED <<dbVars, w, group, acked, faults, crashes>>

IntentStored(h) ==
  /\ Back(h, "requesting")
  /\ IF Returned(h) THEN Go(h, "signal") /\ UNCHANGED call ELSE Answer(h)
  /\ UNCHANGED <<dbVars, w, procVars>>

\* RunProcessManager.cancel reads the record and the process table ...
Signal(h) ==
  /\ At(h, "signal")
  /\ IF manifest = "none"
     THEN Answer(h) /\ acked' = (acked \/ row.lc = "CANCELLED") /\ UNCHANGED manifest
     ELSE /\ Go(h, IF group = "gone" THEN "unstopped" ELSE "killing")
          /\ manifest' = IF group = "gone" THEN "none" ELSE manifest
          /\ UNCHANGED <<call, acked>>
  /\ UNCHANGED <<dbVars, w, group, faults, crashes>>

\* Mutant: the signal is sent and nobody waits for the group to exit.
Kill_Unwaited(h) ==
  /\ At(h, "killing")
  /\ Go(h, "settle")
  /\ UNCHANGED <<dbVars, call, w, procVars>>

\* ... signals the group, which pytest does not survive (it has no handler for
\* SIGTERM), and waits until no member is left.
Kill(h) ==
  /\ At(h, "killing")
  /\ ctl' = [ctl EXCEPT ![Worker] = "gone", ![h] = "settle"]
  /\ call' = [call EXCEPT ![Worker] = Idle]
  /\ group' = "gone"
  /\ manifest' = "none"
  /\ UNCHANGED <<dbVars, w, acked, faults, crashes>>

\* The signal is refused, or a member stays alive: pytest may be dead or not.
KillFails(h) ==
  /\ At(h, "killing")
  /\ faults < MaxFaults
  /\ faults' = faults + 1
  /\ \/ Answer(h) /\ UNCHANGED group
     \/ /\ group # "gone"
        /\ ctl' = [ctl EXCEPT ![Worker] = "gone", ![h] = "waiting"]
        /\ call' = [call EXCEPT ![Worker] = Idle, ![h] = Idle]
        /\ group' = "lingering"
  /\ UNCHANGED <<dbVars, w, manifest, acked, crashes>>

\* The group was gone already: the handler cancels for it, ignoring errors.
CancelUnstopped(h) ==
  /\ At(h, "unstopped")
  /\ IF IsTerminal THEN UNCHANGED call ELSE Invoke(h, "cancel")
  /\ Go(h, "unstopped_done")
  /\ UNCHANGED <<dbVars, w, procVars>>

RecheckUnstopped(h) ==
  /\ Back(h, "unstopped_done")
  /\ IF row.lc = "CANCELLED" THEN Go(h, "settle") /\ UNCHANGED call ELSE Answer(h)
  /\ UNCHANGED <<dbVars, w, procVars>>

\* Mutant: the handler trusts pytest to have persisted the cancellation.
CancelStopped_Trusting(h) ==
  /\ At(h, "settle")
  /\ Go(h, "reply")
  /\ UNCHANGED <<dbVars, call, w, procVars>>

CancelStopped(h) ==
  /\ At(h, "settle")
  /\ IF IsTerminal
     THEN Go(h, "reply") /\ UNCHANGED call
     ELSE Go(h, "settling") /\ Invoke(h, "cancel")
  /\ UNCHANGED <<dbVars, w, procVars>>

\* Only a refusal of RunService is caught.
Settle(h) ==
  /\ Back(h, "settling")
  /\ IF Returned(h) \/ Refused(h) THEN Go(h, "reply") /\ UNCHANGED call ELSE Answer(h)
  /\ UNCHANGED <<dbVars, w, procVars>>

\* Mutant: the answer does not depend on the state read back.
Reply_Unchecked(h) ==
  /\ At(h, "reply")
  /\ acked' = TRUE
  /\ Answer(h)
  /\ UNCHANGED <<dbVars, w, group, manifest, faults, crashes>>

Reply(h) ==
  /\ At(h, "reply")
  /\ acked' = (acked \/ row.lc = "CANCELLED")
  /\ Answer(h)
  /\ UNCHANGED <<dbVars, w, group, manifest, faults, crashes>>

HandlerStep(h) ==
  \/ Validate(h) \/ IntentStored(h) \/ Signal(h) \/ Kill(h)
  \/ CancelUnstopped(h) \/ RecheckUnstopped(h) \/ CancelStopped(h)
  \/ Settle(h) \/ Reply(h)

-----------------------------------------------------------------------------
(* RunRecoveryService.recover_orphaned_runs.                               *)

\* Mutant: a dead process is seen as dead.
PidAlive_Probe == ~At(Worker, "gone")

\* os.kill(pid, 0) raises for a dead process, and the handler of that exception
\* answers isinstance(pid, int), which is true.
PidAlive == ~At(Worker, "gone") \/ row.pid

Orphaned == row.lc = "RUNNING" /\ row.pid /\ ~PidAlive

Recover ==
  /\ ~InFlight(Recovery)
  /\ IF Orphaned THEN Invoke(Recovery, "crash") ELSE UNCHANGED call
  /\ UNCHANGED <<dbVars, ctl, w, procVars>>

-----------------------------------------------------------------------------
\* A Run started from the command line has no ownership record.
Init ==
  /\ ServiceInit
  /\ ctl = [p \in Handlers \cup {Worker} |-> IF p = Worker THEN "launched" ELSE "waiting"]
  /\ w = [exit |-> 0, idx |-> 0, blocked |-> FALSE, healthErr |-> FALSE, runnerErr |-> FALSE]
  /\ group = "running"
  /\ manifest \in {"watched", "none"}
  /\ acked = FALSE
  /\ faults = 0
  /\ crashes = 0

Serve(c) == ServiceStep(c) /\ UNCHANGED <<ctl, w, procVars>>

Next ==
  \/ WorkerStep
  \/ \E h \in Handlers : ReceiveCancel(h) \/ HandlerStep(h) \/ KillFails(h)
  \/ Recover
  \/ \E c \in Processes : Serve(c) \/ ServiceFault(c)
  \/ CrashWorker \/ LingerEnds \/ Reap \/ DashboardRestart

\* Every process that has work to do is scheduled; nobody has to ask for a
\* cancellation, to interrupt pytest, to fail or to crash.
Fairness ==
  /\ WF_vars(WorkerStep)
  /\ \A h \in Handlers : WF_vars(HandlerStep(h))
  /\ \A c \in Processes : WF_vars(Serve(c))
  /\ WF_vars(Recover)

Spec == Init /\ [][Next]_vars
FairSpec == Spec /\ Fairness

-----------------------------------------------------------------------------
(* Properties.                                                             *)

\* Every variable has its type: the program counters, the worker's flags, the
\* process table and the counters that bound failures.
TypeOK ==
  /\ ServiceTypeOK
  /\ ctl \in [Handlers \cup {Worker} -> WorkerPoints \cup HandlerPoints]
  /\ \A h \in Handlers : ctl[h] \in HandlerPoints
  /\ ctl[Worker] \in WorkerPoints
  /\ w \in [exit : 0..3, idx : 0..Len(Selected), blocked : BOOLEAN,
            healthErr : BOOLEAN, runnerErr : BOOLEAN]
  /\ group \in Groups
  /\ manifest \in Manifests
  /\ acked \in BOOLEAN
  /\ faults \in 0..MaxFaults
  /\ crashes \in 0..MaxCrashes

\* Whatever the worker, the cancel handlers and recovery interleave, with failed
\* calls, crashes and restarts, a reader of the row sees a Run that moves forward
\* and is decided at most once (RunService._ALLOWED_TRANSITIONS and _finish): no
\* process's whole-row write ever lands on a row another one has decided.
ImplementsContract == Contract!Spec

\* A decided Run has an outcome, an undecided one has neither outcome nor failure
\* class, and lifecycle, outcome and failure class belong together: only a
\* COMPLETED Run is validated, a FAILED one never is (RunService._finish callers).
RowConsistent == RowOK(row)

\* The outcome of a Run that pytest decided is the one derive_business_outcome
\* would derive from the facts stored by then: nothing recorded in between
\* (results, the AFTER health) makes the stored verdict stale.
OutcomeMatchesFacts ==
  LET derived == Derive(row.health, Selected, results) IN
  /\ row.lc = "COMPLETED" => row.outcome = derived
  /\ row.lc = "FAILED" => row.outcome = Settled("fail", derived)

\* No whole-row write loses what an earlier one stored: the recorded health only
\* gets worse, a published PID and started_at stay (SQLiteRunRepository.update
\* writes all columns of a copy read earlier).
NoLostUpdate ==
  [][ /\ HealthSeverity(row.health) <= HealthSeverity(row'.health)
      /\ row.pid => row'.pid
      /\ row.started => row'.started ]_row

\* A cancel request answered with status CANCELLED means that the Run is and
\* stays CANCELLED, whatever pytest was doing when it was killed (cancel_run).
CancelAckSound == acked => row.lc = "CANCELLED"

\* Every terminal event in the log is the one of the decision the row holds: no
\* decider whose write was refused or overwritten leaves its event behind.
FinishEventsAgree ==
  \A i \in DOMAIN events :
    events[i] \in FinishEvents =>
      \E op \in FinishOps : /\ EventOf(op, NoRow) = events[i]
                            /\ row.lc = Target(op)
                            /\ row.fclass = ClassOf(op)

\* pytest that ends by itself, with no failed call and nobody cancelling, leaves
\* a decided Run with its Attempts closed and exactly one terminal event
\* (_finalize_run_session and its exception handler).
CleanExitSettles ==
  At(Worker, "gone") /\ faults = 0 /\ crashes = 0 /\ ~CancelRequested =>
    /\ IsTerminal
    /\ \A n \in DOMAIN attempts : attempts[n] = "closed"
    /\ Cardinality({i \in DOMAIN events : events[i] \in FinishEvents}) = 1

\* Without failed calls and crashes every Run is decided in the end, also when
\* the lab fails before or after the tests, pytest is interrupted, or cancel
\* requests race with each other and with the finalization.
EventuallyDecided == <>(IsTerminal \/ faults > 0 \/ crashes > 0)

\* docs/02: "A required component in FAILED state blocks execution and
\* transitions the Run to LAB_FAILED".  (The code does not always: when the lab has
\* recovered by the AFTER check and pytest exits with 0, complete_run is refused
\* and the Run is aborted as crashed.  A Run that is cancelled, interrupted, killed
\* or ended by a failing call is another matter.)
BlockedRunIsLabFailed ==
  /\ At(Worker, "gone") /\ w.blocked
  /\ w.exit = 0 /\ faults = 0 /\ crashes = 0 /\ ~CancelRequested
  => row.lc = "LAB_FAILED"

\* "Classify abandoned RUNNING Runs after a process/host restart"
\* (RunRecoveryService).  (The code never does: it takes any PID for alive.)
OrphanClassified ==
  row.lc = "RUNNING" /\ row.pid /\ At(Worker, "gone") ~> IsTerminal
=============================================================================
