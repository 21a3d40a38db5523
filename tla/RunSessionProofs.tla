------------------------- MODULE RunSessionProofs -------------------------
(***************************************************************************)
(* Type correctness and row consistency of RunSession, for any number of   *)
(* cancel requests, selected tests, faults and crashes.  What the service  *)
(* calls keep is proved in RunServiceProofs; here every step of a program  *)
(* is shown to start its calls from good arguments.                        *)
(***************************************************************************)
EXTENDS RunSession, RunServiceProofs

CallsKept ==
  /\ call' \in [Processes -> Calls]
  /\ \A c \in Processes : call'[c] = call[c] \/ CallOK(call'[c])

\* TypeOK without the variables of RunService.
OwnTypes ==
  /\ ctl \in [Handlers \cup {Worker} -> WorkerPoints \cup HandlerPoints]
  /\ \A h \in Handlers : ctl[h] \in HandlerPoints
  /\ ctl[Worker] \in WorkerPoints
  /\ w \in [exit : 0..3, idx : 0..Len(Selected), blocked : BOOLEAN,
            healthErr : BOOLEAN, runnerErr : BOOLEAN]
  /\ group \in Groups
  /\ manifest \in Manifests
  /\ acked \in BOOLEAN
  /\ faults \in 0..MaxFaults
  /\ crashes \in 0..MaxCrashes

\* The service's invariant, the types of the programs' own state, and that the
\* test being recorded is one of the selected ones.
SessionInv ==
  /\ OwnTypes
  /\ ServiceInv
  /\ At(Worker, "recording") => w.idx < Len(Selected)

-----------------------------------------------------------------------------
(* The ways a program changes its call.                                    *)

LEMMA ProcessTypes == Worker \in Processes /\ Recovery \in Processes /\ Handlers \subseteq Processes
BY ProcessesAssumption

LEMMA PutKeeps ==
  ASSUME ServiceInv, NEW c \in Processes, NEW k \in Calls, CallOK(k),
         call' = [call EXCEPT ![c] = k]
  PROVE  CallsKept
BY DEF ServiceInv, ServiceTypeOK, CallsKept

LEMMA SameKeeps == ASSUME ServiceInv, UNCHANGED call PROVE CallsKept
BY DEF ServiceInv, ServiceTypeOK, CallsKept

LEMMA InvokeKeeps ==
  ASSUME ServiceInv, NEW c \in Processes, NEW op \in Ops \ {"result"}, Invoke(c, op)
  PROVE  CallsKept
BY InvokedOK, PutKeeps DEF Invoke

LEMMA DropKeeps ==
  ASSUME ServiceInv, NEW c \in Processes, call' = [call EXCEPT ![c] = Idle]
  PROVE  CallsKept
BY IdleOK, PutKeeps

LEMMA DropTwoKeeps ==
  ASSUME ServiceInv, NEW c \in Processes, NEW d \in Processes,
         call' = [call EXCEPT ![c] = Idle, ![d] = Idle]
  PROVE  CallsKept
BY IdleOK DEF ServiceInv, ServiceTypeOK, CallsKept

LEMMA HealthKeeps ==
  ASSUME ServiceInv, NEW c \in Processes, NEW health \in Rollups, InvokeHealth(c, health)
  PROVE  CallsKept
<1>1. health \in Health
  BY DEF Rollups, Health
<1> QED
  BY <1>1, HealthCallOK, PutKeeps DEF InvokeHealth

LEMMA OpNames ==
  {"prepare", "lab_fail", "health_check", "start", "complete", "abort", "fail",
   "cancel", "crash", "request_cancel"} \subseteq Ops \ {"result"}
BY DEF Ops, FinishOps, TransitionOps

-----------------------------------------------------------------------------
(* The pytest process.                                                     *)

LEMMA WorkerCalls ==
  ASSUME SessionInv, WorkerStep
  PROVE  CallsKept
<1>1. ServiceInv /\ Worker \in Processes
  BY ProcessTypes DEF SessionInv
<1>2. call[Worker] \in Calls /\ CallOK(call[Worker])
  BY <1>1 DEF ServiceInv, ServiceTypeOK
<1>3. call[Worker].copy \in Rows /\ RowOK(call[Worker].copy)
  BY <1>2 DEF Calls, CallOK
\* An action that starts an operation by name, drops its call or keeps it.
<1>4. ASSUME \/ \E op \in Ops \ {"result"} : Invoke(Worker, op)
             \/ call' = [call EXCEPT ![Worker] = Idle]
             \/ UNCHANGED call
      PROVE  CallsKept
  BY <1>1, <1>4, InvokeKeeps, DropKeeps, SameKeeps
<1>5. CASE CollectionFails \/ Launch \/ PrepareFails \/ BeginHealthCheck
  BY <1>4, <1>5, OpNames DEF CollectionFails, Launch, PrepareFails, BeginHealthCheck
<1>6. CASE StoreSnapshot
  <2>1. "snapshot" \in ResaveOps
    BY DEF ResaveOps
  <2>2. Resave(Worker, "snapshot", call[Worker].copy)
    BY <1>6 DEF StoreSnapshot
  <2> QED
    BY <1>1, <1>3, <2>1, <2>2, ResaveCallOK, PutKeeps DEF Resave
<1>7. CASE PublishPid
  <2> DEFINE copy == [call[Worker].copy EXCEPT !.pid = TRUE]
  <2>1. "set_pid" \in ResaveOps
    BY DEF ResaveOps
  <2>2. copy \in Rows /\ RowOK(copy)
    BY <1>3 DEF Rows, RowOK
  <2>3. Resave(Worker, "set_pid", copy)
    BY <1>7 DEF PublishPid
  <2> HIDE DEF copy
  <2> QED
    BY <1>1, <2>1, <2>2, <2>3, ResaveCallOK, PutKeeps DEF Resave
<1>8. CASE CheckBefore \/ CheckAfter
  BY <1>1, <1>4, <1>8, OpNames, HealthKeeps DEF CheckBefore, CheckAfter
<1>9. CASE RecordingHealthFails \/ Gate \/ BlockAfterLabFail \/ BeginTests \/ InternalError
  BY <1>4, <1>9, OpNames
     DEF RecordingHealthFails, Gate, BlockAfterLabFail, BeginTests, InternalError
<1>10. CASE RunTest
  <2>1. PICK shape \in (IF w.blocked THEN {Skipped} ELSE Shapes) :
          InvokeResult(Worker, [shape EXCEPT !.test = Selected[w.idx + 1]])
    BY <1>10 DEF RunTest
  <2>2. shape \in Results({NULL})
    BY <2>1, ShapesAssumption
       DEF Skipped, NoResult, Results, TestStatus, Criticality, Evidence
  <2>3. Selected[w.idx + 1] \in Tests
    <3>1. w.idx \in Nat /\ w.idx < Len(Selected) /\ Len(Selected) \in Nat
      BY <1>10, SelectedAssumption DEF RunTest, SessionInv, OwnTypes
    <3>2. w.idx + 1 \in DOMAIN Selected
      BY <3>1, SelectedAssumption
    <3> QED
      BY <3>2 DEF Tests
  <2>4. [shape EXCEPT !.test = Selected[w.idx + 1]] \in Results(Tests)
    BY <2>2, <2>3 DEF Results
  <2> QED
    BY <1>1, <2>1, <2>4, ResultCallOK, PutKeeps DEF InvokeResult
<1>11. CASE ResultRecorded \/ EndTests
  BY <1>4, <1>11 DEF ResultRecorded, EndTests
<1>12. CASE AfterRecorded \/ AfterLabFailed \/ AfterLabFailedAgain \/ CloseRunners
  BY <1>4, <1>12, OpNames DEF AfterRecorded, AfterLabFailed, AfterLabFailedAgain, CloseRunners
<1>13. CASE Decide
  <2>1. Decision \in Ops \ {"result"}
    BY OpNames DEF Decision
  <2> QED
    BY <1>4, <1>13, <2>1 DEF Decide
<1>14. CASE DecisionMade \/ HandleFinalizationError \/ Exit
  BY <1>4, <1>14, OpNames DEF DecisionMade, HandleFinalizationError, Exit
<1> QED
  BY <1>5, <1>6, <1>7, <1>8, <1>9, <1>10, <1>11, <1>12, <1>13, <1>14 DEF WorkerStep

WorkerDb ==
  \/ UNCHANGED dbVars
  \/ CreateRun

LEMMA WorkerTables == ASSUME WorkerStep PROVE WorkerDb
BY DEF WorkerStep, WorkerDb, CollectionFails, Launch, StoreSnapshot, PrepareFails,
       BeginHealthCheck, CheckBefore, RecordingHealthFails, Gate, BlockAfterLabFail,
       PublishPid, BeginTests, InternalError, RunTest, ResultRecorded, EndTests, CheckAfter,
       AfterRecorded, AfterLabFailed, AfterLabFailedAgain, CloseRunners, Decide,
       DecisionMade, HandleFinalizationError, Exit

\* Where pytest may go, and that a handler's control state is its own.
LEMMA WorkerMoves ==
  ASSUME OwnTypes, NEW point \in WorkerPoints, Go(Worker, point)
  PROVE  /\ ctl' \in [Handlers \cup {Worker} -> WorkerPoints \cup HandlerPoints]
         /\ \A h \in Handlers : ctl'[h] \in HandlerPoints
         /\ ctl'[Worker] = point
BY ProcessesAssumption DEF OwnTypes, Go

LEMMA WorkerOwn ==
  ASSUME SessionInv, WorkerStep
  PROVE  OwnTypes' /\ (At(Worker, "recording") => w.idx < Len(Selected))'
<1>1. OwnTypes
  BY DEF SessionInv
<1>2. UNCHANGED <<manifest, acked, crashes>>
  BY DEF WorkerStep, CollectionFails, Launch, StoreSnapshot, PrepareFails, procVars,
         BeginHealthCheck, CheckBefore, RecordingHealthFails, Gate, BlockAfterLabFail,
         PublishPid, BeginTests, InternalError, RunTest, ResultRecorded, EndTests, CheckAfter,
         AfterRecorded, AfterLabFailed, AfterLabFailedAgain, CloseRunners, Decide,
         DecisionMade, HandleFinalizationError, Exit
<1>3. group' \in Groups /\ faults' \in 0..MaxFaults
  <2>1. \/ UNCHANGED <<group, faults>>
        \/ group' \in {"gone", "lingering"} /\ UNCHANGED faults
        \/ /\ group' \in {"gone", "lingering"}
           /\ faults' = faults \/ (faults < MaxFaults /\ faults' = faults + 1)
    BY DEF WorkerStep, CollectionFails, Launch, StoreSnapshot, PrepareFails, procVars,
           BeginHealthCheck, CheckBefore, RecordingHealthFails, Gate, BlockAfterLabFail,
           PublishPid, BeginTests, InternalError, RunTest, ResultRecorded, EndTests,
           CheckAfter, AfterRecorded, AfterLabFailed, AfterLabFailedAgain, CloseRunners,
           Decide, DecisionMade, HandleFinalizationError, Exit
  <2> QED
    BY <1>1, <2>1, BoundsAssumption DEF OwnTypes, Groups
<1>4. \/ \E point \in WorkerPoints \ {"recording"} : Go(Worker, point)
      \/ RunTest
  BY DEF WorkerStep, WorkerPoints, CollectionFails, Launch, StoreSnapshot, PrepareFails,
         BeginHealthCheck, CheckBefore, RecordingHealthFails, Gate, BlockAfterLabFail,
         PublishPid, BeginTests, InternalError, ResultRecorded, EndTests, CheckAfter,
         AfterRecorded, AfterLabFailed, AfterLabFailedAgain, CloseRunners, Decide,
         DecisionMade, HandleFinalizationError, Exit
<1>5. \/ UNCHANGED w
      \/ \E b \in BOOLEAN : \/ w' = [w EXCEPT !.blocked = b]
                            \/ w' = [w EXCEPT !.healthErr = b]
                            \/ w' = [w EXCEPT !.runnerErr = b]
      \/ \E exit \in {2, 3} : w' = [w EXCEPT !.exit = exit]
      \/ ResultRecorded
  BY DEF WorkerStep, CollectionFails, Launch, StoreSnapshot, PrepareFails,
         BeginHealthCheck, CheckBefore, RecordingHealthFails, Gate, BlockAfterLabFail,
         PublishPid, BeginTests, InternalError, RunTest, EndTests, CheckAfter,
         AfterRecorded, AfterLabFailed, AfterLabFailedAgain, CloseRunners, Decide,
         DecisionMade, HandleFinalizationError, Exit
<1>6. w' \in [exit : 0..3, idx : 0..Len(Selected), blocked : BOOLEAN,
              healthErr : BOOLEAN, runnerErr : BOOLEAN]
  <2>1. CASE ResultRecorded
    <3>1. w.idx \in 0..Len(Selected) /\ w.idx < Len(Selected) /\ Len(Selected) \in Nat
      BY <2>1, SelectedAssumption DEF ResultRecorded, Back, SessionInv, OwnTypes
    <3>2. PICK exit \in {1, w.exit} : w' = [w EXCEPT !.idx = w.idx + 1, !.exit = exit]
      BY <2>1 DEF ResultRecorded
    <3>3. w.idx + 1 \in 0..Len(Selected)
      BY <3>1
    <3>4. exit \in 0..3
      BY <1>1 DEF OwnTypes
    <3> QED
      BY <1>1, <3>2, <3>3, <3>4 DEF OwnTypes
  <2> QED
    BY <1>1, <1>5, <2>1 DEF OwnTypes
<1>7. CASE RunTest
  <2>1. Go(Worker, "recording") /\ UNCHANGED w /\ w.idx < Len(Selected)
    BY <1>7 DEF RunTest
  <2>2. "recording" \in WorkerPoints
    BY DEF WorkerPoints
  <2>3. /\ ctl' \in [Handlers \cup {Worker} -> WorkerPoints \cup HandlerPoints]
        /\ \A h \in Handlers : ctl'[h] \in HandlerPoints
        /\ ctl'[Worker] = "recording"
    BY <1>1, <2>1, <2>2, WorkerMoves
  <2> QED
    BY <1>1, <1>2, <1>3, <1>6, <2>1, <2>2, <2>3 DEF OwnTypes
<1>8. CASE \E point \in WorkerPoints \ {"recording"} : Go(Worker, point)
  <2>1. PICK point \in WorkerPoints \ {"recording"} : Go(Worker, point)
    BY <1>8
  <2>2. /\ ctl' \in [Handlers \cup {Worker} -> WorkerPoints \cup HandlerPoints]
        /\ \A h \in Handlers : ctl'[h] \in HandlerPoints
        /\ ctl'[Worker] = point
    BY <1>1, <2>1, WorkerMoves
  <2> QED
    BY <1>1, <1>2, <1>3, <1>6, <2>2 DEF OwnTypes, At
<1> QED
  BY <1>4, <1>7, <1>8

LEMMA WorkerKeeps == ASSUME SessionInv, WorkerStep PROVE SessionInv'
<1>1. CallsKept /\ WorkerDb
  BY WorkerCalls, WorkerTables
<1>2. ServiceInv'
  BY <1>1, ProgramFrame, CreateStep DEF CallsKept, WorkerDb, SessionInv
<1> QED
  BY <1>2, WorkerOwn DEF SessionInv

-----------------------------------------------------------------------------
(* The cancel handlers.                                                    *)

\* A handler moves, or it kills pytest and moves.
HandlerMoves(h) ==
  \/ \E point \in HandlerPoints : Go(h, point)
  \/ \E point \in HandlerPoints : ctl' = [ctl EXCEPT ![Worker] = "gone", ![h] = point]

\* What else a handler may change.
HandlerFrame(h) ==
  /\ UNCHANGED <<dbVars, w, crashes>>
  /\ HandlerMoves(h)
  /\ group' \in {group, "gone", "lingering"}
  /\ manifest' \in {manifest, "none"}
  /\ acked' \in BOOLEAN
  /\ faults' = faults \/ (faults < MaxFaults /\ faults' = faults + 1)

HandlerAction(h) == ReceiveCancel(h) \/ HandlerStep(h) \/ KillFails(h)

LEMMA HandlerPaths == ASSUME NEW h \in Handlers, HandlerAction(h) PROVE HandlerMoves(h)
<1>1. CASE Kill(h) \/ KillFails(h)
  BY <1>1 DEF HandlerMoves, HandlerPoints, Kill, KillFails, Answer
<1>2. CASE HandlerAction(h) /\ ~Kill(h) /\ ~KillFails(h)
  <2>1. \E point \in HandlerPoints : Go(h, point)
    BY <1>2 DEF HandlerPoints, HandlerAction, HandlerStep, ReceiveCancel, Validate,
         IntentStored, Signal, CancelUnstopped, RecheckUnstopped, CancelStopped, Settle,
         Reply, Answer
  <2> QED
    BY <2>1 DEF HandlerMoves
<1> QED
  BY <1>1, <1>2

LEMMA HandlerFrames ==
  ASSUME OwnTypes, NEW h \in Handlers, HandlerAction(h) PROVE HandlerFrame(h)
<1>1. acked' \in BOOLEAN
  BY DEF OwnTypes, HandlerAction, HandlerStep, ReceiveCancel, Validate, IntentStored,
         Signal, Kill, KillFails, CancelUnstopped, RecheckUnstopped, CancelStopped, Settle,
         Reply, procVars
<1>2. UNCHANGED <<dbVars, w, crashes>>
  BY DEF HandlerAction, HandlerStep, ReceiveCancel, Validate, IntentStored,
         Signal, Kill, KillFails, CancelUnstopped, RecheckUnstopped, CancelStopped, Settle,
         Reply, procVars
<1>3. group' = group \/ group' = "gone" \/ group' = "lingering"
  BY DEF HandlerAction, HandlerStep, ReceiveCancel, Validate, IntentStored,
         Signal, Kill, KillFails, CancelUnstopped, RecheckUnstopped, CancelStopped, Settle,
         Reply, procVars
<1>4. manifest' = manifest \/ manifest' = "none"
  BY DEF HandlerAction, HandlerStep, ReceiveCancel, Validate, IntentStored,
         Signal, Kill, KillFails, CancelUnstopped, RecheckUnstopped, CancelStopped, Settle,
         Reply, procVars
<1>5. faults' = faults \/ (faults < MaxFaults /\ faults' = faults + 1)
  BY DEF HandlerAction, HandlerStep, ReceiveCancel, Validate, IntentStored,
         Signal, Kill, KillFails, CancelUnstopped, RecheckUnstopped, CancelStopped, Settle,
         Reply, procVars
<1> QED
  BY <1>1, <1>2, <1>3, <1>4, <1>5, HandlerPaths DEF HandlerFrame

LEMMA HandlerCalls ==
  ASSUME ServiceInv, NEW h \in Handlers, HandlerAction(h) PROVE CallsKept
<1>1. h \in Processes /\ Worker \in Processes
  BY ProcessTypes
<1>2. \/ \E op \in Ops \ {"result"} : Invoke(h, op)
      \/ call' = [call EXCEPT ![h] = Idle]
      \/ call' = [call EXCEPT ![Worker] = Idle]
      \/ call' = [call EXCEPT ![Worker] = Idle, ![h] = Idle]
      \/ UNCHANGED call
  BY OpNames DEF HandlerAction, HandlerStep, ReceiveCancel, Validate, IntentStored, Signal,
       Kill, KillFails, CancelUnstopped, RecheckUnstopped, CancelStopped, Settle, Reply, Answer
<1> QED
  BY <1>1, <1>2, InvokeKeeps, DropKeeps, DropTwoKeeps, SameKeeps

LEMMA HandlerKeeps == ASSUME SessionInv, NEW h \in Handlers, HandlerAction(h) PROVE SessionInv'
<1>1. OwnTypes /\ ServiceInv /\ HandlerFrame(h) /\ CallsKept
  BY HandlerFrames, HandlerCalls DEF SessionInv
<1>2. ServiceInv'
  BY <1>1, ProgramFrame DEF CallsKept, HandlerFrame
<1>3. /\ ctl' \in [Handlers \cup {Worker} -> WorkerPoints \cup HandlerPoints]
      /\ \A i \in Handlers : ctl'[i] \in HandlerPoints
      /\ ctl'[Worker] \in {ctl[Worker], "gone"}
  BY <1>1, ProcessesAssumption DEF HandlerFrame, HandlerMoves, OwnTypes, Go, WorkerPoints
<1>4. faults' \in 0..MaxFaults
  BY <1>1, BoundsAssumption DEF HandlerFrame, OwnTypes
<1>5. OwnTypes'
  BY <1>1, <1>3, <1>4 DEF OwnTypes, HandlerFrame, Groups, Manifests, WorkerPoints
<1> QED
  BY <1>1, <1>2, <1>3, <1>5 DEF SessionInv, HandlerFrame, At

-----------------------------------------------------------------------------
(* Recovery, the service's own steps and the environment.                  *)

LEMMA RecoverKeeps == ASSUME SessionInv, Recover PROVE SessionInv'
<1>1. CallsKept
  BY ProcessTypes, InvokeKeeps, SameKeeps, OpNames DEF Recover, SessionInv
<1>2. ServiceInv'
  BY <1>1, ProgramFrame DEF CallsKept, SessionInv, Recover
<1> QED
  BY <1>2 DEF SessionInv, Recover, OwnTypes, procVars, At

LEMMA ServiceKeeps ==
  ASSUME SessionInv, NEW c \in Processes, Serve(c) \/ ServiceFault(c) PROVE SessionInv'
<1>1. ServiceInv'
  BY ServiceStepKeeps DEF SessionInv, Serve, ServiceFault
<1>2. faults' \in 0..MaxFaults
  BY BoundsAssumption DEF SessionInv, OwnTypes, Serve, ServiceFault, procVars
<1> QED
  BY <1>1, <1>2 DEF SessionInv, Serve, ServiceFault, OwnTypes, procVars, At

LEMMA EnvironmentKeeps ==
  ASSUME SessionInv, CrashWorker \/ LingerEnds \/ Reap \/ DashboardRestart PROVE SessionInv'
<1>1. OwnTypes /\ ServiceInv
  BY DEF SessionInv
<1>2. CASE CrashWorker
  <2>1. CallsKept
    BY <1>1, <1>2, ProcessTypes, DropKeeps DEF CrashWorker
  <2>2. ServiceInv'
    BY <1>1, <1>2, <2>1, ProgramFrame DEF CallsKept, CrashWorker
  <2>3. crashes' \in 0..MaxCrashes
    BY <1>1, <1>2, BoundsAssumption DEF CrashWorker, OwnTypes
  <2>4. "gone" \in WorkerPoints /\ Go(Worker, "gone")
    BY <1>2 DEF WorkerPoints, CrashWorker, Go
  <2>5. /\ ctl' \in [Handlers \cup {Worker} -> WorkerPoints \cup HandlerPoints]
        /\ \A h \in Handlers : ctl'[h] \in HandlerPoints
        /\ ctl'[Worker] = "gone"
    BY <1>1, <2>4, WorkerMoves
  <2> QED
    BY <1>1, <1>2, <2>2, <2>3, <2>4, <2>5 DEF SessionInv, CrashWorker, OwnTypes, Groups, At
<1>3. CASE LingerEnds \/ Reap
  <2>1. ServiceInv'
    BY <1>1, <1>3, SameKeeps, ProgramFrame DEF CallsKept, LingerEnds, Reap
  <2> QED
    BY <1>1, <1>3, <2>1 DEF SessionInv, LingerEnds, Reap, OwnTypes, Groups, Manifests, At
<1>4. CASE DashboardRestart
  <2>1. CallsKept
    BY <1>1, <1>4, IdleOK DEF DashboardRestart, CallsKept, ServiceInv, ServiceTypeOK
  <2>2. ServiceInv'
    BY <1>1, <1>4, <2>1, ProgramFrame DEF CallsKept, DashboardRestart
  <2>3. crashes' \in 0..MaxCrashes
    BY <1>1, <1>4, BoundsAssumption DEF DashboardRestart, OwnTypes
  <2>4. /\ ctl' \in [Handlers \cup {Worker} -> WorkerPoints \cup HandlerPoints]
        /\ \A h \in Handlers : ctl'[h] \in HandlerPoints
        /\ ctl'[Worker] = ctl[Worker]
    BY <1>1, <1>4, ProcessesAssumption DEF DashboardRestart, OwnTypes, HandlerPoints
  <2> QED
    BY <1>1, <1>4, <2>2, <2>3, <2>4 DEF SessionInv, DashboardRestart, OwnTypes, Manifests, At
<1> QED
  BY <1>2, <1>3, <1>4

-----------------------------------------------------------------------------

\* SessionInv holds in every reachable state.
THEOREM SessionInvariance == Spec => []SessionInv
<1>1. Init => SessionInv
  <2> SUFFICES ASSUME Init PROVE SessionInv
    OBVIOUS
  <2>1. ServiceInv
    BY ServiceStart DEF Init
  <2>2. Len(Selected) \in Nat
    BY SelectedAssumption
  <2>3. /\ ctl \in [Handlers \cup {Worker} -> WorkerPoints \cup HandlerPoints]
        /\ \A h \in Handlers : ctl[h] \in HandlerPoints
        /\ ctl[Worker] = "launched" /\ ctl[Worker] \in WorkerPoints
    BY ProcessesAssumption DEF Init, WorkerPoints, HandlerPoints
  <2>4. w \in [exit : 0..3, idx : 0..Len(Selected), blocked : BOOLEAN,
               healthErr : BOOLEAN, runnerErr : BOOLEAN]
    BY <2>2 DEF Init
  <2>5. group \in Groups /\ manifest \in Manifests /\ acked \in BOOLEAN
    BY DEF Init, Groups, Manifests
  <2>6. faults \in 0..MaxFaults /\ crashes \in 0..MaxCrashes
    BY BoundsAssumption DEF Init
  <2> QED
    BY <2>1, <2>3, <2>4, <2>5, <2>6 DEF SessionInv, OwnTypes, At
<1>2. SessionInv /\ [Next]_vars => SessionInv'
  <2> SUFFICES ASSUME SessionInv, [Next]_vars PROVE SessionInv'
    OBVIOUS
  <2>1. CASE WorkerStep
    BY <2>1, WorkerKeeps
  <2>2. CASE \E h \in Handlers : HandlerAction(h)
    BY <2>2, HandlerKeeps
  <2>3. CASE Recover
    BY <2>3, RecoverKeeps
  <2>4. CASE \E c \in Processes : Serve(c) \/ ServiceFault(c)
    BY <2>4, ServiceKeeps
  <2>5. CASE CrashWorker \/ LingerEnds \/ Reap \/ DashboardRestart
    BY <2>5, EnvironmentKeeps
  <2>6. CASE UNCHANGED vars
    <3>1. ServiceInv'
      BY <2>6, SameKeeps, ProgramFrame DEF CallsKept, SessionInv, vars, dbVars
    <3> QED
      BY <2>6, <3>1 DEF SessionInv, OwnTypes, vars, At
  <2> QED
    BY <2>1, <2>2, <2>3, <2>4, <2>5, <2>6 DEF Next, HandlerAction
<1> QED
  BY <1>1, <1>2, PTL DEF Spec

\* Every variable of the session keeps its type, for any number of cancel
\* requests, tests, faults and crashes.
THEOREM TypeCorrect == Spec => []TypeOK
<1>1. SessionInv => TypeOK
  BY DEF SessionInv, ServiceInv, OwnTypes, TypeOK
<1> QED
  BY <1>1, SessionInvariance, PTL

\* Whoever writes the row, and whatever copy they write, the stored outcome and
\* failure class fit the stored lifecycle (RunService._finish and its callers).
THEOREM RowsAreConsistent == Spec => []RowConsistent
<1>1. SessionInv => RowConsistent
  BY DEF SessionInv, ServiceInv, RowConsistent
<1> QED
  BY <1>1, SessionInvariance, PTL
=============================================================================
