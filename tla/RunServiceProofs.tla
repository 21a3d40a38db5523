------------------------- MODULE RunServiceProofs -------------------------
(***************************************************************************)
(* Proofs for RunService: what every repository call keeps, whoever makes  *)
(* it.  CallOK is what makes RowOK inductive: a whole-row write stores the *)
(* copy of a call, so every copy must be consistent before it is written.  *)
(***************************************************************************)
EXTENDS RunService, SequenceTheorems, TLAPS

Deriving(stage) == stage \in {"derive", "derive_results"}
\* The stages of a call that has not computed anything yet.
Early(stage) == Deriving(stage) \/ stage = "save"

CallOK(k) ==
  /\ RowOK(k.copy)
  /\ k.stage = "save" => k.result \in Results(Tests)
  /\ Deriving(k.stage) => k.op \in {"complete", "fail"}
  /\ k.op = "fail" => k.outcome \notin Validated
  /\ k.op \in FinishOps \ {"complete", "fail"} => k.outcome = "UNVALIDATED"

ServiceInv ==
  /\ ServiceTypeOK
  /\ RowOK(row)
  /\ \A c \in Processes : CallOK(call[c])

LEMMA EntryType == ASSUME NEW op \in Ops PROVE Entry(op) \in Stages
BY DEF Entry, Stages

LEMMA NoRowOK == NoRow \in Rows /\ RowOK(NoRow)
BY DEF NoRow, Rows, RowOK, Lifecycle, Active, Terminal, Outcomes, FailureClass, Health

LEMMA NoResultType == NoResult \in Results(Tests \cup {NULL})
BY DEF NoResult, Results, TestStatus, Criticality, Evidence

LEMMA IdleOK == Idle \in Calls /\ CallOK(Idle)
<1>1. Idle \in Calls
  BY NoRowOK, NoResultType DEF Idle, Calls, Ops, Stages, Outcomes, Health
<1>2. CallOK(Idle)
  BY NoRowOK DEF Idle, CallOK, FinishOps, Deriving
<1> QED
  BY <1>1, <1>2

\* Every way to start an operation yields a good call.
LEMMA InvokedType == ASSUME NEW op \in Ops PROVE Invoked(op) \in Calls
BY IdleOK, EntryType DEF Invoked, Calls

LEMMA InvokedOK ==
  ASSUME NEW op \in Ops \ {"result"}
  PROVE  Invoked(op) \in Calls /\ CallOK(Invoked(op))
<1>1. Invoked(op) \in Calls
  BY InvokedType
<1>2. /\ Invoked(op).copy = NoRow
      /\ Invoked(op).outcome = "UNVALIDATED"
      /\ Invoked(op).op = op /\ Invoked(op).stage = Entry(op)
  BY DEF Invoked, Idle
<1>3. Deriving(Entry(op)) => op \in {"complete", "fail"}
  BY DEF Entry, Deriving
<1>4. Entry(op) # "save"
  BY DEF Entry
<1> QED
  BY <1>1, <1>2, <1>3, <1>4, NoRowOK DEF CallOK, Validated

LEMMA HealthCallOK ==
  ASSUME NEW health \in Health PROVE HealthCall(health) \in Calls /\ CallOK(HealthCall(health))
<1>1. "health" \in Ops /\ "health" \notin FinishOps
  BY DEF Ops, FinishOps
<1>2. HealthCall(health) \in Calls
  <2>1. Invoked("health") \in Calls
    BY <1>1, InvokedType
  <2> QED
    BY <2>1 DEF HealthCall, Calls
<1>3. /\ HealthCall(health).copy = NoRow /\ HealthCall(health).outcome = "UNVALIDATED"
      /\ ~Early(HealthCall(health).stage) /\ HealthCall(health).op = "health"
  BY DEF HealthCall, Invoked, Idle, Entry, Deriving, Early, FinishOps
<1> QED
  BY <1>1, <1>2, <1>3, NoRowOK DEF CallOK, Early

LEMMA ResultCallOK ==
  ASSUME NEW result \in Results(Tests)
  PROVE  ResultCall(result) \in Calls /\ CallOK(ResultCall(result))
<1>1. "result" \in Ops \ FinishOps /\ result \in Results(Tests \cup {NULL})
  BY DEF Ops, FinishOps, Results
<1>2. ResultCall(result) \in Calls
  BY <1>1, InvokedType DEF ResultCall, Calls
<1>3. /\ ResultCall(result).copy = NoRow /\ ResultCall(result).outcome = "UNVALIDATED"
      /\ ~Deriving(ResultCall(result).stage) /\ ResultCall(result).result = result
      /\ ResultCall(result).op = "result"
  BY DEF ResultCall, Invoked, Idle, Entry, Deriving, FinishOps
<1> QED
  BY <1>1, <1>2, <1>3, NoRowOK DEF CallOK

LEMMA ResaveCallOK ==
  ASSUME NEW op \in ResaveOps, NEW copy \in Rows, RowOK(copy)
  PROVE  ResaveCall(op, copy) \in Calls /\ CallOK(ResaveCall(op, copy))
<1>1. ResaveCall(op, copy) \in Calls /\ op \notin FinishOps
  BY InvokedType DEF ResaveCall, Calls, Ops, ResaveOps, FinishOps
<1>2. /\ ResaveCall(op, copy).copy = copy /\ ResaveCall(op, copy).outcome = "UNVALIDATED"
      /\ ResaveCall(op, copy).op = op /\ ~Early(ResaveCall(op, copy).stage)
  BY DEF ResaveCall, Invoked, Idle, Entry, Early, Deriving, FinishOps, ResaveOps
<1> QED
  BY <1>1, <1>2 DEF CallOK, Early, FinishOps

\* A step of the program around the service: it leaves the database alone and
\* leaves every call alone or replaces it by a good one.
LEMMA ProgramFrame ==
  ASSUME ServiceInv, UNCHANGED dbVars, call' \in [Processes -> Calls],
         \A c \in Processes : call'[c] = call[c] \/ CallOK(call'[c])
  PROVE  ServiceInv'
BY DEF ServiceInv, ServiceTypeOK, dbVars

-----------------------------------------------------------------------------
(* The values the repository calls compute.                                *)

LEMMA DeriveType == ASSUME NEW s, NEW r PROVE DeriveFromResults(s, r) \in Outcomes
BY DEF DeriveFromResults, Outcomes

LEMMA AllowedType ==
  ASSUME NEW lc \in Lifecycle, NEW target \in Allowed(lc)
  PROVE  lc \in Active /\ target \in Lifecycle
BY DEF Allowed, Lifecycle, Active, Terminal

LEMMA FinishCopyOK ==
  ASSUME NEW op \in FinishOps, NEW r \in Rows, NEW outcome \in Outcomes,
         op = "fail" => outcome \notin Validated,
         op \in FinishOps \ {"complete", "fail"} => outcome = "UNVALIDATED"
  PROVE  LET copy == [r EXCEPT !.lc = Target(op), !.outcome = outcome, !.fclass = ClassOf(op)]
         IN  copy \in Rows /\ RowOK(copy)
<1> DEFINE copy == [r EXCEPT !.lc = Target(op), !.outcome = outcome, !.fclass = ClassOf(op)]
<1>1. Target(op) \in Terminal /\ ClassOf(op) \in FailureClass \cup {"NONE"}
  BY DEF Target, Terminal, ClassOf, FailureClass, FinishOps
<1>2. copy \in Rows
  BY <1>1 DEF Rows, Lifecycle
<1>3. copy.lc = Target(op) /\ copy.outcome = outcome /\ copy.fclass = ClassOf(op)
  BY DEF Rows
<1>4. Contract!Decision(Target(op), outcome, ClassOf(op))
  BY DEF Contract!Decision, Target, ClassOf, FinishOps, Outcomes, Validated
<1> QED
  BY <1>1, <1>2, <1>3, <1>4 DEF RowOK

LEMMA TransitionCopyOK ==
  ASSUME NEW op \in TransitionOps, NEW r \in Rows, RowOK(r), Target(op) \in Allowed(r.lc)
  PROVE  LET copy == [r EXCEPT !.lc = Target(op)] IN copy \in Rows /\ RowOK(copy)
<1>1. r.lc \in Active /\ r.lc \notin Terminal
  BY AllowedType DEF Rows, Active, Terminal
<1>2. Target(op) \in Active /\ Target(op) \notin Terminal
  BY DEF Target, TransitionOps, Active, Terminal
<1> QED
  BY <1>1, <1>2 DEF RowOK, Rows, Lifecycle

-----------------------------------------------------------------------------
(* The repository calls keep ServiceInv.                                   *)

\* Most calls only move to another stage.
LEMMA GotoKeeps ==
  ASSUME ServiceInv, NEW c \in Processes, NEW stage \in Stages \ {"save"}, Goto(c, stage),
         Deriving(stage) => call[c].op \in {"complete", "fail"}
  PROVE  /\ call' \in [Processes -> Calls]
         /\ \A d \in Processes : CallOK(call'[d])
<1>1. call[c] \in Calls /\ CallOK(call[c])
  BY DEF ServiceInv, ServiceTypeOK
<1> DEFINE moved == [call[c] EXCEPT !.stage = stage]
<1>2. moved \in Calls
  BY <1>1 DEF Calls
<1>3. CallOK(moved)
  BY <1>1 DEF CallOK, Calls
<1>4. call' = [call EXCEPT ![c] = moved]
  BY DEF Goto
<1> HIDE DEF moved
<1> QED
  BY <1>2, <1>3, <1>4 DEF ServiceInv, ServiceTypeOK

\* A call that changes only its own record, into a good one.
LEMMA CallKeeps ==
  ASSUME ServiceInv, NEW c \in Processes, NEW k \in Calls, CallOK(k),
         call' = [call EXCEPT ![c] = k]
  PROVE  /\ call' \in [Processes -> Calls]
         /\ \A d \in Processes : CallOK(call'[d])
BY DEF ServiceInv, ServiceTypeOK

\* The copy of a call becomes the row, everything else is left alone.
LEMMA RowKeeps ==
  ASSUME ServiceInv, row' \in Rows, RowOK(row'), UNCHANGED <<attempts, results, events>>,
         call' \in [Processes -> Calls], \A d \in Processes : CallOK(call'[d])
  PROVE  ServiceInv'
BY DEF ServiceInv, ServiceTypeOK

LEMMA DeriveStep ==
  ASSUME ServiceInv, NEW c \in Processes, DeriveFromRun(c) \/ DeriveFromAttempt(c)
  PROVE  ServiceInv'
<1> DEFINE k(outcome) == [call[c] EXCEPT !.stage = "read", !.outcome = outcome]
<1>1. /\ call[c] \in Calls /\ CallOK(call[c])
      /\ call[c].op \in {"complete", "fail"}
  BY DEF ServiceInv, ServiceTypeOK, CallOK, Deriving, DeriveFromRun, DeriveFromAttempt
<1>2. CASE Goto(c, "derive_results") /\ UNCHANGED dbVars
  BY <1>1, <1>2, GotoKeeps, ProgramFrame DEF Stages
<1>3. ASSUME NEW outcome \in Outcomes,
             call[c].op = "fail" => outcome \notin Validated,
             call[c].op \in FinishOps \ {"complete", "fail"} => outcome = "UNVALIDATED",
             call' = [call EXCEPT ![c] = k(outcome)], UNCHANGED dbVars
      PROVE  ServiceInv'
  <2>1. k(outcome) \in Calls
    BY <1>1 DEF Calls, Stages
  <2>2. /\ k(outcome).copy = call[c].copy /\ k(outcome).op = call[c].op
        /\ k(outcome).outcome = outcome /\ k(outcome).stage = "read"
    BY <1>1 DEF Calls
  <2>3. CallOK(k(outcome))
    BY <1>1, <1>3, <2>2 DEF CallOK
  <2> HIDE DEF k
  <2> QED
    BY <1>3, <2>1, <2>3, CallKeeps, ProgramFrame
<1>4. CASE DeriveFromRun(c)
  <2>1. "UNVALIDATED" \in Outcomes /\ "UNVALIDATED" \notin Validated
    BY DEF Outcomes, Validated
  <2> QED
    BY <1>2, <1>3, <1>4, <2>1 DEF DeriveFromRun
<1>5. CASE DeriveFromAttempt(c)
  <2> DEFINE outcome == Settled(call[c].op, DeriveFromResults(Selected, results))
  <2>1. outcome \in Outcomes /\ (call[c].op = "fail" => outcome \notin Validated)
    BY DeriveType DEF Settled, Outcomes, Validated
  <2>2. call' = [call EXCEPT ![c] = k(outcome)] /\ UNCHANGED dbVars
    BY <1>5 DEF DeriveFromAttempt
  <2> HIDE DEF outcome, k
  <2> QED
    BY <1>1, <1>3, <2>1, <2>2 DEF FinishOps
<1> QED
  BY <1>4, <1>5

\* Calls that only move to another stage, or are refused.
LEMMA MoveStep ==
  ASSUME ServiceInv, NEW c \in Processes,
         \/ StartGuard(c) \/ CancelCheck(c) \/ CancelListEvents(c)
         \/ RepositoryFails(c)
  PROVE  ServiceInv'
<1>1. PICK stage \in Stages : Goto(c, stage) /\ ~Early(stage)
  <2>1. /\ {"read", "raised", "list_events", "done", "event", "failed"} \subseteq Stages
        /\ \A s \in {"read", "raised", "list_events", "done", "event", "failed"} : ~Early(s)
    BY DEF Stages, Deriving, Early
  <2> QED
    BY <2>1 DEF StartGuard, CancelCheck, CancelListEvents, RepositoryFails, Refuse
<1>2. UNCHANGED dbVars
  BY DEF StartGuard, CancelCheck, CancelListEvents, RepositoryFails
<1> QED
  BY <1>1, <1>2, GotoKeeps, ProgramFrame DEF Early

\* A read that takes a copy of the row, changed, to be written back.
LEMMA CopyStep ==
  ASSUME ServiceInv, NEW c \in Processes, NEW copy \in Rows, RowOK(copy), UNCHANGED dbVars,
         call' = [call EXCEPT ![c] = [@ EXCEPT !.stage = "update", !.copy = copy]]
  PROVE  ServiceInv'
<1> DEFINE k == [call[c] EXCEPT !.stage = "update", !.copy = copy]
<1>1. call[c] \in Calls /\ CallOK(call[c])
  BY DEF ServiceInv, ServiceTypeOK
<1>2. k \in Calls
  BY <1>1 DEF Calls, Stages
<1>3. k.copy = copy /\ k.op = call[c].op /\ k.outcome = call[c].outcome /\ ~Early(k.stage)
  BY <1>1 DEF Calls, Deriving, Early
<1>4. CallOK(k)
  BY <1>1, <1>3 DEF CallOK, Early
<1>5. call' = [call EXCEPT ![c] = k]
  OBVIOUS
<1> HIDE DEF k
<1> QED
  BY <1>2, <1>4, <1>5, CallKeeps, ProgramFrame

LEMMA RefuseStep ==
  ASSUME ServiceInv, NEW c \in Processes, Refuse(c), UNCHANGED dbVars
  PROVE  ServiceInv'
BY GotoKeeps, ProgramFrame DEF Refuse, Stages, Deriving, Early

LEMMA ReadStep ==
  ASSUME ServiceInv, NEW c \in Processes,
         FinishRead(c) \/ TransitionRead(c) \/ HealthRead(c)
  PROVE  ServiceInv'
<1>1. /\ row \in Rows /\ RowOK(row)
      /\ call[c] \in Calls /\ CallOK(call[c])
  BY DEF ServiceInv, ServiceTypeOK
<1>2. UNCHANGED dbVars
  BY DEF FinishRead, TransitionRead, HealthRead
<1>3. CASE FinishRead(c)
  <2> DEFINE copy == [row EXCEPT !.lc = Target(call[c].op), !.outcome = call[c].outcome,
                                 !.fclass = ClassOf(call[c].op)]
  <2>1. call[c].op \in FinishOps /\ call[c].outcome \in Outcomes
    BY <1>1, <1>3 DEF FinishRead, Calls
  <2>2. copy \in Rows /\ RowOK(copy)
    BY <1>1, <2>1, FinishCopyOK DEF CallOK, Early
  <2>3. \/ Refuse(c)
        \/ call' = [call EXCEPT ![c] = [@ EXCEPT !.stage = "update", !.copy = copy]]
    BY <1>3 DEF FinishRead
  <2> HIDE DEF copy
  <2> QED
    BY <1>2, <2>2, <2>3, CopyStep, RefuseStep
<1>4. CASE TransitionRead(c)
  <2> DEFINE copy == [row EXCEPT !.lc = Target(call[c].op)]
  <2>1. CASE Refuse(c)
    BY <1>2, <2>1, RefuseStep
  <2>2. CASE ~Refuse(c)
    <3>1. /\ call[c].op \in TransitionOps
          /\ Target(call[c].op) \in Allowed(row.lc)
          /\ call' = [call EXCEPT ![c] = [@ EXCEPT !.stage = "update", !.copy = copy]]
      BY <1>4, <2>2 DEF TransitionRead
    <3>2. copy \in Rows /\ RowOK(copy)
      BY <1>1, <3>1, TransitionCopyOK
    <3> HIDE DEF copy
    <3> QED
      BY <1>2, <3>1, <3>2, CopyStep
  <2> QED
    BY <2>1, <2>2
<1>5. CASE HealthRead(c)
  <2> DEFINE copy == [row EXCEPT !.health = call[c].health]
  <2>1. copy \in Rows /\ RowOK(copy)
    BY <1>1 DEF Rows, RowOK, Calls
  <2>2. \/ Refuse(c) \/ Goto(c, "done")
        \/ call' = [call EXCEPT ![c] = [@ EXCEPT !.stage = "update", !.copy = copy]]
    BY <1>5 DEF HealthRead
  <2>3. CASE Goto(c, "done")
    BY <1>2, <2>3, GotoKeeps, ProgramFrame DEF Stages, Deriving, Early
  <2> HIDE DEF copy
  <2> QED
    BY <1>2, <2>1, <2>2, <2>3, CopyStep, RefuseStep
<1> QED
  BY <1>3, <1>4, <1>5

LEMMA WriteStep ==
  ASSUME ServiceInv, NEW c \in Processes, UpdateRun(c) \/ RestampStarted(c)
  PROVE  ServiceInv'
<1>1. /\ call[c] \in Calls /\ CallOK(call[c])
      /\ call[c].copy \in Rows /\ RowOK(call[c].copy)
  BY DEF ServiceInv, ServiceTypeOK, CallOK, Calls
<1>2. CASE UpdateRun(c)
  <2>1. PICK stage \in Stages : Goto(c, stage) /\ ~Early(stage)
    BY <1>2 DEF UpdateRun, Stages, Deriving, Early
  <2>2. row' = call[c].copy /\ UNCHANGED <<attempts, results, events>>
    BY <1>2 DEF UpdateRun
  <2> QED
    BY <1>1, <2>1, <2>2, GotoKeeps, RowKeeps DEF Early
<1>3. CASE RestampStarted(c)
  <2> DEFINE started == [call[c].copy EXCEPT !.started = TRUE]
             k == [call[c] EXCEPT !.stage = "event", !.copy = started]
  <2>1. started \in Rows /\ RowOK(started)
    BY <1>1 DEF Rows, RowOK
  <2>2. k \in Calls
    BY <1>1, <2>1 DEF Calls, Stages
  <2>3. k.copy = started /\ k.op = call[c].op /\ k.outcome = call[c].outcome /\ ~Early(k.stage)
    BY <1>1 DEF Calls, Deriving, Early
  <2>4. CallOK(k)
    BY <1>1, <2>1, <2>3 DEF CallOK, Early
  <2>5. /\ row' = started /\ call' = [call EXCEPT ![c] = k]
        /\ UNCHANGED <<attempts, results, events>>
    BY <1>3 DEF RestampStarted
  <2> HIDE DEF started, k
  <2> QED
    BY <2>1, <2>2, <2>4, <2>5, CallKeeps, RowKeeps
<1> QED
  BY <1>2, <1>3

\* The calls on the other tables leave the row alone.
LEMMA AttemptStep ==
  ASSUME ServiceInv, NEW c \in Processes, ListOpenAttempts(c) \/ CloseAttempt(c)
  PROVE  ServiceInv'
<1>1. /\ call[c] \in Calls /\ CallOK(call[c])
      /\ attempts \in Seq({"open", "closed"})
  BY DEF ServiceInv, ServiceTypeOK
<1>2. PICK stage \in Stages, todo \in SUBSET Nat :
        /\ call' = [call EXCEPT ![c] = [@ EXCEPT !.stage = stage, !.todo = todo]]
        /\ ~Early(stage)
        /\ attempts' \in Seq({"open", "closed"})
        /\ UNCHANGED <<row, results, events>>
  <2>1. {"event", "close"} \subseteq Stages /\ ~Early("event") /\ ~Early("close")
    BY DEF Stages, Deriving, Early
  <2>2. CASE ListOpenAttempts(c)
    <3> DEFINE open == {n \in DOMAIN attempts : attempts[n] = "open"}
               stage == IF open = {} THEN "event" ELSE "close"
    <3>1. open \in SUBSET Nat
      BY <1>1
    <3>2. /\ call' = [call EXCEPT ![c] = [@ EXCEPT !.stage = stage, !.todo = open]]
          /\ UNCHANGED dbVars
      BY <2>2 DEF ListOpenAttempts
    <3>3. stage \in Stages /\ ~Early(stage)
      BY <2>1
    <3> HIDE DEF open, stage
    <3> QED
      BY <1>1, <3>1, <3>2, <3>3 DEF dbVars
  <2>3. CASE CloseAttempt(c)
    <3>1. PICK n \in call[c].todo :
            /\ attempts' = [attempts EXCEPT ![n] = "closed"]
            /\ call' = [call EXCEPT ![c] =
                 [@ EXCEPT !.stage = IF call[c].todo = {n} THEN "event" ELSE "close",
                           !.todo = call[c].todo \ {n}]]
      BY <2>3 DEF CloseAttempt
    <3> DEFINE stage == IF call[c].todo = {n} THEN "event" ELSE "close"
               todo == call[c].todo \ {n}
    <3>2. todo \in SUBSET Nat
      BY <1>1 DEF Calls
    <3>3. attempts' \in Seq({"open", "closed"})
      <4>1. attempts \in [1..Len(attempts) -> {"open", "closed"}] /\ Len(attempts) \in Nat
        BY <1>1
      <4>2. attempts' \in [1..Len(attempts) -> {"open", "closed"}]
        BY <3>1, <4>1
      <4> QED
        BY <4>1, <4>2, SeqDef
    <3>4. call' = [call EXCEPT ![c] = [@ EXCEPT !.stage = stage, !.todo = todo]]
      BY <3>1
    <3>5. stage \in Stages /\ ~Early(stage)
      BY <2>1
    <3>6. UNCHANGED <<row, results, events>>
      BY <2>3 DEF CloseAttempt
    <3> HIDE DEF stage, todo
    <3> QED
      BY <3>2, <3>3, <3>4, <3>5, <3>6
  <2> QED
    BY <2>2, <2>3
<1> DEFINE k == [call[c] EXCEPT !.stage = stage, !.todo = todo]
<1>3. k \in Calls
  BY <1>1 DEF Calls
<1>4. /\ k.copy = call[c].copy /\ k.op = call[c].op /\ k.outcome = call[c].outcome
      /\ ~Early(k.stage)
  BY <1>1, <1>2 DEF Calls
<1>5. CallOK(k)
  BY <1>1, <1>4 DEF CallOK, Early
<1>6. call' = [call EXCEPT ![c] = k]
  BY <1>2
<1> HIDE DEF k
<1>7. call' \in [Processes -> Calls] /\ \A d \in Processes : CallOK(call'[d])
  BY <1>3, <1>5, <1>6, CallKeeps
<1> QED
  BY <1>2, <1>7 DEF ServiceInv, ServiceTypeOK

LEMMA LogStep ==
  ASSUME ServiceInv, NEW c \in Processes, AppendEvent(c) \/ SaveResult(c)
  PROVE  ServiceInv'
<1>1. PICK stage \in {"restamp", "done", "event", "raised"} : Goto(c, stage)
  BY DEF AppendEvent, SaveResult, Refuse
<1>2. call' \in [Processes -> Calls] /\ \A d \in Processes : CallOK(call'[d])
  BY <1>1, GotoKeeps DEF Stages, Deriving, Early
<1>3. row' = row /\ attempts' = attempts
  BY DEF AppendEvent, SaveResult
<1>4. events' \in Seq(EventTypes)
  <2>1. ASSUME NEW op, NEW copy PROVE EventOf(op, copy) \in EventTypes
    BY DEF EventOf, EventTypes
  <2>2. call[c].op \in Ops /\ call[c].copy \in Rows /\ events \in Seq(EventTypes)
    BY DEF ServiceInv, ServiceTypeOK, Calls
  <2> QED
    BY <2>1, <2>2 DEF AppendEvent, SaveResult
<1>5. results' \in Seq(Results(Tests))
  <2>1. results \in Seq(Results(Tests)) /\ CallOK(call[c])
    BY DEF ServiceInv, ServiceTypeOK
  <2>2. CASE AppendEvent(c)
    BY <2>1, <2>2 DEF AppendEvent
  <2>3. CASE SaveResult(c)
    <3>1. call[c].result \in Results(Tests)
      BY <2>1, <2>3 DEF SaveResult, CallOK
    <3> QED
      BY <2>1, <2>3, <3>1 DEF SaveResult
  <2> QED
    BY <2>2, <2>3
<1> QED
  BY <1>2, <1>3, <1>4, <1>5 DEF ServiceInv, ServiceTypeOK

\* One repository call of any operation, made by any process.
LEMMA ServiceStepKeeps ==
  ASSUME ServiceInv, NEW c \in Processes, ServiceStep(c) \/ RepositoryFails(c)
  PROVE  ServiceInv'
BY DeriveStep, MoveStep, ReadStep, WriteStep, AttemptStep, LogStep DEF ServiceStep

\* The insertion of the row, with the call that follows it.
LEMMA CreateStep ==
  ASSUME ServiceInv, CreateRun, call' \in [Processes -> Calls],
         \A c \in Processes : call'[c] = call[c] \/ CallOK(call'[c])
  PROVE  ServiceInv'
<1>1. row' \in Rows /\ RowOK(row')
  BY NoRowOK DEF CreateRun, Rows, RowOK, Lifecycle, Active, Terminal, NoRow
<1>2. attempts' \in Seq({"open", "closed"})
  BY DEF CreateRun
<1>3. events' \in Seq(EventTypes)
  BY DEF CreateRun, EventTypes
<1>4. results' = results
  BY DEF CreateRun
<1>5. \A c \in Processes : CallOK(call'[c])
  BY DEF ServiceInv
<1> QED
  BY <1>1, <1>2, <1>3, <1>4, <1>5 DEF ServiceInv, ServiceTypeOK

LEMMA ServiceStart == ServiceInit => ServiceInv
<1> SUFFICES ASSUME ServiceInit PROVE ServiceInv
  OBVIOUS
<1>1. \A c \in Processes : call[c] \in Calls /\ CallOK(call[c])
  BY IdleOK DEF ServiceInit
<1>2. call \in [Processes -> Calls]
  BY <1>1 DEF ServiceInit
<1> QED
  BY <1>1, <1>2, NoRowOK DEF ServiceInit, ServiceInv, ServiceTypeOK
=============================================================================
