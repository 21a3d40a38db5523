------------------------- MODULE RunDecisionProofs -------------------------
(***************************************************************************)
(* How a Run is decided in RunSession: nobody ever writes a stale copy of  *)
(* its row, although every process reads and writes it as a whole.         *)
(*                                                                         *)
(* pytest is the only writer while it lives.  A handler writes nothing but *)
(* the cancellation, once it has seen pytest gone; two handlers write the  *)
(* same.  Recovery never takes a worker for dead.                          *)
(*                                                                         *)
(* When nothing fails and nobody cancels, pytest closes its attempts and   *)
(* appends one terminal event before it is gone.                           *)
(***************************************************************************)
EXTENDS RunSessionProofs, FiniteSetTheorems

HandlerOps == {"none", "request_cancel", "cancel"}
DecisionOps == {"complete", "fail"}
SaveOps == TransitionOps \cup ResaveOps

\* The repository calls of each operation.
Track(op) ==
  CASE op \in FinishOps -> {"derive", "derive_results", "read", "update", "list", "close", "event"}
    [] op \in TransitionOps -> {"guard", "read", "update", "event", "restamp"}
    [] op \in ResaveOps -> {"update"}
    [] op = "health" -> {"read_health", "update"}
    [] op = "result" -> {"save", "event"}
    [] op = "request_cancel" -> {"check", "list_events", "event"}
    [] OTHER -> {}
Ended == {"idle", "done", "raised", "failed"}
OnTrack(k) == k.stage \in Track(k.op) \cup Ended

\* Points at which pytest has no call in flight, and at which a handler has
\* seen pytest gone.
Resting == {"launched", "testing", "finalize", "close", "decide", "crash_handler", "gone"}
Notified == {"unstopped", "unstopped_done", "settle", "settling", "reply"}
Deciding == {"deciding", "crash_handler", "crashing"}

WorkerGone == At(Worker, "gone")

\* Who may be executing what, and where.
Roles ==
  /\ \A c \in Processes : OnTrack(call[c])
  /\ call[Recovery] = Idle
  /\ group # "running" => WorkerGone
  /\ \A h \in Handlers :
       /\ call[h].op \in HandlerOps
       /\ call[h].op = "cancel" \/ ctl[h] \in Notified => WorkerGone
  /\ ctl[Worker] \in Resting => ~InFlight(Worker)
  /\ At(Worker, "preparing") => call[Worker].op = "prepare"
  /\ At(Worker, "starting") => call[Worker].op = "start"
  /\ ctl[Worker] \in Deciding \cup {"after_lab_fail_again"} => call[Worker].op \in FinishOps
  /\ call[Worker].op \in DecisionOps => ctl[Worker] \in Deciding \cup {"gone"}

\* What one write of the row may do to it.
Legal(r, s) ==
  /\ r.lc # "ABSENT"
  /\ \/ s.lc = r.lc /\ s.outcome = r.outcome /\ s.fclass = r.fclass
     \/ /\ r.lc \in Active /\ s.lc \in Active
        /\ Contract!Rank[r.lc] < Contract!Rank[s.lc]
        /\ s.outcome = r.outcome /\ s.fclass = r.fclass
     \/ /\ r.lc \in Active
        /\ Contract!Decision(s.lc, s.outcome, s.fclass)
        /\ s.lc = "COMPLETED" => r.lc = "RUNNING"
        /\ s.lc = "FAILED" => r.lc \in {"PREPARING", "RUNNING"}
Keeps(r, s) ==
  /\ HealthSeverity(r.health) <= HealthSeverity(s.health)
  /\ r.pid => s.pid
  /\ r.started => s.started

Cancelled(r) == [r EXCEPT !.lc = "CANCELLED", !.outcome = "UNVALIDATED", !.fclass = "CANCELLED"]

\* No copy is stale when it is written.
FreshWorker(k, r) ==
  /\ k.stage = "update" =>
       /\ Legal(r, k.copy) /\ Keeps(r, k.copy)
       /\ k.op \notin FinishOps => k.copy.lc = r.lc \/ k.copy.lc \in Active
  /\ k.op \in SaveOps /\ k.stage \in {"event", "restamp", "done"} =>
       k.copy = r /\ r.lc # "ABSENT"
FreshHandler(k, r) ==
  k.stage = "update" => r.lc \in Active \cup {"CANCELLED"} /\ k.copy = Cancelled(r)
Fresh ==
  /\ row.lc = "ABSENT" => row = NoRow
  /\ ~WorkerGone => FreshWorker(call[Worker], row)
  /\ \A h \in Handlers : FreshHandler(call[h], row)

\* A decision that is under way, and one that is written.
FinishingOf(k, r) ==
  k.op \in FinishOps =>
    /\ k.stage = "update" => k.copy.lc = Target(k.op) /\ k.copy.fclass = ClassOf(k.op)
    /\ k.stage \in {"list", "close", "event"} => r.lc = Target(k.op) /\ r.fclass = ClassOf(k.op)
Finishing == \A c \in Processes : FinishingOf(call[c], row)

\* The facts an outcome is derived from are still the stored ones.
Due(op) == Settled(op, Derive(row.health, Selected, results))
FactsOf(k) ==
  k.op \in DecisionOps =>
    /\ k.stage = "derive_results" => HealthUsable(row.health)
    /\ k.stage = "read" => k.outcome = Due(k.op)
    /\ k.stage = "update" => k.copy.health = row.health /\ k.copy.outcome = Due(k.op)
Facts ==
  /\ row.lc \in {"COMPLETED", "FAILED"} => ctl[Worker] \in Deciding \cup {"gone"}
  /\ ~WorkerGone => FactsOf(call[Worker])

DecisionInv ==
  /\ Roles /\ Fresh /\ Finishing /\ Facts
  /\ CancelAckSound /\ FinishEventsAgree /\ OutcomeMatchesFacts

-----------------------------------------------------------------------------
(* Operators of the invariant.                                             *)

LEMMA RowTyped == ASSUME SessionInv PROVE row \in Rows /\ RowOK(row)
BY DEF SessionInv, ServiceInv, ServiceTypeOK

LEMMA CallTyped ==
  ASSUME SessionInv, NEW c \in Processes PROVE call[c] \in Calls /\ CallOK(call[c])
BY DEF SessionInv, ServiceInv, ServiceTypeOK

\* A call that has computed nothing yet.
First == {"derive", "read", "guard", "check", "read_health", "save"}
Started(k) == k.stage \in First \cap Track(k.op)

LEMMA StartedFresh ==
  ASSUME NEW k, Started(k), NEW r
  PROVE  /\ OnTrack(k) /\ FreshWorker(k, r) /\ FreshHandler(k, r) /\ FinishingOf(k, r)
         /\ k.op # "none"
<1>1. k.stage \in First /\ k.stage \in Track(k.op)
  BY DEF Started
<1>2. k.op # "none"
  BY <1>1 DEF Track, FinishOps, TransitionOps, ResaveOps
<1> QED
  BY <1>1, <1>2 DEF First, OnTrack, FreshWorker, FreshHandler, FinishingOf

\* Nor has a call that is over anything left to write.
LEMMA OverFresh ==
  ASSUME NEW k, k.stage \in Ended, k.op \notin SaveOps, NEW r
  PROVE  OnTrack(k) /\ FreshWorker(k, r) /\ FreshHandler(k, r) /\ FinishingOf(k, r)
BY DEF Ended, OnTrack, FreshWorker, FreshHandler, FinishingOf

LEMMA InvokedStarts ==
  ASSUME NEW op \in FinishOps \cup TransitionOps \cup {"request_cancel"}
  PROVE  Started(Invoked(op)) /\ Invoked(op).op = op
BY DEF Started, First, Track, Invoked, Idle, Entry, FinishOps, TransitionOps, ResaveOps

LEMMA HealthCallStarts ==
  ASSUME NEW health PROVE Started(HealthCall(health)) /\ HealthCall(health).op = "health"
BY DEF Started, First, Track, HealthCall, Invoked, Idle, Entry, FinishOps, TransitionOps, ResaveOps

LEMMA ResultCallStarts ==
  ASSUME NEW result PROVE Started(ResultCall(result)) /\ ResultCall(result).op = "result"
BY DEF Started, First, Track, ResultCall, Invoked, Idle, Entry, FinishOps, TransitionOps, ResaveOps

LEMMA IdleOver == Idle.stage \in Ended /\ Idle.op = "none" /\ Idle.op \notin SaveOps
BY DEF Idle, Ended, SaveOps, TransitionOps, ResaveOps

LEMMA SeverityOrder ==
  /\ \A h : HealthSeverity(h) \in Int
  /\ \A h : HealthSeverity(h) <= HealthSeverity(h)
BY DEF HealthSeverity

\* A call in flight is of a process that may write.
LEMMA InFlightRoles ==
  ASSUME DecisionInv, SessionInv, NEW c \in Processes, InFlight(c)
  PROVE  /\ c # Recovery
         /\ c = Worker => ~WorkerGone
         /\ c \in Handlers => call[c].op \in {"request_cancel", "cancel"}
         /\ c = Worker \/ c \in Handlers
         /\ call[c].stage \in Track(call[c].op)
<1>1. c # Recovery
  BY DEF DecisionInv, Roles, InFlight, Idle
<1>2. c = Worker => ~WorkerGone
  BY DEF DecisionInv, Roles, Resting, WorkerGone, At
<1>3. call[c].stage \in Track(call[c].op)
  BY DEF DecisionInv, Roles, OnTrack, InFlight, Ended
<1>4. call[c].op # "none"
  BY <1>3 DEF Track, FinishOps, TransitionOps, ResaveOps
<1>5. c = Worker \/ c \in Handlers
  BY <1>1, ProcessesAssumption
<1> QED
  BY <1>1, <1>2, <1>3, <1>4, <1>5 DEF DecisionInv, Roles, HandlerOps

\* While pytest lives no handler is cancelling.
LEMMA NobodyElseWrites ==
  ASSUME DecisionInv, SessionInv, ~WorkerGone, NEW c \in Processes, c # Worker
  PROVE  call[c].op \notin FinishOps /\ call[c].stage # "update"
<1>1. CASE c = Recovery
  BY <1>1 DEF DecisionInv, Roles, Idle, FinishOps
<1>2. CASE c \in Handlers
  <2>1. call[c].op \in {"none", "request_cancel"} /\ OnTrack(call[c])
    BY <1>2 DEF DecisionInv, Roles, HandlerOps
  <2> QED
    BY <2>1 DEF OnTrack, Track, Ended, FinishOps, TransitionOps, ResaveOps
<1> QED
  BY <1>1, <1>2, ProcessesAssumption

\* A decided row is not decided otherwise.
LEMMA LegalKeepsDecision ==
  ASSUME NEW r, NEW s, Legal(r, s), r.lc \in Terminal
  PROVE  s.lc = r.lc /\ s.outcome = r.outcome /\ s.fclass = r.fclass
BY DEF Legal, Active, Terminal

LEMMA LegalExists == ASSUME NEW r, NEW s, Legal(r, s) PROVE r.lc # "ABSENT" /\ s.lc # "ABSENT"
BY DEF Legal, Active, Contract!Decision

LEMMA EventsKept ==
  ASSUME DecisionInv, UNCHANGED events, Legal(row, row') PROVE FinishEventsAgree'
<1>1. ASSUME NEW op \in FinishOps PROVE Target(op) \in Terminal
  BY DEF Target, FinishOps, Terminal
<1> QED
  BY <1>1, LegalKeepsDecision DEF DecisionInv, FinishEventsAgree

LEMMA AckKept ==
  ASSUME DecisionInv, UNCHANGED acked, Legal(row, row') PROVE CancelAckSound'
BY LegalKeepsDecision DEF DecisionInv, CancelAckSound, Terminal

-----------------------------------------------------------------------------
(* Repository calls that leave the database alone.                         *)

procFrame == <<ctl, group, acked>>

\* What the new call of c has to satisfy, on the row as it is.
Good(c, k) ==
  /\ OnTrack(k)
  /\ c = Worker => FreshWorker(k, row) /\ FactsOf(k)
  /\ c \in Handlers => FreshHandler(k, row)
  /\ FinishingOf(k, row)

\* Roles depend on the operation and its stage only.
LEMMA RolesKept ==
  ASSUME SessionInv, DecisionInv, NEW c \in Processes, InFlight(c),
         NEW k, k.op = call[c].op, OnTrack(k),
         call' = [call EXCEPT ![c] = k], UNCHANGED procFrame
  PROVE  /\ Roles'
         /\ ctl' = ctl /\ acked' = acked
         /\ call'[c] = k /\ \A d \in Processes \ {c} : call'[d] = call[d]
<1>1. /\ c # Recovery
      /\ call \in [Processes -> Calls]
      /\ Worker \in Processes /\ Recovery \in Processes /\ Handlers \subseteq Processes
  BY InFlightRoles, ProcessTypes DEF SessionInv, ServiceInv, ServiceTypeOK
<1>2. ctl' = ctl /\ group' = group /\ acked' = acked
  BY DEF procFrame
<1>3. call'[c] = k /\ \A d \in Processes \ {c} : call'[d] = call[d]
  BY <1>1
<1>4. ctl[Worker] \in Resting => ~InFlight(Worker)'
  <2>1. ctl[Worker] \in Resting => c # Worker
    BY DEF DecisionInv, Roles
  <2> QED
    BY <1>1, <1>3, <2>1 DEF DecisionInv, Roles, InFlight
<1>5. \A d \in Processes : call'[d].op = call[d].op /\ OnTrack(call'[d])
  BY <1>3 DEF DecisionInv, Roles
<1>6. call'[Recovery] = Idle
  BY <1>1, <1>3 DEF DecisionInv, Roles
<1> QED
  BY <1>1, <1>2, <1>3, <1>4, <1>5, <1>6 DEF DecisionInv, Roles, WorkerGone, At

LEMMA QuietCall ==
  ASSUME SessionInv, DecisionInv, NEW c \in Processes, InFlight(c),
         NEW k, k.op = call[c].op, Good(c, k),
         call' = [call EXCEPT ![c] = k], UNCHANGED <<row, results, events, procFrame>>
  PROVE  DecisionInv'
<1>1. /\ c = Worker => ~WorkerGone
      /\ Worker \in Processes /\ Handlers \subseteq Processes /\ Worker \notin Handlers
  BY InFlightRoles, ProcessTypes, ProcessesAssumption
<1>2. /\ Roles' /\ ctl' = ctl /\ acked' = acked
      /\ call'[c] = k /\ \A d \in Processes \ {c} : call'[d] = call[d]
  BY RolesKept DEF Good
<1>3. Fresh'
  BY <1>1, <1>2 DEF DecisionInv, Fresh, Good, WorkerGone, At
<1>4. Finishing'
  BY <1>2 DEF DecisionInv, Finishing, Good
<1>5. Facts'
  <2>1. ~WorkerGone => FactsOf(call'[Worker])
    BY <1>1, <1>2 DEF DecisionInv, Facts, Good
  <2> QED
    BY <1>1, <1>2, <2>1 DEF DecisionInv, Facts, FactsOf, Due, WorkerGone, At
<1> QED
  BY <1>2, <1>3, <1>4, <1>5
     DEF DecisionInv, CancelAckSound, FinishEventsAgree, OutcomeMatchesFacts

\* A call that goes on, is over or is refused, with nothing computed.
LEMMA GotoCall ==
  ASSUME SessionInv, DecisionInv, NEW c \in Processes, InFlight(c), NEW stage, Goto(c, stage),
         UNCHANGED <<dbVars, procFrame>>,
         \/ stage \in {"raised", "failed"}
         \/ stage = "done" /\ call[c].op \notin SaveOps
         \/ stage \in {"list_events", "event", "done"} /\ call[c].op = "request_cancel"
         \/ stage = "read" /\ call[c].op \in TransitionOps
         \/ stage = "derive_results" /\ call[c].op \in FinishOps /\ HealthUsable(row.health)
  PROVE  DecisionInv'
<1> DEFINE k == [call[c] EXCEPT !.stage = stage]
<1>1. call[c] \in Calls
  BY CallTyped
<1>2. k.op = call[c].op /\ k.stage = stage
  BY <1>1 DEF Calls
<1>3. call' = [call EXCEPT ![c] = k]
  BY DEF Goto
<1> HIDE DEF k
<1>4. OnTrack(k)
  BY <1>2 DEF OnTrack, Track, Ended, FinishOps, TransitionOps, ResaveOps
<1>5. FreshWorker(k, row) /\ FreshHandler(k, row) /\ FinishingOf(k, row) /\ FactsOf(k)
  BY <1>2 DEF FreshWorker, FreshHandler, FinishingOf, FactsOf, SaveOps, FinishOps,
              TransitionOps, ResaveOps, DecisionOps
<1> QED
  BY <1>2, <1>3, <1>4, <1>5, QuietCall DEF Good, dbVars

LEMMA MoveDecides ==
  ASSUME SessionInv, DecisionInv, NEW c \in Processes, UNCHANGED procFrame,
         \/ StartGuard(c) \/ CancelCheck(c) \/ CancelListEvents(c) \/ RepositoryFails(c)
  PROVE  DecisionInv'
<1>1. /\ InFlight(c) /\ UNCHANGED dbVars
      /\ call[c].stage \in Track(call[c].op)
  <2>1. InFlight(c)
    BY DEF StartGuard, CancelCheck, CancelListEvents, RepositoryFails, InFlight
  <2> QED
    BY <2>1, InFlightRoles DEF StartGuard, CancelCheck, CancelListEvents, RepositoryFails
<1>2. CASE StartGuard(c)
  <2>1. call[c].op \in TransitionOps
    BY <1>1, <1>2 DEF StartGuard, Track, FinishOps, TransitionOps, ResaveOps
  <2> QED
    BY <1>1, <1>2, <2>1, GotoCall DEF StartGuard, Refuse
<1>3. CASE CancelCheck(c) \/ CancelListEvents(c)
  <2>1. call[c].op = "request_cancel"
    BY <1>1, <1>3 DEF CancelCheck, CancelListEvents, Track, FinishOps, TransitionOps, ResaveOps
  <2> QED
    BY <1>1, <1>3, <2>1, GotoCall DEF CancelCheck, CancelListEvents, Refuse
<1>4. CASE RepositoryFails(c)
  BY <1>1, <1>4, GotoCall DEF RepositoryFails
<1> QED
  BY <1>2, <1>3, <1>4

LEMMA DeriveDecides ==
  ASSUME SessionInv, DecisionInv, NEW c \in Processes, UNCHANGED procFrame,
         DeriveFromRun(c) \/ DeriveFromAttempt(c)
  PROVE  DecisionInv'
<1>1. /\ call[c] \in Calls /\ call[c].op \in DecisionOps
      /\ InFlight(c) /\ UNCHANGED dbVars
  BY CallTyped DEF DeriveFromRun, DeriveFromAttempt, CallOK, Deriving, DecisionOps, InFlight
<1>2. /\ c = Worker /\ ~WorkerGone
  BY <1>1, InFlightRoles DEF DecisionOps
<1>3. call[c].op \in FinishOps
  BY <1>1 DEF DecisionOps, FinishOps
<1>4. CASE Goto(c, "derive_results") /\ HealthUsable(row.health)
  BY <1>1, <1>3, <1>4, GotoCall
<1>5. CASE call' = [call EXCEPT ![c] = [@ EXCEPT !.stage = "read", !.outcome = Due(call[c].op)]]
  <2> DEFINE k == [call[c] EXCEPT !.stage = "read", !.outcome = Due(call[c].op)]
  <2>1. k.op = call[c].op /\ k.stage = "read" /\ k.outcome = Due(call[c].op)
    BY <1>1 DEF Calls
  <2>2. call' = [call EXCEPT ![c] = k]
    BY <1>5
  <2> HIDE DEF k
  <2>3. OnTrack(k)
    BY <1>3, <2>1 DEF OnTrack, Track, FinishOps, TransitionOps, ResaveOps
  <2>4. FreshWorker(k, row) /\ FinishingOf(k, row) /\ FactsOf(k)
    BY <2>1 DEF FreshWorker, FinishingOf, FactsOf
  <2> QED
    BY <1>1, <1>2, <2>1, <2>2, <2>3, <2>4, ProcessesAssumption, QuietCall
       DEF Good, dbVars
<1>6. CASE DeriveFromRun(c)
  <2>1. CASE HealthUsable(row.health)
    BY <1>4, <1>6, <2>1 DEF DeriveFromRun
  <2>2. CASE ~HealthUsable(row.health)
    <3>1. Due(call[c].op) = "UNVALIDATED"
      BY <2>2 DEF Due, Derive, Settled, Validated
    <3> QED
      BY <1>5, <1>6, <2>2, <3>1 DEF DeriveFromRun
  <2> QED
    BY <2>1, <2>2
<1>7. CASE DeriveFromAttempt(c)
  <2>1. HealthUsable(row.health)
    BY <1>1, <1>2, <1>7 DEF DecisionInv, Facts, FactsOf, DeriveFromAttempt
  <2>2. Due(call[c].op) = Settled(call[c].op, DeriveFromResults(Selected, results))
    BY <2>1 DEF Due, Derive
  <2> QED
    BY <1>5, <1>7, <2>2 DEF DeriveFromAttempt
<1> QED
  BY <1>6, <1>7

-----------------------------------------------------------------------------
(* Reads of the row: the copy is legal to write now.                       *)

LEMMA ActiveRanks ==
  /\ \A lc \in Active : Contract!Rank[lc] \in Nat
  /\ \A op \in TransitionOps, lc \in Lifecycle :
       Target(op) \in Allowed(lc) =>
         /\ lc \in Active /\ Target(op) \in Active
         /\ Contract!Rank[lc] < Contract!Rank[Target(op)]
BY DEF Active, Contract!Rank, TransitionOps, Lifecycle, Terminal, Target, Allowed

\* A copy is taken of the row that is there.
LEMMA CopyCall ==
  ASSUME SessionInv, DecisionInv, NEW c \in Processes, InFlight(c), NEW copy,
         call' = [call EXCEPT ![c] = [@ EXCEPT !.stage = "update", !.copy = copy]],
         UNCHANGED <<dbVars, procFrame>>,
         "update" \in Track(call[c].op),
         c = Worker => /\ Legal(row, copy) /\ Keeps(row, copy)
                       /\ call[c].op \notin FinishOps => copy.lc = row.lc \/ copy.lc \in Active
                       /\ call[c].op \in DecisionOps =>
                            copy.health = row.health /\ copy.outcome = Due(call[c].op),
         c \in Handlers => row.lc \in Active \cup {"CANCELLED"} /\ copy = Cancelled(row),
         call[c].op \in FinishOps =>
           copy.lc = Target(call[c].op) /\ copy.fclass = ClassOf(call[c].op)
  PROVE  DecisionInv'
<1> DEFINE k == [call[c] EXCEPT !.stage = "update", !.copy = copy]
<1>1. k.op = call[c].op /\ k.stage = "update" /\ k.copy = copy
  BY CallTyped DEF Calls
<1>2. call' = [call EXCEPT ![c] = k]
  OBVIOUS
<1> HIDE DEF k
<1>3. Good(c, k)
  BY <1>1 DEF Good, OnTrack, FreshWorker, FreshHandler, FinishingOf, FactsOf
<1> QED
  BY <1>1, <1>2, <1>3, QuietCall DEF dbVars

LEMMA FinishDecides ==
  ASSUME SessionInv, DecisionInv, NEW c \in Processes, UNCHANGED procFrame, FinishRead(c)
  PROVE  DecisionInv'
<1> DEFINE op == call[c].op
           copy == [row EXCEPT !.lc = Target(op), !.outcome = call[c].outcome,
                               !.fclass = ClassOf(op)]
<1>1. /\ call[c] \in Calls /\ CallOK(call[c]) /\ row \in Rows /\ RowOK(row)
      /\ op \in FinishOps /\ InFlight(c) /\ call[c].stage = "read" /\ UNCHANGED dbVars
  BY CallTyped, RowTyped DEF FinishRead, InFlight
<1>2. CASE Refuse(c)
  BY <1>1, <1>2, GotoCall DEF Refuse
<1>3. CASE ~Refuse(c)
  <2>1. /\ Target(op) \in Allowed(row.lc)
        /\ call' = [call EXCEPT ![c] = [@ EXCEPT !.stage = "update", !.copy = copy]]
    BY <1>1, <1>3 DEF FinishRead
  <2>2. /\ copy.lc = Target(op) /\ copy.outcome = call[c].outcome /\ copy.fclass = ClassOf(op)
        /\ copy.health = row.health /\ copy.pid = row.pid /\ copy.started = row.started
    BY <1>1 DEF Rows
  <2>3. row.lc \in Active
    BY <1>1, <2>1, AllowedType DEF Rows
  <2>4. "update" \in Track(op)
    BY <1>1 DEF Track, FinishOps, TransitionOps, ResaveOps
  <2>5. Keeps(row, copy)
    BY <2>2, SeverityOrder DEF Keeps
  <2>6. Legal(row, copy)
    <3>1. Contract!Decision(copy.lc, copy.outcome, copy.fclass)
      <4>1. call[c].outcome \in Outcomes
        BY <1>1 DEF Calls
      <4>2. RowOK(copy)
        BY <1>1, <4>1, FinishCopyOK DEF CallOK
      <4>3. copy.lc \in Terminal
        BY <1>1, <2>2 DEF Target, FinishOps, Terminal
      <4> HIDE DEF copy
      <4> QED
        BY <4>2, <4>3 DEF RowOK
    <3>2. /\ Target(op) = "COMPLETED" => row.lc = "RUNNING"
          /\ Target(op) = "FAILED" => row.lc \in {"PREPARING", "RUNNING"}
      BY <2>1, <2>3 DEF Allowed, Active
    <3> HIDE DEF copy
    <3> QED
      BY <2>2, <2>3, <3>1, <3>2 DEF Legal, Active
  <2>7. c \in Handlers => copy = Cancelled(row)
    <3>1. c \in Handlers => op = "cancel"
      BY <1>1, InFlightRoles DEF FinishOps
    <3>2. op = "cancel" => call[c].outcome = "UNVALIDATED"
      BY <1>1 DEF CallOK
    <3> QED
      BY <3>1, <3>2 DEF Cancelled, Target, ClassOf
  <2>8. c = Worker /\ op \in DecisionOps => copy.outcome = Due(op)
    BY <1>1, <2>2, InFlightRoles DEF DecisionInv, Facts, FactsOf
  <2> HIDE DEF copy
  <2> QED
    BY <1>1, <2>1, <2>2, <2>3, <2>4, <2>5, <2>6, <2>7, <2>8, CopyCall
<1> QED
  BY <1>2, <1>3

LEMMA TransitionDecides ==
  ASSUME SessionInv, DecisionInv, NEW c \in Processes, UNCHANGED procFrame, TransitionRead(c)
  PROVE  DecisionInv'
<1> DEFINE op == call[c].op
           copy == [row EXCEPT !.lc = Target(op)]
<1>1. /\ call[c] \in Calls /\ row \in Rows
      /\ op \in TransitionOps /\ InFlight(c) /\ UNCHANGED dbVars
  BY CallTyped, RowTyped DEF TransitionRead, InFlight
<1>2. c = Worker /\ op \notin FinishOps /\ op \notin DecisionOps
  BY <1>1, InFlightRoles DEF TransitionOps, FinishOps, DecisionOps
<1>3. CASE Refuse(c)
  BY <1>1, <1>3, GotoCall DEF Refuse
<1>4. CASE ~Refuse(c)
  <2>1. /\ Target(op) \in Allowed(row.lc)
        /\ call' = [call EXCEPT ![c] = [@ EXCEPT !.stage = "update", !.copy = copy]]
    BY <1>1, <1>4 DEF TransitionRead
  <2>2. /\ copy.lc = Target(op) /\ copy.outcome = row.outcome /\ copy.fclass = row.fclass
        /\ copy.health = row.health /\ copy.pid = row.pid /\ copy.started = row.started
    BY <1>1 DEF Rows
  <2>3. /\ row.lc \in Active /\ Target(op) \in Active
        /\ Contract!Rank[row.lc] < Contract!Rank[Target(op)]
    BY <1>1, <2>1, ActiveRanks DEF Rows
  <2> HIDE DEF copy
  <2>4. Legal(row, copy) /\ Keeps(row, copy)
    BY <2>2, <2>3, SeverityOrder DEF Legal, Keeps, Active
  <2>5. "update" \in Track(op)
    BY <1>1, <1>2 DEF Track, FinishOps, TransitionOps, ResaveOps
  <2> QED
    BY <1>1, <1>2, <2>1, <2>2, <2>3, <2>4, <2>5, ProcessesAssumption, CopyCall
<1> QED
  BY <1>3, <1>4

LEMMA HealthDecides ==
  ASSUME SessionInv, DecisionInv, NEW c \in Processes, UNCHANGED procFrame, HealthRead(c)
  PROVE  DecisionInv'
<1> DEFINE copy == [row EXCEPT !.health = call[c].health]
<1>1. /\ call[c] \in Calls /\ row \in Rows /\ InFlight(c) /\ UNCHANGED dbVars
      /\ call[c].stage \in Track(call[c].op)
  <2>1. InFlight(c)
    BY DEF HealthRead, InFlight
  <2> QED
    BY <2>1, CallTyped, RowTyped, InFlightRoles DEF HealthRead
<1>2. call[c].op = "health"
  BY <1>1 DEF HealthRead, Track, FinishOps, TransitionOps, ResaveOps
<1>3. c = Worker
  BY <1>1, <1>2, InFlightRoles
<1>4. CASE Refuse(c) \/ Goto(c, "done")
  BY <1>1, <1>2, <1>4, GotoCall DEF Refuse, SaveOps, TransitionOps, ResaveOps
<1>5. CASE ~(Refuse(c) \/ Goto(c, "done"))
  <2>1. /\ row.lc # "ABSENT"
        /\ HealthSeverity(call[c].health) > HealthSeverity(row.health)
        /\ call' = [call EXCEPT ![c] = [@ EXCEPT !.stage = "update", !.copy = copy]]
    BY <1>5 DEF HealthRead
  <2>2. /\ copy.lc = row.lc /\ copy.outcome = row.outcome /\ copy.fclass = row.fclass
        /\ copy.health = call[c].health /\ copy.pid = row.pid /\ copy.started = row.started
    BY <1>1 DEF Rows
  <2> HIDE DEF copy
  <2>3. Legal(row, copy) /\ Keeps(row, copy)
    BY <2>1, <2>2, SeverityOrder DEF Legal, Keeps
  <2>4. "update" \in Track(call[c].op)
    BY <1>2 DEF Track, FinishOps, TransitionOps, ResaveOps
  <2> QED
    BY <1>1, <1>2, <1>3, <2>1, <2>2, <2>3, <2>4, ProcessesAssumption, CopyCall
       DEF FinishOps, DecisionOps
<1> QED
  BY <1>4, <1>5

-----------------------------------------------------------------------------
(* Writes.                                                                 *)

\* Any write of pytest's that leaves a row it is entitled to leave.
LEMMA WorkerWrites ==
  ASSUME SessionInv, DecisionInv, InFlight(Worker), UNCHANGED <<results, events, procFrame>>,
         Legal(row, row'),
         NEW k, k.op = call[Worker].op, call' = [call EXCEPT ![Worker] = k],
         OnTrack(k), k.stage \notin {"derive_results", "read", "update"},
         FreshWorker(k, row'), FinishingOf(k, row'),
         row'.lc \in {"COMPLETED", "FAILED"} => ctl[Worker] \in Deciding,
         OutcomeMatchesFacts'
  PROVE  DecisionInv'
<1>1. /\ ~WorkerGone /\ Worker \in Processes
      /\ Handlers \subseteq Processes /\ Worker \notin Handlers
  BY InFlightRoles, ProcessTypes, ProcessesAssumption
<1>2. /\ Roles' /\ ctl' = ctl /\ acked' = acked
      /\ call'[Worker] = k /\ \A d \in Processes \ {Worker} : call'[d] = call[d]
  BY <1>1, RolesKept
<1>3. \A d \in Processes \ {Worker} :
        call[d].op \notin FinishOps /\ call[d].stage # "update"
  BY <1>1, NobodyElseWrites
<1>4. row'.lc # "ABSENT"
  BY LegalExists
<1>5. Fresh'
  BY <1>1, <1>2, <1>3, <1>4 DEF Fresh, FreshHandler
<1>6. Finishing'
  BY <1>1, <1>2, <1>3 DEF Finishing, FinishingOf
<1>7. Facts'
  BY <1>1, <1>2 DEF Facts, FactsOf
<1>8. CancelAckSound' /\ FinishEventsAgree'
  BY <1>2, AckKept, EventsKept
<1> QED
  BY <1>2, <1>5, <1>6, <1>7, <1>8 DEF DecisionInv

LEMMA WorkerUpdates ==
  ASSUME SessionInv, DecisionInv, UNCHANGED procFrame, UpdateRun(Worker)
  PROVE  DecisionInv'
<1> DEFINE op == call[Worker].op
           next == CASE op \in FinishOps -> "list"
                     [] op \in TransitionOps -> "event"
                     [] OTHER -> "done"
           k == [call[Worker] EXCEPT !.stage = next]
<1>1. /\ Worker \in Processes /\ call[Worker] \in Calls /\ InFlight(Worker)
      /\ call[Worker].stage = "update"
      /\ row' = call[Worker].copy /\ UNCHANGED <<results, events>>
      /\ call' = [call EXCEPT ![Worker] = k]
  BY CallTyped, ProcessTypes DEF UpdateRun, InFlight, Goto
<1>2. k.op = op /\ k.stage = next /\ k.copy = row'
  BY <1>1 DEF Calls
<1>3. ~WorkerGone /\ "update" \in Track(op)
  BY <1>1, InFlightRoles
<1>4. /\ FreshWorker(call[Worker], row) /\ FinishingOf(call[Worker], row)
      /\ FactsOf(call[Worker])
  BY <1>1, <1>3 DEF DecisionInv, Fresh, Finishing, Facts
<1>5. /\ Legal(row, row')
      /\ op \in FinishOps => row'.lc = Target(op) /\ row'.fclass = ClassOf(op)
      /\ op \notin FinishOps => row'.lc = row.lc \/ row'.lc \in Active
      /\ op \in DecisionOps => row'.health = row.health /\ row'.outcome = Due(op)
  BY <1>1, <1>4 DEF FreshWorker, FinishingOf, FactsOf, DecisionOps
<1> HIDE DEF k
<1>6. next \in {"list", "event", "done"} /\ OnTrack(k)
  BY <1>2, <1>3 DEF OnTrack, Track, Ended, FinishOps, TransitionOps, ResaveOps
<1>7. FreshWorker(k, row') /\ FinishingOf(k, row')
  <2>1. row'.lc # "ABSENT"
    BY <1>5, LegalExists
  <2> QED
    BY <1>2, <1>5, <1>6, <2>1
       DEF FreshWorker, FinishingOf, SaveOps, FinishOps, TransitionOps, ResaveOps
<1>8. ASSUME row'.lc \in {"COMPLETED", "FAILED"}
      PROVE  op \in DecisionOps /\ op = IF row'.lc = "COMPLETED" THEN "complete" ELSE "fail"
  <2>1. op \in FinishOps
    <3>1. CASE row.lc \in {"COMPLETED", "FAILED"}
      BY <1>3, <3>1 DEF DecisionInv, Facts, Roles, WorkerGone, At
    <3>2. CASE row.lc \notin {"COMPLETED", "FAILED"}
      BY <1>5, <1>8, <3>2 DEF Active
    <3> QED
      BY <3>1, <3>2
  <2> QED
    BY <1>5, <1>8, <2>1 DEF Target, FinishOps, DecisionOps
<1>9. row'.lc \in {"COMPLETED", "FAILED"} => ctl[Worker] \in Deciding
  BY <1>3, <1>8 DEF DecisionInv, Roles, WorkerGone, At
<1>10. OutcomeMatchesFacts'
  BY <1>1, <1>5, <1>8 DEF OutcomeMatchesFacts, Due, Settled
<1> QED
  BY <1>1, <1>2, <1>5, <1>6, <1>7, <1>9, <1>10, WorkerWrites

\* What a handler writes is the cancellation, over a row that may take it.
LEMMA CancelWrites ==
  ASSUME SessionInv, DecisionInv, NEW c \in Handlers, call[c].stage = "update"
  PROVE  /\ WorkerGone /\ call[c].op = "cancel" /\ call[c].copy = Cancelled(row)
         /\ Legal(row, Cancelled(row)) /\ Keeps(row, Cancelled(row))
         /\ Cancelled(row).lc = "CANCELLED" /\ Cancelled(row).fclass = "CANCELLED"
         /\ Cancelled(Cancelled(row)) = Cancelled(row)
<1>1. InFlight(c) /\ c \in Processes /\ row \in Rows /\ RowOK(row)
  BY ProcessTypes, RowTyped DEF InFlight
<1>2. call[c].op = "cancel" /\ WorkerGone
  BY <1>1, InFlightRoles
     DEF DecisionInv, Roles, Track, FinishOps, TransitionOps, ResaveOps
<1>3. row.lc \in Active \cup {"CANCELLED"} /\ call[c].copy = Cancelled(row)
  BY DEF DecisionInv, Fresh, FreshHandler
<1>4. /\ Cancelled(row).lc = "CANCELLED" /\ Cancelled(row).outcome = "UNVALIDATED"
      /\ Cancelled(row).fclass = "CANCELLED" /\ Cancelled(row).health = row.health
      /\ Cancelled(row).pid = row.pid /\ Cancelled(row).started = row.started
  BY <1>1 DEF Cancelled, Rows
<1>5. Legal(row, Cancelled(row)) /\ Keeps(row, Cancelled(row))
  BY <1>1, <1>3, <1>4, SeverityOrder
     DEF Legal, Keeps, RowOK, Contract!Decision, Active, Terminal
<1>6. Cancelled(Cancelled(row)) = Cancelled(row)
  BY <1>1 DEF Cancelled, Rows
<1> QED
  BY <1>2, <1>3, <1>4, <1>5, <1>6

LEMMA HandlerUpdates ==
  ASSUME SessionInv, DecisionInv, NEW c \in Handlers, UNCHANGED procFrame, UpdateRun(c)
  PROVE  DecisionInv'
<1> DEFINE k == [call[c] EXCEPT !.stage = "list"]
<1>1. /\ c \in Processes /\ call[c] \in Calls /\ InFlight(c) /\ call[c].stage = "update"
      /\ Worker \in Processes /\ Handlers \subseteq Processes /\ Worker # c
  BY CallTyped, ProcessTypes, ProcessesAssumption DEF UpdateRun, InFlight
<1>2. /\ WorkerGone /\ call[c].op = "cancel" /\ call[c].copy = Cancelled(row)
      /\ Legal(row, Cancelled(row))
      /\ Cancelled(row).lc = "CANCELLED" /\ Cancelled(row).fclass = "CANCELLED"
      /\ Cancelled(Cancelled(row)) = Cancelled(row)
  BY <1>1, CancelWrites
<1>3. /\ row' = Cancelled(row) /\ UNCHANGED <<results, events>>
      /\ call' = [call EXCEPT ![c] = k]
  BY <1>1, <1>2 DEF UpdateRun, Goto, FinishOps, TransitionOps
<1>4. k.op = "cancel" /\ k.stage = "list"
  BY <1>1, <1>2 DEF Calls
<1> HIDE DEF k
<1>5. OnTrack(k)
  BY <1>4 DEF OnTrack, Track, FinishOps, TransitionOps, ResaveOps
<1>6. /\ Roles' /\ ctl' = ctl /\ acked' = acked
      /\ call'[c] = k /\ \A d \in Processes \ {c} : call'[d] = call[d]
  BY <1>1, <1>2, <1>3, <1>4, <1>5, RolesKept
<1>7. Fresh'
  <2>1. WorkerGone' /\ row'.lc = "CANCELLED"
    BY <1>2, <1>3, <1>6 DEF WorkerGone, At
  <2>2. ASSUME NEW h \in Handlers PROVE FreshHandler(call'[h], row')
    BY <1>2, <1>3, <1>4, <1>6, <1>1 DEF DecisionInv, Fresh, FreshHandler
  <2> QED
    BY <2>1, <2>2 DEF Fresh
<1>8. Finishing'
  <2>1. ASSUME NEW d \in Processes \ {c} PROVE FinishingOf(call'[d], row')
    <3>1. FinishingOf(call[d], row) /\ call'[d] = call[d]
      BY <1>6 DEF DecisionInv, Finishing
    <3>2. call[d].op \in FinishOps => Target(call[d].op) \in Terminal
      BY DEF Target, FinishOps, Terminal
    <3> QED
      BY <1>2, <1>3, <3>1, <3>2, LegalKeepsDecision DEF FinishingOf
  <2>2. FinishingOf(call'[c], row')
    BY <1>2, <1>3, <1>4, <1>6 DEF FinishingOf, Target, ClassOf, FinishOps
  <2> QED
    BY <2>1, <2>2 DEF Finishing
<1>9. Facts' /\ OutcomeMatchesFacts'
  BY <1>2, <1>3, <1>6 DEF Facts, OutcomeMatchesFacts, WorkerGone, At
<1>10. CancelAckSound' /\ FinishEventsAgree'
  BY <1>2, <1>3, <1>6, AckKept, EventsKept
<1> QED
  BY <1>6, <1>7, <1>8, <1>9, <1>10 DEF DecisionInv

LEMMA RestampDecides ==
  ASSUME SessionInv, DecisionInv, NEW c \in Processes, UNCHANGED procFrame, RestampStarted(c)
  PROVE  DecisionInv'
<1> DEFINE op == call[c].op
           started == [call[c].copy EXCEPT !.started = TRUE]
           k == [call[c] EXCEPT !.stage = "event", !.copy = started]
<1>1. /\ call[c] \in Calls /\ row \in Rows /\ InFlight(c) /\ call[c].stage = "restamp"
      /\ row' = started /\ UNCHANGED <<results, events>>
      /\ call' = [call EXCEPT ![c] = k]
      /\ call[c].stage \in Track(op)
  <2>1. InFlight(c)
    BY DEF RestampStarted, InFlight
  <2> QED
    BY <2>1, CallTyped, RowTyped, InFlightRoles DEF RestampStarted
<1>2. op \in TransitionOps /\ op \notin FinishOps
  BY <1>1 DEF Track, FinishOps, TransitionOps, ResaveOps
<1>3. c = Worker /\ ~WorkerGone
  BY <1>1, <1>2, InFlightRoles DEF TransitionOps
<1>4. call[c].copy = row /\ row.lc # "ABSENT"
  BY <1>1, <1>2, <1>3 DEF DecisionInv, Fresh, FreshWorker, SaveOps
<1>5. /\ started.lc = row.lc /\ started.outcome = row.outcome
      /\ started.fclass = row.fclass /\ started.health = row.health
  BY <1>1, <1>4 DEF Rows
<1>6. k.op = op /\ k.stage = "event" /\ k.copy = row'
  BY <1>1 DEF Calls
<1> HIDE DEF k, started
<1>7. Legal(row, row') /\ OnTrack(k) /\ FreshWorker(k, row') /\ FinishingOf(k, row')
  BY <1>1, <1>2, <1>4, <1>5, <1>6
     DEF Legal, OnTrack, FreshWorker, FinishingOf, Track, FinishOps, TransitionOps, ResaveOps
<1>8. row.lc \notin {"COMPLETED", "FAILED"}
  BY <1>2, <1>3 DEF DecisionInv, Facts, Roles, WorkerGone, At
<1>9. OutcomeMatchesFacts'
  BY <1>1, <1>5, <1>8 DEF OutcomeMatchesFacts
<1> QED
  BY <1>1, <1>3, <1>5, <1>6, <1>7, <1>8, <1>9, WorkerWrites

LEMMA AttemptDecides ==
  ASSUME SessionInv, DecisionInv, NEW c \in Processes, UNCHANGED procFrame,
         ListOpenAttempts(c) \/ CloseAttempt(c)
  PROVE  DecisionInv'
<1>1. /\ InFlight(c) /\ call[c] \in Calls /\ UNCHANGED <<row, results, events>>
      /\ call[c].stage \in {"list", "close"} /\ call[c].stage \in Track(call[c].op)
  <2>1. InFlight(c)
    BY DEF ListOpenAttempts, CloseAttempt, InFlight
  <2> QED
    BY <2>1, CallTyped, InFlightRoles DEF ListOpenAttempts, CloseAttempt, dbVars
<1>2. call[c].op \in FinishOps
  BY <1>1 DEF Track, FinishOps, TransitionOps, ResaveOps
<1>3. PICK stage \in {"close", "event"} :
        \E todo : call' = [call EXCEPT ![c] = [@ EXCEPT !.stage = stage, !.todo = todo]]
  BY DEF ListOpenAttempts, CloseAttempt
<1> PICK todo : call' = [call EXCEPT ![c] = [@ EXCEPT !.stage = stage, !.todo = todo]]
  BY <1>3
<1> DEFINE k == [call[c] EXCEPT !.stage = stage, !.todo = todo]
<1>4. k.op = call[c].op /\ k.stage = stage
  BY <1>1 DEF Calls
<1>5. call' = [call EXCEPT ![c] = k]
  OBVIOUS
<1> HIDE DEF k
<1>6. FinishingOf(call[c], row)
  BY DEF DecisionInv, Finishing
<1>7. OnTrack(k) /\ FreshWorker(k, row) /\ FreshHandler(k, row) /\ FactsOf(k)
  BY <1>2, <1>4 DEF OnTrack, FreshWorker, FreshHandler, FactsOf, SaveOps, Track, FinishOps,
                    TransitionOps, ResaveOps
<1>8. FinishingOf(k, row)
  BY <1>1, <1>2, <1>4, <1>6 DEF FinishingOf
<1> QED
  BY <1>1, <1>4, <1>5, <1>7, <1>8, QuietCall DEF Good

\* Only an operation that ends the Run appends a terminal event, and which one
\* does not depend on its copy.
LEMMA EventsDistinct ==
  ASSUME NEW op \in FinishOps \cup TransitionOps \cup {"result", "request_cancel"}, NEW copy
  PROVE  /\ op \in FinishOps => EventOf(op, copy) = EventOf(op, NoRow)
         /\ op \notin FinishOps => EventOf(op, copy) \notin FinishEvents
<1>1. \A o \in FinishOps :
        /\ EventOf(o, copy) = EventOf(o, NoRow)
        /\ EventOf(o, NoRow) \in {"RUN_COMPLETED", "RUN_FAILED", "RUN_LAB_FAILED",
             "RUN_CANCELLED", "RUN_TIMED_OUT", "RUN_RUNNER_DISCONNECTED",
             "RUN_WORKER_CRASHED", "RUN_ABORTED"}
  BY DEF EventOf, FinishOps
<1>2. op \notin FinishOps =>
        EventOf(op, copy) \in {"RUN_PREPARING", "RUN_LAB_HEALTH_CHECK", "RUN_STARTED",
                               "RUN_RUNNING", "TEST_COMPLETED", "RUN_CANCEL_REQUESTED"}
  BY DEF EventOf, FinishOps, TransitionOps
<1> QED
  BY <1>1, <1>2 DEF FinishEvents

LEMMA AppendDecides ==
  ASSUME SessionInv, DecisionInv, NEW c \in Processes, UNCHANGED procFrame, AppendEvent(c)
  PROVE  DecisionInv'
<1> DEFINE op == call[c].op
           event == EventOf(op, call[c].copy)
           stage == IF op = "start" /\ ~call[c].copy.started THEN "restamp" ELSE "done"
           k == [call[c] EXCEPT !.stage = stage]
<1>1. /\ InFlight(c) /\ call[c] \in Calls /\ call[c].stage = "event"
      /\ call[c].stage \in Track(op)
      /\ events' = Append(events, event) /\ UNCHANGED <<row, results>>
      /\ call' = [call EXCEPT ![c] = k]
  <2>1. InFlight(c)
    BY DEF AppendEvent, InFlight
  <2> QED
    BY <2>1, CallTyped, InFlightRoles DEF AppendEvent, Goto
<1>2. op \in FinishOps \cup TransitionOps \cup {"result", "request_cancel"}
  BY <1>1 DEF Track, FinishOps, TransitionOps, ResaveOps
<1>3. k.op = op /\ k.stage = stage /\ k.copy = call[c].copy
  BY <1>1 DEF Calls
<1>4. /\ events \in Seq(EventTypes) /\ Worker \in Processes /\ Handlers \subseteq Processes
      /\ Worker \notin Handlers
      /\ c = Worker => ~WorkerGone
  BY <1>1, ProcessTypes, ProcessesAssumption, InFlightRoles
     DEF SessionInv, ServiceInv, ServiceTypeOK
<1> HIDE DEF k
<1>5. /\ OnTrack(k) /\ FreshHandler(k, row) /\ FinishingOf(k, row) /\ FactsOf(k)
      /\ c = Worker => FreshWorker(k, row)
  <2>1. OnTrack(k) /\ FreshHandler(k, row) /\ FinishingOf(k, row) /\ FactsOf(k)
    BY <1>3 DEF OnTrack, FreshHandler, FinishingOf, FactsOf, Track, Ended, FinishOps,
                TransitionOps, ResaveOps
  <2>2. k.stage \in {"restamp", "done"}
    BY <1>3
  <2>3. c = Worker => FreshWorker(call[Worker], row)
    BY <1>4 DEF DecisionInv, Fresh
  <2>4. c = Worker => FreshWorker(k, row)
    BY <1>1, <1>3, <2>2, <2>3 DEF FreshWorker
  <2> QED
    BY <2>1, <2>4
<1>6. /\ Roles' /\ ctl' = ctl /\ acked' = acked
      /\ call'[c] = k /\ \A d \in Processes \ {c} : call'[d] = call[d]
  BY <1>1, <1>3, <1>5, RolesKept
<1>7. Fresh' /\ Finishing'
  BY <1>1, <1>4, <1>5, <1>6 DEF DecisionInv, Fresh, Finishing, WorkerGone, At
<1>8. Facts'
  <2>1. ~WorkerGone => FactsOf(call'[Worker])
    BY <1>4, <1>5, <1>6 DEF DecisionInv, Facts
  <2> QED
    BY <1>1, <1>6, <2>1 DEF DecisionInv, Facts, FactsOf, Due, WorkerGone, At
<1>9. FinishEventsAgree'
  <2>1. ASSUME event \in FinishEvents
        PROVE  /\ op \in FinishOps /\ EventOf(op, NoRow) = event
               /\ row.lc = Target(op) /\ row.fclass = ClassOf(op)
    BY <1>1, <1>2, <2>1, EventsDistinct DEF DecisionInv, Finishing, FinishingOf
  <2>2. ASSUME NEW i \in DOMAIN events', events'[i] \in FinishEvents
        PROVE  \E o \in FinishOps : /\ EventOf(o, NoRow) = events'[i]
                                    /\ row'.lc = Target(o) /\ row'.fclass = ClassOf(o)
    <3> HIDE DEF event
    <3>1. (i \in DOMAIN events /\ events'[i] = events[i]) \/ events'[i] = event
      BY <1>1, <1>4, <2>2
    <3> QED
      BY <1>1, <2>1, <2>2, <3>1 DEF DecisionInv, FinishEventsAgree
  <2> QED
    BY <2>2 DEF FinishEventsAgree
<1> QED
  BY <1>1, <1>6, <1>7, <1>8, <1>9 DEF DecisionInv, CancelAckSound, OutcomeMatchesFacts

\* Results are stored before the Run is decided.
LEMMA SaveDecides ==
  ASSUME SessionInv, DecisionInv, NEW c \in Processes, UNCHANGED procFrame, SaveResult(c)
  PROVE  DecisionInv'
<1> DEFINE k == [call[c] EXCEPT !.stage = "event"]
<1>1. /\ InFlight(c) /\ call[c] \in Calls /\ UNCHANGED <<row, attempts, events>>
      /\ call[c].stage = "save" /\ call[c].stage \in Track(call[c].op)
  <2>1. InFlight(c)
    BY DEF SaveResult, InFlight
  <2> QED
    BY <2>1, CallTyped, InFlightRoles DEF SaveResult
<1>2. call[c].op = "result"
  BY <1>1 DEF Track, FinishOps, TransitionOps, ResaveOps
<1>3. c = Worker /\ ~WorkerGone /\ Worker \in Processes /\ Worker \notin Handlers
  BY <1>1, <1>2, InFlightRoles, ProcessTypes, ProcessesAssumption
<1>4. CASE UNCHANGED results /\ Refuse(c)
  BY <1>1, <1>4, GotoCall DEF Refuse, dbVars
<1>5. CASE Goto(c, "event")
  <2>1. k.op = "result" /\ k.stage = "event" /\ call' = [call EXCEPT ![c] = k]
    BY <1>1, <1>2, <1>5 DEF Calls, Goto
  <2> HIDE DEF k
  <2>2. /\ OnTrack(k) /\ FreshWorker(k, row) /\ FinishingOf(k, row)
        /\ k.op \notin DecisionOps
    BY <2>1 DEF OnTrack, FreshWorker, FinishingOf, SaveOps, DecisionOps, Track, FinishOps,
                TransitionOps, ResaveOps
  <2>3. /\ Roles' /\ ctl' = ctl /\ acked' = acked
        /\ call'[c] = k /\ \A d \in Processes \ {c} : call'[d] = call[d]
    BY <1>1, <1>2, <2>1, <2>2, RolesKept
  <2>4. row.lc \notin {"COMPLETED", "FAILED"}
    BY <1>2, <1>3 DEF DecisionInv, Facts, Roles, WorkerGone, At, FinishOps
  <2>5. Fresh' /\ Finishing'
    BY <1>1, <1>3, <2>2, <2>3, ProcessTypes DEF DecisionInv, Fresh, Finishing, WorkerGone, At
  <2>6. Facts'
    BY <1>1, <1>3, <2>2, <2>3, <2>4 DEF Facts, FactsOf
  <2> QED
    BY <1>1, <2>3, <2>4, <2>5, <2>6
       DEF DecisionInv, CancelAckSound, FinishEventsAgree, OutcomeMatchesFacts
<1> QED
  BY <1>4, <1>5 DEF SaveResult

LEMMA ServiceDecides ==
  ASSUME SessionInv, DecisionInv, NEW c \in Processes, Serve(c) \/ ServiceFault(c)
  PROVE  DecisionInv'
<1>1. UNCHANGED procFrame
  BY DEF Serve, ServiceFault, procFrame, procVars
<1>2. CASE UpdateRun(c)
  <2>1. c = Worker \/ c \in Handlers
    BY <1>2, InFlightRoles DEF UpdateRun, InFlight
  <2> QED
    BY <1>1, <1>2, <2>1, WorkerUpdates, HandlerUpdates
<1>3. CASE ServiceStep(c) /\ ~UpdateRun(c)
  BY <1>1, <1>3, MoveDecides, DeriveDecides, FinishDecides, TransitionDecides, HealthDecides,
     RestampDecides, AttemptDecides, AppendDecides, SaveDecides DEF ServiceStep
<1>4. CASE RepositoryFails(c)
  BY <1>1, <1>4, MoveDecides
<1> QED
  BY <1>2, <1>3, <1>4 DEF Serve, ServiceFault

-----------------------------------------------------------------------------
(* Steps of the programs.                                                  *)

\* A call pytest can make on the row as it is.
Harmless(k) == OnTrack(k) /\ FreshWorker(k, row) /\ FinishingOf(k, row) /\ FactsOf(k)

LEMMA StartedHarmless ==
  /\ \A op \in FinishOps \cup TransitionOps \cup {"request_cancel"} :
       Harmless(Invoked(op)) /\ FreshHandler(Invoked(op), row) /\ Invoked(op).op = op
  /\ \A health : Harmless(HealthCall(health)) /\ HealthCall(health).op = "health"
  /\ \A result : Harmless(ResultCall(result)) /\ ResultCall(result).op = "result"
<1>1. ASSUME NEW op \in FinishOps \cup TransitionOps \cup {"request_cancel"}
      PROVE  Harmless(Invoked(op)) /\ FreshHandler(Invoked(op), row) /\ Invoked(op).op = op
  <2>1. Invoked(op).op = op /\ Started(Invoked(op))
    BY InvokedStarts
  <2>2. op \in DecisionOps => Invoked(op).stage = "derive"
    BY DEF Invoked, Idle, Entry, DecisionOps
  <2> QED
    BY <2>1, <2>2, StartedFresh DEF Harmless, FactsOf
<1>2. ASSUME NEW health PROVE Harmless(HealthCall(health)) /\ HealthCall(health).op = "health"
  BY HealthCallStarts, StartedFresh DEF Harmless, FactsOf, DecisionOps
<1>3. ASSUME NEW result PROVE Harmless(ResultCall(result)) /\ ResultCall(result).op = "result"
  BY ResultCallStarts, StartedFresh DEF Harmless, FactsOf, DecisionOps
<1> QED
  BY <1>1, <1>2, <1>3

LEMMA IdleHarmless ==
  Harmless(Idle) /\ FreshHandler(Idle, row) /\ Idle.op = "none" /\ Idle.stage = "idle"
BY IdleOver, OverFresh DEF Harmless, FactsOf, DecisionOps, Idle

\* Where pytest may be with a call k.
Enters(k, point) ==
  /\ OnTrack(k)
  /\ point \in Resting => k.stage \in Ended
  /\ point = "preparing" => k.op = "prepare"
  /\ point = "starting" => k.op = "start"
  /\ point \in Deciding \cup {"after_lab_fail_again"} => k.op \in FinishOps
  /\ k.op \in DecisionOps => point \in Deciding \cup {"gone"}

LEMMA WorkerReaches ==
  ASSUME SessionInv, DecisionInv, ~WorkerGone, UNCHANGED <<dbVars, acked>>,
         NEW k, NEW point, call' = [call EXCEPT ![Worker] = k], Go(Worker, point),
         group' = group \/ point = "gone",
         Enters(k, point), k = call[Worker] \/ Harmless(k),
         ctl[Worker] \in Deciding => point \in Deciding \cup {"gone"}
  PROVE  DecisionInv'
<1>1. /\ Worker \in Processes /\ Recovery \in Processes /\ Handlers \subseteq Processes
      /\ Worker \notin Handlers /\ Worker # Recovery
      /\ call \in [Processes -> Calls]
      /\ ctl \in [Handlers \cup {Worker} -> WorkerPoints \cup HandlerPoints]
  BY ProcessTypes, ProcessesAssumption DEF SessionInv, OwnTypes, ServiceInv, ServiceTypeOK
<1>2. /\ call'[Worker] = k /\ \A c \in Processes \ {Worker} : call'[c] = call[c]
      /\ ctl'[Worker] = point /\ \A h \in Handlers : ctl'[h] = ctl[h]
  BY <1>1 DEF Go
<1>3. row' = row /\ results' = results /\ events' = events /\ acked' = acked
  BY DEF dbVars
<1>4. /\ \A c \in Processes : OnTrack(call[c])
      /\ call[Recovery] = Idle
      /\ group = "running"
      /\ \A h \in Handlers : /\ call[h].op \in HandlerOps
                             /\ call[h].op # "cancel" /\ ctl[h] \notin Notified
  BY DEF DecisionInv, Roles
<1>5. Roles'
  <2>1. \A c \in Processes : OnTrack(call'[c])
    BY <1>2, <1>4 DEF Enters
  <2>2. call'[Recovery] = Idle
    BY <1>1, <1>2, <1>4
  <2>3. group' # "running" => WorkerGone'
    BY <1>2, <1>4 DEF WorkerGone, At
  <2>4. \A h \in Handlers : /\ call'[h].op \in HandlerOps
                            /\ call'[h].op # "cancel" /\ ctl'[h] \notin Notified
    BY <1>1, <1>2, <1>4
  <2>5. point \in Resting => ~InFlight(Worker)'
    BY <1>2 DEF Enters, InFlight, Ended
  <2> QED
    BY <1>2, <2>1, <2>2, <2>3, <2>4, <2>5 DEF Roles, Enters, At
<1>6. Fresh'
  BY <1>1, <1>2, <1>3 DEF DecisionInv, Fresh, Harmless
<1>7. Finishing'
  BY <1>2, <1>3 DEF DecisionInv, Finishing, Harmless
<1>8. Facts'
  <2>1. FactsOf(k)
    BY DEF DecisionInv, Facts, Harmless
  <2>2. row.lc \in {"COMPLETED", "FAILED"} => point \in Deciding \cup {"gone"}
    BY DEF DecisionInv, Facts, WorkerGone, At
  <2> QED
    BY <1>2, <1>3, <2>1, <2>2 DEF Facts, FactsOf, Due
<1> QED
  BY <1>3, <1>5, <1>6, <1>7, <1>8
     DEF DecisionInv, CancelAckSound, FinishEventsAgree, OutcomeMatchesFacts

\* The steps that start a call, that keep an ended one and that drop it.
LEMMA WorkerStarts ==
  ASSUME SessionInv, DecisionInv, UNCHANGED <<dbVars, acked, group>>,
         NEW k, NEW point, call' = [call EXCEPT ![Worker] = k], Go(Worker, point),
         ~WorkerGone, ctl[Worker] \notin Deciding \/ point = "crashing",
         \/ /\ k = Invoked("lab_fail")
            /\ point \in {"prepare_failed", "before_failed", "after_lab_fail",
                          "after_lab_fail_again"}
         \/ k = Invoked("health_check") /\ point = "begin_health"
         \/ k = Invoked("start") /\ point = "starting"
         \/ (\E op \in FinishOps : k = Invoked(op)) /\ point = "deciding"
         \/ k = Invoked("crash") /\ point = "crashing"
         \/ (\E health : k = HealthCall(health)) /\ point \in {"before", "after"}
         \/ (\E result : k = ResultCall(result)) /\ point = "recording"
  PROVE  DecisionInv'
<1>1. Harmless(k) /\ Enters(k, point)
  <2>1. Harmless(k)
    BY StartedHarmless DEF FinishOps, TransitionOps
  <2>2. /\ point \notin Resting /\ point # "preparing"
        /\ point = "starting" => k.op = "start"
        /\ point \in Deciding \cup {"after_lab_fail_again"} => k.op \in FinishOps
        /\ k.op \in DecisionOps => point \in Deciding
    BY StartedHarmless DEF FinishOps, TransitionOps, DecisionOps, Resting, Deciding
  <2> QED
    BY <2>1, <2>2 DEF Harmless, Enters
<1> QED
  BY <1>1, WorkerReaches DEF Deciding

LEMMA WorkerStays ==
  ASSUME SessionInv, DecisionInv, UNCHANGED <<dbVars, acked, call>>,
         NEW point, Go(Worker, point), ~WorkerGone, ~InFlight(Worker),
         group' = group \/ point = "gone",
         point \notin {"preparing", "starting", "deciding", "crashing", "after_lab_fail_again"},
         point = "crash_handler" => ctl[Worker] \in {"deciding", "after_lab_fail_again"},
         ctl[Worker] \in Deciding => point \in {"crash_handler", "gone"}
  PROVE  DecisionInv'
<1>1. call' = [call EXCEPT ![Worker] = call[Worker]]
  BY DEF SessionInv, ServiceInv, ServiceTypeOK
<1>2. Enters(call[Worker], point)
  <2>1. /\ OnTrack(call[Worker]) /\ call[Worker].stage \in Ended
        /\ ctl[Worker] \in Deciding \cup {"after_lab_fail_again"} => call[Worker].op \in FinishOps
        /\ call[Worker].op \in DecisionOps => ctl[Worker] \in Deciding
    BY ProcessTypes DEF DecisionInv, Roles, InFlight, Ended, WorkerGone, At
  <2> QED
    BY <2>1 DEF Enters, Deciding
<1> QED
  BY <1>1, <1>2, WorkerReaches DEF Deciding

LEMMA WorkerExits ==
  ASSUME SessionInv, DecisionInv, UNCHANGED <<dbVars, acked>>, ~WorkerGone,
         Go(Worker, "gone"), call' = [call EXCEPT ![Worker] = Idle]
  PROVE  DecisionInv'
<1>1. Enters(Idle, "gone")
  BY IdleHarmless DEF Harmless, Enters, Ended, Deciding, DecisionOps
<1> QED
  BY <1>1, IdleHarmless, WorkerReaches

\* The Run is created: nobody has read it yet.
LEMMA LaunchDecides == ASSUME SessionInv, DecisionInv, Launch PROVE DecisionInv'
<1>1. /\ Worker \in Processes /\ Recovery \in Processes /\ Handlers \subseteq Processes
      /\ Worker \notin Handlers /\ Worker # Recovery
      /\ call \in [Processes -> Calls]
      /\ ctl \in [Handlers \cup {Worker} -> WorkerPoints \cup HandlerPoints]
  BY ProcessTypes, ProcessesAssumption DEF SessionInv, OwnTypes, ServiceInv, ServiceTypeOK
<1>2. /\ row.lc = "ABSENT" /\ row' = [NoRow EXCEPT !.lc = "QUEUED"]
      /\ events' = <<"RUN_CREATED", "ATTEMPT_CREATED">>
      /\ results' = results /\ group' = group /\ acked' = acked
      /\ ~WorkerGone
  BY DEF Launch, CreateRun, procVars, WorkerGone, At
<1>3. /\ call'[Worker] = Invoked("prepare")
      /\ \A c \in Processes \ {Worker} : call'[c] = call[c]
      /\ ctl'[Worker] = "preparing" /\ \A h \in Handlers : ctl'[h] = ctl[h]
  BY <1>1 DEF Launch, Invoke, Go
<1>4. row'.lc = "QUEUED"
  BY <1>2 DEF NoRow
<1>5. /\ Invoked("prepare").op = "prepare" /\ Started(Invoked("prepare"))
      /\ OnTrack(Invoked("prepare")) /\ FreshWorker(Invoked("prepare"), row')
      /\ FinishingOf(Invoked("prepare"), row')
  BY InvokedStarts, StartedFresh DEF TransitionOps
<1>6. \A c \in Processes \ {Worker} : call[c].op \notin FinishOps /\ call[c].stage # "update"
  BY <1>2, NobodyElseWrites
<1>7. Roles'
  <2>1. \A c \in Processes : OnTrack(call'[c])
    BY <1>3, <1>5 DEF DecisionInv, Roles
  <2>2. call'[Recovery] = Idle
    BY <1>1, <1>3 DEF DecisionInv, Roles
  <2>3. group' = "running"
    BY <1>2 DEF DecisionInv, Roles
  <2>4. \A h \in Handlers : /\ call'[h].op \in HandlerOps
                            /\ call'[h].op # "cancel" /\ ctl'[h] \notin Notified
    BY <1>1, <1>2, <1>3 DEF DecisionInv, Roles
  <2>5. "prepare" \notin DecisionOps
    BY DEF DecisionOps
  <2> QED
    BY <1>3, <1>5, <2>1, <2>2, <2>3, <2>4, <2>5 DEF Roles, At, Resting, Deciding
<1>8. Fresh'
  BY <1>1, <1>3, <1>4, <1>5, <1>6 DEF Fresh, FreshHandler
<1>9. Finishing'
  BY <1>3, <1>5, <1>6 DEF Finishing, FinishingOf
<1>10. Facts' /\ OutcomeMatchesFacts'
  BY <1>3, <1>4, <1>5 DEF Facts, FactsOf, OutcomeMatchesFacts, DecisionOps
<1>11. ~acked'
  BY <1>2 DEF DecisionInv, CancelAckSound
<1>12. FinishEventsAgree'
  <2>1. \A op \in FinishOps : EventOf(op, NoRow) \notin {"RUN_CREATED", "ATTEMPT_CREATED"}
    BY DEF EventOf, FinishOps
  <2>2. \A i \in DOMAIN events' : events'[i] \in {"RUN_CREATED", "ATTEMPT_CREATED"}
    BY <1>2
  <2> QED
    BY <2>1, <2>2 DEF FinishEventsAgree, FinishEvents
<1> QED
  BY <1>7, <1>8, <1>9, <1>10, <1>11, <1>12 DEF DecisionInv, CancelAckSound

\* The Run object that an operation returned is still the row.
LEMMA ResaveDecides ==
  ASSUME SessionInv, DecisionInv, StoreSnapshot \/ PublishPid PROVE DecisionInv'
<1> DEFINE copy == call[Worker].copy
<1>1. /\ Worker \in Processes /\ call[Worker] \in Calls /\ row \in Rows /\ ~WorkerGone
      /\ call[Worker].stage = "done" /\ call[Worker].op \in {"prepare", "start"}
      /\ UNCHANGED <<dbVars, acked, group>>
  BY ProcessTypes, CallTyped, RowTyped
     DEF StoreSnapshot, PublishPid, Back, Returned, procVars, DecisionInv, Roles, At, WorkerGone
<1>2. copy = row /\ row.lc # "ABSENT"
  BY <1>1 DEF DecisionInv, Fresh, FreshWorker, SaveOps, TransitionOps
<1>3. ASSUME NEW op \in ResaveOps, NEW saved, Legal(row, saved), Keeps(row, saved),
             saved.lc = row.lc, NEW point \in {"snapshot", "publishing"},
             Resave(Worker, op, saved), Go(Worker, point), ctl[Worker] \notin Deciding
      PROVE  DecisionInv'
  <2> DEFINE k == ResaveCall(op, saved)
  <2>1. k.op = op /\ k.stage = "update" /\ k.copy = saved
    BY DEF ResaveCall, Invoked, Idle, Entry, ResaveOps, FinishOps
  <2>2. call' = [call EXCEPT ![Worker] = k]
    BY <1>3 DEF Resave
  <2> HIDE DEF k
  <2>3. OnTrack(k)
    BY <2>1 DEF OnTrack, Track, FinishOps, TransitionOps, ResaveOps
  <2>4. FreshWorker(k, row)
    BY <1>3, <2>1 DEF FreshWorker
  <2>5. FinishingOf(k, row) /\ FactsOf(k) /\ k.op \notin DecisionOps
    BY <2>1 DEF FinishingOf, FactsOf, FinishOps, DecisionOps, ResaveOps
  <2>6. Enters(k, point)
    BY <2>3, <2>5 DEF Enters, Resting, Deciding
  <2> QED
    BY <1>1, <1>3, <2>2, <2>3, <2>4, <2>5, <2>6, WorkerReaches DEF Harmless
<1>4. CASE StoreSnapshot
  <2>1. Legal(row, row) /\ Keeps(row, row)
    BY <1>2, SeverityOrder DEF Legal, Keeps
  <2> QED
    BY <1>2, <1>3, <1>4, <2>1 DEF StoreSnapshot, ResaveOps, Back, At, Deciding
<1>5. CASE PublishPid
  <2> DEFINE saved == [row EXCEPT !.pid = TRUE]
  <2>1. /\ saved.lc = row.lc /\ saved.outcome = row.outcome /\ saved.fclass = row.fclass
        /\ saved.health = row.health /\ saved.pid /\ saved.started = row.started
    BY <1>1 DEF Rows
  <2>2. /\ Resave(Worker, "set_pid", saved) /\ Go(Worker, "publishing")
        /\ ctl[Worker] \notin Deciding
    BY <1>2, <1>5 DEF PublishPid, Back, At, Deciding
  <2> HIDE DEF saved
  <2>3. Legal(row, saved) /\ Keeps(row, saved)
    BY <1>2, <2>1, SeverityOrder DEF Legal, Keeps
  <2> QED
    BY <1>3, <2>1, <2>2, <2>3 DEF ResaveOps
<1> QED
  BY <1>4, <1>5

LEMMA WorkerDecides == ASSUME SessionInv, DecisionInv, WorkerStep PROVE DecisionInv'
<1>1. acked' = acked
  BY DEF WorkerStep, CollectionFails, Launch, StoreSnapshot, PrepareFails, BeginHealthCheck,
     CheckBefore, RecordingHealthFails, Gate, BlockAfterLabFail, PublishPid, BeginTests,
     InternalError, RunTest, ResultRecorded, EndTests, CheckAfter, AfterRecorded,
     AfterLabFailed, AfterLabFailedAgain, CloseRunners, Decide, DecisionMade,
     HandleFinalizationError, Exit, procVars
<1>2. ~WorkerGone
  BY DEF WorkerStep, CollectionFails, Launch, StoreSnapshot, PrepareFails, BeginHealthCheck,
     CheckBefore, RecordingHealthFails, Gate, BlockAfterLabFail, PublishPid, BeginTests,
     InternalError, RunTest, ResultRecorded, EndTests, CheckAfter, AfterRecorded,
     AfterLabFailed, AfterLabFailedAgain, CloseRunners, Decide, DecisionMade,
     HandleFinalizationError, Exit, WorkerGone, Back, At
<1>3. ctl[Worker] \in Resting => ~InFlight(Worker)
  BY DEF DecisionInv, Roles
<1>4. CASE Launch \/ StoreSnapshot \/ PublishPid
  BY <1>4, LaunchDecides, ResaveDecides
<1>5. CASE CollectionFails \/ Exit
  BY <1>1, <1>2, <1>5, WorkerExits DEF CollectionFails, Exit
<1>6. CASE PrepareFails
  <2>1. UNCHANGED <<dbVars, acked, group>> /\ ~InFlight(Worker) /\ ctl[Worker] \notin Deciding
    BY <1>6 DEF PrepareFails, procVars, Back, At, Deciding
  <2>2. CASE IsTerminal
    BY <1>2, <1>6, <2>1, <2>2, WorkerStays DEF PrepareFails
  <2>3. CASE ~IsTerminal
    BY <1>2, <1>6, <2>1, <2>3, WorkerStarts DEF PrepareFails, Invoke
  <2> QED
    BY <2>2, <2>3
<1>7. CASE BeginHealthCheck \/ CheckBefore \/ RecordingHealthFails \/ RunTest
  <2>1. UNCHANGED <<dbVars, acked, group>> /\ ctl[Worker] \notin Deciding
    BY <1>7 DEF BeginHealthCheck, CheckBefore, RecordingHealthFails, RunTest, procVars,
            Back, At, Deciding
  <2> QED
    BY <1>2, <1>7, <2>1, WorkerStarts
       DEF BeginHealthCheck, CheckBefore, RecordingHealthFails, RunTest, Invoke,
           InvokeHealth, InvokeResult
<1>8. CASE Gate
  <2>1. UNCHANGED <<dbVars, acked, group>> /\ ~InFlight(Worker) /\ ctl[Worker] \notin Deciding
    BY <1>8 DEF Gate, procVars, Back, At, Deciding
  <2>2. CASE UNCHANGED call /\ Go(Worker, "testing")
    BY <1>2, <2>1, <2>2, WorkerStays
  <2>3. CASE Invoke(Worker, "start") /\ Go(Worker, "starting")
    BY <1>2, <2>1, <2>3, WorkerStarts DEF Invoke
  <2> QED
    BY <1>8, <2>2, <2>3 DEF Gate
<1>9. CASE \/ BlockAfterLabFail \/ BeginTests \/ InternalError \/ ResultRecorded
           \/ EndTests \/ CloseRunners
  <2>1. UNCHANGED <<dbVars, acked, group, call>> /\ ctl[Worker] \notin Deciding
    BY <1>9 DEF BlockAfterLabFail, BeginTests, InternalError, ResultRecorded, EndTests,
            CloseRunners, procVars, Back, At, Deciding
  <2>2. ~InFlight(Worker)
    BY <1>3, <1>9 DEF BlockAfterLabFail, BeginTests, InternalError, ResultRecorded, EndTests,
                  CloseRunners, Back, At, Resting
  <2>3. Go(Worker, "testing") \/ Go(Worker, "finalize") \/ Go(Worker, "decide")
    BY <1>9 DEF BlockAfterLabFail, BeginTests, InternalError, ResultRecorded, EndTests,
                CloseRunners
  <2> QED
    BY <1>2, <2>1, <2>2, <2>3, WorkerStays
<1>10. CASE CheckAfter \/ AfterRecorded \/ AfterLabFailed
  <2>1. UNCHANGED <<dbVars, acked, group>> /\ ctl[Worker] \notin Deciding
    BY <1>10 DEF CheckAfter, AfterRecorded, AfterLabFailed, procVars, Back, At, Deciding
  <2>2. ~InFlight(Worker)
    BY <1>3, <1>10 DEF CheckAfter, AfterRecorded, AfterLabFailed, Back, At, Resting
  <2>3. CASE Go(Worker, "close") /\ UNCHANGED call
    BY <1>2, <2>1, <2>2, <2>3, WorkerStays
  <2>4. CASE \E health : InvokeHealth(Worker, health) /\ Go(Worker, "after")
    BY <1>2, <2>1, <2>4, WorkerStarts DEF InvokeHealth
  <2>5. CASE /\ Invoke(Worker, "lab_fail")
             /\ Go(Worker, "after_lab_fail") \/ Go(Worker, "after_lab_fail_again")
    BY <1>2, <2>1, <2>5, WorkerStarts DEF Invoke
  <2> QED
    BY <1>10, <2>3, <2>4, <2>5 DEF CheckAfter, AfterRecorded, AfterLabFailed
<1>11. CASE AfterLabFailedAgain \/ DecisionMade
  <2>1. UNCHANGED <<dbVars, acked, call>> /\ ~InFlight(Worker)
    BY <1>11 DEF AfterLabFailedAgain, DecisionMade, procVars, Back
  <2>2. CASE AfterLabFailedAgain
    BY <1>2, <2>1, <2>2, WorkerStays DEF AfterLabFailedAgain, procVars, Back, At, Deciding
  <2>3. CASE DecisionMade
    BY <1>2, <2>1, <2>3, WorkerStays DEF DecisionMade, Back, At, Deciding
  <2> QED
    BY <1>11, <2>2, <2>3
<1>12. CASE Decide \/ HandleFinalizationError
  <2>1. UNCHANGED <<dbVars, acked>> /\ ~InFlight(Worker)
    BY <1>3, <1>12 DEF Decide, HandleFinalizationError, At, Resting
  <2>2. CASE Go(Worker, "gone") /\ UNCHANGED call
    BY <1>2, <2>1, <2>2, WorkerStays
  <2>3. CASE Decide /\ Invoke(Worker, Decision) /\ Go(Worker, "deciding") /\ UNCHANGED group
    <3>1. Decision \in FinishOps
      BY DEF Decision, FinishOps
    <3>2. ctl[Worker] \notin Deciding
      BY <2>3 DEF Decide, At, Deciding
    <3> QED
      BY <1>2, <2>1, <2>3, <3>1, <3>2, WorkerStarts DEF Invoke
  <2>4. CASE Invoke(Worker, "crash") /\ Go(Worker, "crashing") /\ UNCHANGED group
    BY <1>2, <2>1, <2>4, WorkerStarts DEF Invoke
  <2> QED
    BY <1>12, <2>2, <2>3, <2>4 DEF Decide, HandleFinalizationError
<1> QED
  BY <1>4, <1>5, <1>6, <1>7, <1>8, <1>9, <1>10, <1>11, <1>12 DEF WorkerStep

\* Steps of the handlers and of the environment: none starts a write while
\* pytest lives, and whoever removes pytest removes its call.
LEMMA OutsideDecides ==
  ASSUME SessionInv, DecisionInv, UNCHANGED dbVars,
         \/ ctl'[Worker] = ctl[Worker] /\ call'[Worker] = call[Worker]
         \/ WorkerGone' /\ call'[Worker] = Idle,
         call'[Recovery] = Idle,
         \A h \in Handlers :
           /\ \/ call'[h] \in {call[h], Idle, Invoked("request_cancel")}
              \/ call'[h] = Invoked("cancel") /\ WorkerGone'
           /\ ctl'[h] = ctl[h] \/ ctl'[h] \notin Notified \/ WorkerGone',
         group' = group \/ WorkerGone',
         acked' => acked \/ row.lc = "CANCELLED"
  PROVE  DecisionInv'
<1>1. /\ Processes = Handlers \cup {Worker, Recovery}
      /\ row' = row /\ results' = results /\ events' = events
  BY ProcessesAssumption DEF dbVars
<1>2. WorkerGone => WorkerGone'
  BY DEF WorkerGone, At
<1>3. ASSUME NEW h \in Handlers
      PROVE  /\ OnTrack(call'[h]) /\ FreshHandler(call'[h], row) /\ FinishingOf(call'[h], row)
             /\ call'[h].op \in HandlerOps
             /\ call'[h].op = "cancel" => WorkerGone'
  <2>1. CASE call'[h] = call[h]
    BY <1>1, <1>2, <2>1 DEF DecisionInv, Roles, Fresh, Finishing
  <2>2. CASE call'[h] # call[h]
    BY <2>2, StartedHarmless, IdleHarmless DEF Harmless, HandlerOps, FinishOps
  <2> QED
    BY <2>1, <2>2
<1>4. OnTrack(Idle) /\ FinishingOf(Idle, row) /\ FactsOf(Idle)
  BY IdleHarmless DEF Harmless
<1>5. /\ OnTrack(call'[Worker]) /\ FinishingOf(call'[Worker], row)
      /\ ~WorkerGone' => FreshWorker(call'[Worker], row) /\ FactsOf(call'[Worker])
  BY <1>1, <1>4 DEF DecisionInv, Roles, Fresh, Finishing, Facts, WorkerGone, At
<1>6. Roles'
  <2>1. \A c \in Processes : OnTrack(call'[c])
    BY <1>1, <1>3, <1>4, <1>5
  <2>2. group' # "running" => WorkerGone'
    BY <1>2 DEF DecisionInv, Roles
  <2>3. \A h \in Handlers : /\ call'[h].op \in HandlerOps
                            /\ call'[h].op = "cancel" \/ ctl'[h] \in Notified => WorkerGone'
    BY <1>2, <1>3 DEF DecisionInv, Roles
  <2>4. CASE ctl'[Worker] = ctl[Worker] /\ call'[Worker] = call[Worker]
    BY <2>1, <2>2, <2>3, <2>4 DEF DecisionInv, Roles, InFlight, At
  <2>5. CASE WorkerGone' /\ call'[Worker] = Idle
    BY <2>1, <2>2, <2>3, <2>5, IdleHarmless
       DEF Roles, InFlight, WorkerGone, At, Deciding, DecisionOps
  <2> QED
    BY <2>4, <2>5
<1>7. Fresh' /\ Finishing'
  BY <1>1, <1>3, <1>4, <1>5 DEF DecisionInv, Fresh, Finishing
<1>8. Facts'
  <2>1. row.lc \in {"COMPLETED", "FAILED"} => ctl'[Worker] \in Deciding \cup {"gone"}
    BY DEF DecisionInv, Facts, WorkerGone, At
  <2> QED
    BY <1>1, <1>5, <2>1 DEF Facts, FactsOf, Due
<1> QED
  BY <1>1, <1>6, <1>7, <1>8
     DEF DecisionInv, CancelAckSound, FinishEventsAgree, OutcomeMatchesFacts

\* What a handler's step does, kind by kind.
LEMMA HandlerDecides ==
  ASSUME SessionInv, DecisionInv, NEW h \in Handlers, HandlerAction(h) PROVE DecisionInv'
<1>1. /\ Worker \in Processes /\ Recovery \in Processes /\ Handlers \subseteq Processes
      /\ Worker \notin Handlers /\ Recovery \notin Handlers /\ Worker # Recovery
      /\ call \in [Processes -> Calls] /\ call[Recovery] = Idle
      /\ ctl \in [Handlers \cup {Worker} -> WorkerPoints \cup HandlerPoints]
  BY ProcessTypes, ProcessesAssumption
     DEF SessionInv, OwnTypes, ServiceInv, ServiceTypeOK, DecisionInv, Roles
<1>2. /\ group # "running" => WorkerGone
      /\ ctl[h] \in Notified => WorkerGone
  BY DEF DecisionInv, Roles
<1>3. UNCHANGED dbVars
  BY HandlerFrames DEF SessionInv, HandlerFrame
<1>4. acked' => acked \/ row.lc = "CANCELLED"
  BY DEF HandlerAction, HandlerStep, ReceiveCancel, Validate, IntentStored, Signal, Kill,
     KillFails, CancelUnstopped, RecheckUnstopped, CancelStopped, Settle, Reply, procVars
<1>5. CASE \/ Kill(h)
           \/ /\ ctl' = [ctl EXCEPT ![Worker] = "gone", ![h] = "waiting"]
              /\ call' = [call EXCEPT ![Worker] = Idle, ![h] = Idle]
  <2>1. /\ ctl'[Worker] = "gone" /\ call'[Worker] = Idle
        /\ \A i \in Handlers \ {h} : ctl'[i] = ctl[i] /\ call'[i] = call[i]
        /\ call'[Recovery] = Idle /\ call'[h] \in {call[h], Idle}
    BY <1>1, <1>5 DEF Kill
  <2> QED
    BY <1>3, <1>4, <2>1, OutsideDecides DEF WorkerGone, At
<1>6. CASE \/ ReceiveCancel(h) \/ (HandlerStep(h) /\ ~Kill(h))
           \/ KillFails(h) /\ Answer(h) /\ UNCHANGED group
  <2>1. group' = group
    BY <1>6 DEF HandlerStep, ReceiveCancel, Validate, IntentStored, Signal,
         CancelUnstopped, RecheckUnstopped, CancelStopped, Settle, Reply, procVars
  <2>2. \/ UNCHANGED call
        \/ call' = [call EXCEPT ![h] = Idle]
        \/ Invoke(h, "request_cancel")
        \/ Invoke(h, "cancel") /\ ctl[h] \in Notified
    BY <1>6 DEF HandlerStep, ReceiveCancel, Validate, IntentStored, Signal,
         CancelUnstopped, RecheckUnstopped, CancelStopped, Settle, Reply, Answer, At, Notified
  <2>3. \E point : /\ Go(h, point)
                   /\ point \in Notified => ctl[h] \in Notified \/ group # "running"
    <3>1. CASE \/ ReceiveCancel(h) \/ Validate(h) \/ IntentStored(h)
               \/ KillFails(h) /\ Answer(h)
      <4>1. \E point \in {"validate", "requesting", "signal", "waiting"} : Go(h, point)
        BY <3>1 DEF ReceiveCancel, Validate, IntentStored, Answer
      <4> QED
        BY <4>1 DEF Notified
    <3>2. CASE Signal(h)
      <4>1. \/ Go(h, "waiting") \/ Go(h, "killing")
            \/ Go(h, "unstopped") /\ group # "running"
        BY <3>2 DEF Signal, Answer
      <4> QED
        BY <4>1 DEF Notified
    <3>3. CASE \/ CancelUnstopped(h) \/ RecheckUnstopped(h) \/ CancelStopped(h)
               \/ Settle(h) \/ Reply(h)
      <4>1. ctl[h] \in Notified /\ \E point : Go(h, point)
        BY <3>3 DEF CancelUnstopped, RecheckUnstopped, CancelStopped, Settle, Reply, Answer,
                    Back, At, Notified
      <4> QED
        BY <4>1
    <3> QED
      BY <1>6, <3>1, <3>2, <3>3 DEF HandlerStep
  <2>4. PICK point : /\ Go(h, point)
                     /\ point \in Notified => ctl[h] \in Notified \/ group # "running"
    BY <2>3
  <2>5. /\ ctl'[Worker] = ctl[Worker] /\ ctl'[h] = point
        /\ \A i \in Handlers \ {h} : ctl'[i] = ctl[i]
    BY <1>1, <2>4 DEF Go
  <2>6. WorkerGone' <=> WorkerGone
    BY <2>5 DEF WorkerGone, At
  <2>7. /\ call'[Worker] = call[Worker] /\ call'[Recovery] = Idle
        /\ \A i \in Handlers \ {h} : call'[i] = call[i]
        /\ \/ call'[h] \in {call[h], Idle, Invoked("request_cancel")}
           \/ call'[h] = Invoked("cancel") /\ WorkerGone
    BY <1>1, <1>2, <2>2 DEF Invoke
  <2>8. ctl'[h] \notin Notified \/ WorkerGone
    BY <1>2, <2>4, <2>5
  <2> QED
    BY <1>3, <1>4, <2>1, <2>5, <2>6, <2>7, <2>8, OutsideDecides
<1> QED
  BY <1>5, <1>6 DEF HandlerAction, KillFails

\* Recovery decides nothing: a published PID is taken for a live process.
LEMMA NeverOrphaned == ~Orphaned
BY DEF Orphaned, PidAlive

LEMMA EnvironmentDecides ==
  ASSUME SessionInv, DecisionInv,
         \/ Recover \/ CrashWorker \/ LingerEnds \/ Reap \/ DashboardRestart
         \/ UNCHANGED vars
  PROVE  DecisionInv'
<1>1. /\ Worker \in Processes /\ Recovery \in Processes /\ Handlers \subseteq Processes
      /\ Worker \notin Handlers /\ Recovery \notin Handlers /\ Worker # Recovery
      /\ call \in [Processes -> Calls] /\ call[Recovery] = Idle
      /\ ctl \in [Handlers \cup {Worker} -> WorkerPoints \cup HandlerPoints]
      /\ group # "running" => WorkerGone
  BY ProcessTypes, ProcessesAssumption
     DEF SessionInv, OwnTypes, ServiceInv, ServiceTypeOK, DecisionInv, Roles
<1>2. CASE Recover \/ Reap \/ UNCHANGED vars
  <2>1. UNCHANGED <<dbVars, call, ctl, group, acked>>
    BY <1>2, NeverOrphaned DEF Recover, Reap, procVars, vars, dbVars
  <2> QED
    BY <1>1, <2>1, OutsideDecides
<1>3. CASE CrashWorker
  <2>1. /\ UNCHANGED <<dbVars, acked>>
        /\ ctl'[Worker] = "gone" /\ call'[Worker] = Idle /\ call'[Recovery] = Idle
        /\ \A h \in Handlers : ctl'[h] = ctl[h] /\ call'[h] = call[h]
    BY <1>1, <1>3 DEF CrashWorker
  <2> QED
    BY <2>1, OutsideDecides DEF WorkerGone, At
<1>4. CASE LingerEnds
  <2>1. UNCHANGED <<dbVars, call, ctl, acked>> /\ WorkerGone'
    BY <1>1, <1>4 DEF LingerEnds, WorkerGone, At
  <2> QED
    BY <1>1, <2>1, OutsideDecides
<1>5. CASE DashboardRestart
  <2>1. /\ UNCHANGED <<dbVars, group, acked>>
        /\ ctl'[Worker] = ctl[Worker] /\ call'[Worker] = call[Worker]
        /\ call'[Recovery] = Idle
        /\ \A h \in Handlers : ctl'[h] = "waiting" /\ call'[h] = Idle
    BY <1>1, <1>5 DEF DashboardRestart
  <2>2. "waiting" \notin Notified
    BY DEF Notified
  <2> QED
    BY <2>1, <2>2, OutsideDecides
<1> QED
  BY <1>2, <1>3, <1>4, <1>5

-----------------------------------------------------------------------------

\* DecisionInv holds in every reachable state.
THEOREM DecisionInvariance == Spec => []DecisionInv
<1>1. Init => DecisionInv
  <2> SUFFICES ASSUME Init PROVE DecisionInv
    OBVIOUS
  <2>1. /\ row = NoRow /\ row.lc = "ABSENT" /\ events = <<>> /\ acked = FALSE
        /\ group = "running" /\ \A c \in Processes : call[c] = Idle
        /\ ctl[Worker] = "launched" /\ \A h \in Handlers : ctl[h] = "waiting"
    BY ProcessesAssumption DEF Init, ServiceInit, NoRow
  <2>2. /\ Worker \in Processes /\ Recovery \in Processes /\ Handlers \subseteq Processes
        /\ Idle.op = "none" /\ Idle.stage = "idle"
    BY ProcessTypes, IdleHarmless
  <2>3. \A r : /\ OnTrack(Idle) /\ FreshWorker(Idle, r)
               /\ FreshHandler(Idle, r) /\ FinishingOf(Idle, r)
    BY IdleOver, OverFresh
  <2>4. Roles
    BY <2>1, <2>2, <2>3
       DEF Roles, WorkerGone, At, HandlerOps, Notified, InFlight, Deciding, DecisionOps
  <2>5. Fresh /\ Finishing
    BY <2>1, <2>2, <2>3 DEF Fresh, Finishing
  <2>6. Facts
    BY <2>1, <2>2 DEF Facts, FactsOf, DecisionOps
  <2>7. CancelAckSound /\ FinishEventsAgree /\ OutcomeMatchesFacts
    BY <2>1 DEF CancelAckSound, FinishEventsAgree, OutcomeMatchesFacts
  <2> QED
    BY <2>4, <2>5, <2>6, <2>7 DEF DecisionInv
<1>2. SessionInv /\ DecisionInv /\ [Next]_vars => DecisionInv'
  <2> SUFFICES ASSUME SessionInv, DecisionInv, [Next]_vars PROVE DecisionInv'
    OBVIOUS
  <2>1. CASE WorkerStep
    BY <2>1, WorkerDecides
  <2>2. CASE \E h \in Handlers : HandlerAction(h)
    BY <2>2, HandlerDecides
  <2>3. CASE \E c \in Processes : Serve(c) \/ ServiceFault(c)
    BY <2>3, ServiceDecides
  <2>4. CASE \/ Recover \/ CrashWorker \/ LingerEnds \/ Reap \/ DashboardRestart
             \/ UNCHANGED vars
    BY <2>4, EnvironmentDecides
  <2> QED
    BY <2>1, <2>2, <2>3, <2>4 DEF Next, HandlerAction
<1> QED
  BY <1>1, <1>2, SessionInvariance, PTL DEF Spec

\* The only writes of the row: pytest creates it, and after that whoever writes
\* makes a legal change and keeps what is stored.
LEMMA RowStep ==
  ASSUME SessionInv, DecisionInv, [Next]_vars
  PROVE  \/ row' = row
         \/ row.lc = "ABSENT" /\ row = NoRow /\ row' = [NoRow EXCEPT !.lc = "QUEUED"]
         \/ Legal(row, row') /\ Keeps(row, row')
<1>1. CASE WorkerStep
  <2>1. row' = row \/ CreateRun
    BY <1>1, WorkerTables DEF WorkerDb, dbVars
  <2> QED
    BY <2>1 DEF CreateRun, DecisionInv, Fresh
<1>2. CASE \E h \in Handlers : HandlerAction(h)
  BY <1>2, HandlerFrames DEF HandlerFrame, dbVars, SessionInv
<1>3. ASSUME NEW c \in Processes, Serve(c) \/ ServiceFault(c)
      PROVE  row' = row \/ (Legal(row, row') /\ Keeps(row, row'))
  <2>1. CASE UpdateRun(c)
    <3>1. row' = call[c].copy /\ call[c].stage = "update" /\ InFlight(c)
      BY <2>1 DEF UpdateRun, InFlight
    <3>2. CASE c = Worker
      BY <3>1, <3>2, InFlightRoles DEF DecisionInv, Fresh, FreshWorker
    <3>3. CASE c \in Handlers
      BY <3>1, <3>3, CancelWrites
    <3> QED
      BY <3>1, <3>2, <3>3, InFlightRoles
  <2>2. CASE RestampStarted(c)
    <3>1. /\ call[c].stage = "restamp" /\ InFlight(c) /\ row \in Rows
          /\ row' = [call[c].copy EXCEPT !.started = TRUE]
      BY <2>2, RowTyped DEF RestampStarted, InFlight
    <3>2. call[c].op \in TransitionOps /\ c = Worker /\ ~WorkerGone
      BY <3>1, InFlightRoles DEF Track, FinishOps, TransitionOps, ResaveOps
    <3>3. call[c].copy = row /\ row.lc # "ABSENT"
      BY <3>1, <3>2 DEF DecisionInv, Fresh, FreshWorker, SaveOps
    <3> QED
      BY <3>1, <3>3, SeverityOrder DEF Legal, Keeps, Rows
  <2>3. CASE ~UpdateRun(c) /\ ~RestampStarted(c)
    BY <1>3, <2>3 DEF Serve, ServiceFault, ServiceStep, DeriveFromRun, DeriveFromAttempt,
       FinishRead, TransitionRead, StartGuard, HealthRead, ListOpenAttempts, CloseAttempt,
       AppendEvent, SaveResult, CancelCheck, CancelListEvents, RepositoryFails, dbVars
  <2> QED
    BY <2>1, <2>2, <2>3
<1>4. CASE \/ Recover \/ CrashWorker \/ LingerEnds \/ Reap \/ DashboardRestart
           \/ UNCHANGED vars
  BY <1>4 DEF Recover, CrashWorker, LingerEnds, Reap, DashboardRestart, vars, dbVars
<1> QED
  BY <1>1, <1>2, <1>3, <1>4 DEF Next, HandlerAction

\* No process's copy of the row is stale when it is written: the recorded health
\* only gets worse, a published PID and started_at stay
\* (SQLiteRunRepository.update writes every column).
THEOREM NothingIsLost == Spec => NoLostUpdate
<1>1. SessionInv /\ DecisionInv /\ [Next]_vars =>
        [ /\ HealthSeverity(row.health) <= HealthSeverity(row'.health)
          /\ row.pid => row'.pid
          /\ row.started => row'.started ]_row
  <2>1. HealthSeverity("NONE") <= HealthSeverity("NONE")
    BY SeverityOrder
  <2> QED
    BY <2>1, RowStep DEF Keeps, NoRow
<1> QED
  BY <1>1, SessionInvariance, DecisionInvariance, PTL DEF Spec, NoLostUpdate

\* The row of a Run is a RunContract, whatever pytest, the cancel requests,
\* recovery, failing calls and crashes do to it, in any interleaving: it moves
\* forward, is decided once and then stays (RunService._ALLOWED_TRANSITIONS).
THEOREM ContractImplemented == Spec => ImplementsContract
<1>1. Init => Contract!Init
  BY DEF Init, ServiceInit, NoRow, Contract!Init, Contract!Undecided
<1>2. SessionInv /\ DecisionInv /\ [Next]_vars =>
        [Contract!Next]_<<row.lc, row.outcome, row.fclass>>
  <2> SUFFICES ASSUME SessionInv, DecisionInv, [Next]_vars
               PROVE  [Contract!Next]_<<row.lc, row.outcome, row.fclass>>
    OBVIOUS
  <2>1. CASE row.lc = "ABSENT" /\ row = NoRow /\ row' = [NoRow EXCEPT !.lc = "QUEUED"]
    <3>1. Contract!Advance
      BY <2>1 DEF Contract!Advance, Contract!Rank, Contract!ActiveStates, NoRow
    <3> QED
      BY <3>1 DEF Contract!Next
  <2>2. CASE Legal(row, row')
    BY <2>2 DEF Legal, Active, Contract!Next, Contract!Advance, Contract!Decide,
                Contract!ActiveStates
  <2> QED
    BY <2>1, <2>2, RowStep
<1> QED
  BY <1>1, <1>2, SessionInvariance, DecisionInvariance, PTL
     DEF Spec, ImplementsContract, Contract!Spec

\* A cancel request answered CANCELLED is answered truly, and stays true
\* (cancel_run in the dashboard).
THEOREM CancelIsSound == Spec => []CancelAckSound
BY DecisionInvariance, PTL DEF DecisionInv

\* A terminal event in the log is that of the decision the row holds
\* (RunService._finish writes the row, then the event).
THEOREM EventsAgree == Spec => []FinishEventsAgree
BY DecisionInvariance, PTL DEF DecisionInv

\* The verdict on a Run is the one its stored results and health give, though it
\* is derived some calls before it is written (derive_business_outcome, _finish).
THEOREM VerdictsStand == Spec => []OutcomeMatchesFacts
BY DecisionInvariance, PTL DEF DecisionInv

-----------------------------------------------------------------------------
(* pytest that ends by itself.  Books, Progress and PathAt say what its    *)
(* call has reached, as long as no call failed and nobody cancelled.       *)

Clean == faults = 0 /\ crashes = 0 /\ ~CancelRequested
NoneYet == \A i \in DOMAIN events : events[i] \notin FinishEvents
Once == \E i \in DOMAIN events : \A j \in DOMAIN events : events[j] \in FinishEvents <=> j = i
Open == {n \in DOMAIN attempts : attempts[n] = "open"}
AllClosed == \A n \in DOMAIN attempts : attempts[n] = "closed"
ClosingCall(k) == k.op \in FinishOps /\ k.stage \in {"list", "close", "event"}

\* A handler that got further than its request finds the request in the log.
Asked ==
  \A h \in Handlers :
    \/ ctl[h] \notin {"waiting", "validate", "requesting"}
    \/ call[h].op = "cancel" \/ call[h].stage = "done"
    => CancelRequested
Unborn == row.lc = "ABSENT" => \A h \in Handlers : ctl[h] = "waiting" /\ call[h] = Idle

\* The Attempts are closed and the terminal event is appended between the write
\* of the decision and the end of the operation that made it.
Books(k) ==
  /\ ~IsTerminal => NoneYet
  /\ ClosingCall(k) => /\ IsTerminal /\ NoneYet
                       /\ k.stage = "close" => k.todo = Open
                       /\ k.stage = "event" => AllClosed
  /\ IsTerminal /\ ~ClosingCall(k) => AllClosed /\ Once
Progress(k, r) ==
  /\ k.stage # "failed"
  /\ k.op \in FinishOps => /\ k.stage # "idle"
                           /\ k.stage = "update" => r.lc \in Active
                           /\ k.stage = "done" => r.lc \in Terminal
  /\ k.op \in TransitionOps /\ k.stage \in {"update", "event", "restamp", "done"} =>
       k.copy.lc = Target(k.op)
\* Nothing pytest tries before its Run has a context is refused, and its failure
\* handlers are not refused either.
PathAt(k, r, point) ==
  /\ point # "launched" => r.lc # "ABSENT"
  /\ point = "snapshot" => k.op = "snapshot" /\ k.copy.lc = "PREPARING"
  /\ point = "begin_health" =>
       /\ k.op = "health_check" /\ k.stage \notin {"raised", "guard"}
       /\ k.stage = "read" => r.lc = "PREPARING"
  /\ point \in {"prepare_failed", "crashing"} =>
       \/ r.lc \in Terminal
       \/ k.op \in {"lab_fail", "crash"} /\ k.stage \in {"read", "update"} /\ r.lc \in Active
  /\ point = "gone" => r.lc \in Terminal

CleanInv ==
  /\ Unborn /\ Asked
  /\ Clean => /\ Books(call[Worker])
              /\ Progress(call[Worker], row)
              /\ PathAt(call[Worker], row, ctl[Worker])

-----------------------------------------------------------------------------
(* The event log.                                                          *)

LEMMA EventsLast ==
  ASSUME events \in Seq(EventTypes), NEW event, events' = Append(events, event)
  PROVE  /\ DOMAIN events \subseteq DOMAIN events'
         /\ Len(events) + 1 \in DOMAIN events' /\ Len(events) + 1 \notin DOMAIN events
         /\ DOMAIN events' = DOMAIN events \cup {Len(events) + 1}
         /\ \A i \in DOMAIN events : events'[i] = events[i]
         /\ events'[Len(events) + 1] = event
OBVIOUS

LEMMA BooksAppend ==
  ASSUME events \in Seq(EventTypes), NEW event, events' = Append(events, event)
  PROVE  /\ CancelRequested => CancelRequested'
         /\ event = "RUN_CANCEL_REQUESTED" => CancelRequested'
         /\ event \notin FinishEvents /\ NoneYet => NoneYet'
         /\ event \notin FinishEvents /\ Once => Once'
         /\ event \in FinishEvents /\ NoneYet => Once'
<1>1. FinishEvents' = FinishEvents
  BY DEF FinishEvents
<1>2. CancelRequested => CancelRequested'
  BY EventsLast DEF CancelRequested
<1>3. event = "RUN_CANCEL_REQUESTED" => CancelRequested'
  BY EventsLast DEF CancelRequested
<1>4. event \notin FinishEvents /\ NoneYet => NoneYet'
  BY <1>1, EventsLast DEF NoneYet
<1>5. ASSUME event \notin FinishEvents, Once PROVE Once'
  <2>1. PICK i \in DOMAIN events :
          \A j \in DOMAIN events : events[j] \in FinishEvents <=> j = i
    BY <1>5 DEF Once
  <2>2. i \in DOMAIN events' /\ \A j \in DOMAIN events' : events'[j] \in FinishEvents <=> j = i
    BY <1>5, <2>1, EventsLast
  <2> QED
    BY <1>1, <2>2 DEF Once
<1>6. ASSUME event \in FinishEvents, NoneYet PROVE Once'
  <2>1. \A j \in DOMAIN events' : events'[j] \in FinishEvents <=> j = Len(events) + 1
    BY <1>6, EventsLast DEF NoneYet
  <2> QED
    BY <1>1, <2>1, EventsLast DEF Once
<1> QED
  BY <1>2, <1>3, <1>4, <1>5, <1>6

LEMMA FinishIsTerminal ==
  /\ \A op \in FinishOps : Target(op) \in Terminal
  /\ \A op \in TransitionOps : Target(op) \in Active /\ op \notin FinishOps
  /\ Active \cap Terminal = {} /\ Lifecycle = Active \cup Terminal \cup {"ABSENT"}
  /\ "ABSENT" \notin Active /\ "ABSENT" \notin Terminal
  /\ \A lc \in Active : {"LAB_FAILED", "ABORTED"} \subseteq Allowed(lc)
BY DEF Target, FinishOps, TransitionOps, Terminal, Active, Lifecycle, Allowed

-----------------------------------------------------------------------------
(* What no step takes back.                                                *)

\* Only a step that creates the Run, appends an event or starts the log changes it.
LEMMA EventsGrow ==
  ASSUME SessionInv, DecisionInv, [Next]_vars
  PROVE  \/ UNCHANGED events
         \/ Launch
         \/ \E event : events' = Append(events, event)
<1>1. CASE WorkerStep
  <2>1. UNCHANGED dbVars \/ Launch
    BY <1>1 DEF WorkerStep, CollectionFails, Launch, StoreSnapshot, PrepareFails,
       BeginHealthCheck, CheckBefore, RecordingHealthFails, Gate, BlockAfterLabFail, PublishPid,
       BeginTests, InternalError, RunTest, ResultRecorded, EndTests, CheckAfter, AfterRecorded,
       AfterLabFailed, AfterLabFailedAgain, CloseRunners, Decide, DecisionMade,
       HandleFinalizationError, Exit
  <2> QED
    BY <2>1 DEF dbVars
<1>2. CASE \E h \in Handlers : HandlerAction(h)
  BY <1>2, HandlerFrames DEF HandlerFrame, dbVars, SessionInv
<1>3. ASSUME NEW c \in Processes, Serve(c) \/ ServiceFault(c)
      PROVE  UNCHANGED events \/ \E event : events' = Append(events, event)
  BY <1>3 DEF Serve, ServiceFault, ServiceStep, DeriveFromRun, DeriveFromAttempt, FinishRead,
     TransitionRead, StartGuard, HealthRead, UpdateRun, RestampStarted, ListOpenAttempts,
     CloseAttempt, AppendEvent, SaveResult, CancelCheck, CancelListEvents, RepositoryFails, dbVars
<1>4. CASE \/ Recover \/ CrashWorker \/ LingerEnds \/ Reap \/ DashboardRestart
           \/ UNCHANGED vars
  BY <1>4 DEF Recover, CrashWorker, LingerEnds, Reap, DashboardRestart, vars, dbVars
<1> QED
  BY <1>1, <1>2, <1>3, <1>4 DEF Next, HandlerAction

\* A request in the log stays there.
LEMMA RequestsStay ==
  ASSUME SessionInv, DecisionInv, [Next]_vars, ~Launch, CancelRequested
  PROVE  CancelRequested'
<1>1. events \in Seq(EventTypes)
  BY DEF SessionInv, ServiceInv, ServiceTypeOK
<1>2. UNCHANGED events \/ \E event : events' = Append(events, event)
  BY EventsGrow
<1> QED
  BY <1>1, <1>2, BooksAppend DEF CancelRequested

\* A step that fails a call, kills or crashes is not clean.
LEMMA CleanBefore ==
  ASSUME SessionInv, DecisionInv, [Next]_vars, ~Launch, Clean'
  PROVE  /\ Clean /\ faults' = faults /\ crashes' = crashes
         /\ ~(CrashWorker \/ DashboardRestart)
         /\ ~\E c \in Processes : ServiceFault(c)
         /\ ~\E h \in Handlers : KillFails(h)
<1>1. faults \in Nat /\ crashes \in Nat
  BY BoundsAssumption DEF SessionInv, OwnTypes
<1>2. /\ faults' = 0 /\ crashes' = 0 /\ ~CancelRequested
  BY RequestsStay DEF Clean
<1>3. /\ faults' = faults \/ faults' = faults + 1
      /\ crashes' = crashes \/ crashes' = crashes + 1
  <2>1. CASE WorkerStep
    BY <2>1 DEF WorkerStep, CollectionFails, Launch, StoreSnapshot, PrepareFails,
       BeginHealthCheck, CheckBefore, RecordingHealthFails, Gate, BlockAfterLabFail, PublishPid,
       BeginTests, InternalError, RunTest, ResultRecorded, EndTests, CheckAfter, AfterRecorded,
       AfterLabFailed, AfterLabFailedAgain, CloseRunners, Decide, DecisionMade,
       HandleFinalizationError, Exit, procVars
  <2>2. CASE \E h \in Handlers : HandlerAction(h)
    BY <2>2 DEF HandlerAction, HandlerStep, ReceiveCancel, Validate, IntentStored, Signal, Kill,
       KillFails, CancelUnstopped, RecheckUnstopped, CancelStopped, Settle, Reply, procVars
  <2>3. CASE \E c \in Processes : Serve(c) \/ ServiceFault(c)
    BY <2>3 DEF Serve, ServiceFault, procVars
  <2>4. CASE \/ Recover \/ CrashWorker \/ LingerEnds \/ Reap \/ DashboardRestart
             \/ UNCHANGED vars
    BY <2>4 DEF Recover, CrashWorker, LingerEnds, Reap, DashboardRestart, vars, procVars
  <2> QED
    BY <2>1, <2>2, <2>3, <2>4 DEF Next, HandlerAction
<1>4. faults' = faults /\ crashes' = crashes /\ faults = 0 /\ crashes = 0
  BY <1>1, <1>2, <1>3
<1> QED
  BY <1>2, <1>4 DEF Clean, CrashWorker, DashboardRestart, ServiceFault, KillFails

-----------------------------------------------------------------------------
(* The handlers.                                                           *)

LEMMA ServeInFlight == ASSUME NEW c \in Processes, Serve(c) PROVE InFlight(c)
BY DEF Serve, ServiceStep, DeriveFromRun, DeriveFromAttempt, FinishRead, TransitionRead,
   StartGuard, HealthRead, UpdateRun, RestampStarted, ListOpenAttempts, CloseAttempt,
   AppendEvent, SaveResult, CancelCheck, CancelListEvents, InFlight

\* The call of a handler that is served.
LEMMA HandlerServed ==
  ASSUME SessionInv, DecisionInv, NEW c \in Handlers, Serve(c)
  PROVE  /\ call[c].op \in {"request_cancel", "cancel"}
         /\ UNCHANGED ctl
         /\ \A d \in Processes \ {c} : call'[d] = call[d]
         /\ call'[c].op = call[c].op
         /\ call[c].op = "request_cancel" =>
              \/ UNCHANGED dbVars /\ (call'[c].stage = "done" => CancelRequested)
              \/ CancelRequested' /\ UNCHANGED <<row, attempts>>
<1>1. /\ InFlight(c) /\ c \in Processes
  BY ProcessTypes, ServeInFlight
<1>2. /\ call[c].op \in {"request_cancel", "cancel"} /\ call[c].stage \in Track(call[c].op)
      /\ call \in [Processes -> Calls] /\ call[c] \in Calls /\ events \in Seq(EventTypes)
  BY <1>1, InFlightRoles, ProcessesAssumption DEF SessionInv, ServiceInv, ServiceTypeOK
<1>3. /\ UNCHANGED ctl /\ ServiceStep(c)
  BY DEF Serve
<1>4. \A d \in Processes \ {c} : call'[d] = call[d]
  BY <1>2, <1>3 DEF ServiceStep, DeriveFromRun, DeriveFromAttempt, FinishRead, TransitionRead,
     StartGuard, HealthRead, UpdateRun, RestampStarted, ListOpenAttempts, CloseAttempt,
     AppendEvent, SaveResult, CancelCheck, CancelListEvents, Goto, Refuse
<1>5. call'[c].op = call[c].op
  BY <1>1, <1>2, <1>3 DEF ServiceStep, DeriveFromRun, DeriveFromAttempt, FinishRead,
     TransitionRead, StartGuard, HealthRead, UpdateRun, RestampStarted, ListOpenAttempts,
     CloseAttempt, AppendEvent, SaveResult, CancelCheck, CancelListEvents, Goto, Refuse, Calls
<1>6. ASSUME call[c].op = "request_cancel"
      PROVE  \/ UNCHANGED dbVars /\ (call'[c].stage = "done" => CancelRequested)
             \/ CancelRequested' /\ UNCHANGED <<row, attempts>>
  <2>1. call[c].stage \in {"check", "list_events", "event"}
    BY <1>2, <1>6 DEF Track, FinishOps, TransitionOps, ResaveOps
  <2>2. CancelCheck(c) \/ CancelListEvents(c) \/ AppendEvent(c)
    BY <1>3, <2>1 DEF ServiceStep, DeriveFromRun, DeriveFromAttempt, FinishRead, TransitionRead,
       StartGuard, HealthRead, UpdateRun, RestampStarted, ListOpenAttempts, CloseAttempt,
       SaveResult
  <2>3. CASE CancelCheck(c)
    BY <1>1, <1>2, <2>3 DEF CancelCheck, Goto, Refuse, Calls
  <2>4. CASE CancelListEvents(c)
    BY <1>1, <1>2, <2>4 DEF CancelListEvents, Goto, Calls
  <2>5. CASE AppendEvent(c)
    <3>1. /\ events' = Append(events, "RUN_CANCEL_REQUESTED") /\ UNCHANGED <<row, attempts>>
      BY <1>6, <2>5 DEF AppendEvent, EventOf
    <3> QED
      BY <1>2, <3>1, BooksAppend
  <2> QED
    BY <2>2, <2>3, <2>4, <2>5
<1> QED
  BY <1>2, <1>3, <1>4, <1>5, <1>6

LEMMA AskedKept ==
  ASSUME SessionInv, DecisionInv, CleanInv, [Next]_vars PROVE Unborn' /\ Asked'
<1>1. /\ Worker \in Processes /\ Recovery \in Processes /\ Handlers \subseteq Processes
      /\ Worker \notin Handlers /\ Recovery \notin Handlers /\ Worker # Recovery
      /\ Processes = Handlers \cup {Worker, Recovery}
      /\ call \in [Processes -> Calls] /\ call[Recovery] = Idle
      /\ ctl \in [Handlers \cup {Worker} -> WorkerPoints \cup HandlerPoints]
  BY ProcessTypes, ProcessesAssumption
     DEF SessionInv, OwnTypes, ServiceInv, ServiceTypeOK, DecisionInv, Roles
<1>2. row'.lc = "ABSENT" => row.lc = "ABSENT" /\ row' = row
  <2>1. [NoRow EXCEPT !.lc = "QUEUED"].lc = "QUEUED"
    BY DEF NoRow
  <2> QED
    BY <2>1, RowStep, LegalExists
<1>3. Unborn /\ Asked
  BY DEF CleanInv
\* A step of nobody but one handler.
<1>4. ASSUME \A h \in Handlers : ctl'[h] = ctl[h] /\ call'[h] = call[h], ~Launch
      PROVE  Unborn' /\ Asked'
  BY <1>2, <1>3, <1>4, RequestsStay DEF Unborn, Asked
<1>5. CASE Launch
  <2>1. row.lc = "ABSENT" /\ row'.lc # "ABSENT"
    BY <1>2, <1>5 DEF Launch, CreateRun, NoRow
  <2>2. \A h \in Handlers : ctl'[h] = "waiting" /\ call'[h] = Idle
    BY <1>1, <1>3, <1>5, <2>1 DEF Unborn, Launch, Invoke, Go
  <2> QED
    BY <2>1, <2>2 DEF Unborn, Asked, Idle
<1>6. CASE WorkerStep /\ ~Launch
  <2>1. \A h \in Handlers : ctl'[h] = ctl[h] /\ call'[h] = call[h]
    BY <1>1, <1>6 DEF WorkerStep, CollectionFails, Launch, StoreSnapshot, PrepareFails,
       BeginHealthCheck, CheckBefore, RecordingHealthFails, Gate, BlockAfterLabFail, PublishPid,
       BeginTests, InternalError, RunTest, ResultRecorded, EndTests, CheckAfter, AfterRecorded,
       AfterLabFailed, AfterLabFailedAgain, CloseRunners, Decide, DecisionMade,
       HandleFinalizationError, Exit, Go, Invoke, InvokeHealth, InvokeResult, Resave
  <2> QED
    BY <1>4, <1>6, <2>1
<1>7. ASSUME NEW h \in Handlers, HandlerAction(h) PROVE Unborn' /\ Asked'
  <2>1. row' = row
    BY <1>7, HandlerFrames DEF HandlerFrame, dbVars, SessionInv
  <2>2. row.lc # "ABSENT"
    BY <1>3, <1>7 DEF Unborn, HandlerAction, HandlerStep, ReceiveCancel, Validate, IntentStored,
       Signal, Kill, KillFails, CancelUnstopped, RecheckUnstopped, CancelStopped, Settle, Reply,
       Active, At, Back
  <2>3. \A i \in Handlers \ {h} : ctl'[i] = ctl[i] /\ call'[i] = call[i]
    BY <1>1, <1>7 DEF HandlerAction, HandlerStep, ReceiveCancel, Validate, IntentStored,
       Signal, Kill, KillFails, CancelUnstopped, RecheckUnstopped, CancelStopped, Settle, Reply,
       Answer, Go, Invoke
  <2>4. ~Launch
    BY <2>1, <2>2 DEF Launch, CreateRun
  <2>5. CancelRequested => CancelRequested'
    BY <2>4, <1>7, RequestsStay DEF Next, HandlerAction
  <2>6. \/ CancelRequested
        \/ /\ ctl'[h] \in {"waiting", "validate", "requesting"}
           /\ call'[h].op # "cancel" /\ call'[h].stage # "done"
    <3>1. CASE ctl[h] \notin {"waiting", "validate", "requesting"}
      BY <1>3, <3>1 DEF Asked
    <3>2. CASE ReceiveCancel(h)
      BY <1>1, <1>3, <3>2 DEF ReceiveCancel, Asked, Go
    <3>3. CASE Validate(h)
      <4>1. /\ Invoked("request_cancel").op = "request_cancel"
            /\ Invoked("request_cancel").stage # "done"
        BY InvokedStarts DEF Started, First
      <4> QED
        BY <1>1, <3>3, <4>1 DEF Validate, Answer, Invoke, Go, Idle
    <3>4. CASE IntentStored(h)
      BY <1>1, <1>3, <3>4 DEF IntentStored, Answer, Go, Idle, Returned, Asked
    <3> QED
      BY <1>7, <3>1, <3>2, <3>3, <3>4 DEF HandlerAction, HandlerStep, Signal, Kill, KillFails,
         CancelUnstopped, RecheckUnstopped, CancelStopped, Settle, Reply, At, Back
  <2> QED
    BY <1>3, <2>1, <2>2, <2>3, <2>5, <2>6 DEF Unborn, Asked
<1>8. ASSUME NEW c \in Processes, Serve(c) \/ ServiceFault(c), c \notin Handlers
      PROVE  Unborn' /\ Asked'
  <2>1. UNCHANGED ctl /\ ~Launch
    BY <1>1, <1>8 DEF Serve, ServiceFault, Launch, Go, At
  <2>2. \A h \in Handlers : call'[h] = call[h]
    BY <1>1, <1>8 DEF Serve, ServiceFault, ServiceStep, DeriveFromRun, DeriveFromAttempt,
       FinishRead, TransitionRead, StartGuard, HealthRead, UpdateRun, RestampStarted,
       ListOpenAttempts, CloseAttempt, AppendEvent, SaveResult, CancelCheck, CancelListEvents,
       RepositoryFails, Goto, Refuse
  <2> QED
    BY <1>4, <2>1, <2>2
<1>9. ASSUME NEW c \in Handlers, Serve(c) PROVE Unborn' /\ Asked'
  <2>1. /\ call[c].op \in {"request_cancel", "cancel"}
        /\ UNCHANGED ctl
        /\ \A h \in Handlers \ {c} : call'[h] = call[h]
        /\ call'[c].op = call[c].op
        /\ call[c].op = "request_cancel" =>
             (call'[c].stage = "done" => CancelRequested) \/ CancelRequested'
    BY <1>1, <1>9, HandlerServed
  <2>2. ~Launch
    BY <1>1, <2>1 DEF Launch, Go, At
  <2>3. call[c].op = "cancel" => CancelRequested
    BY <1>3 DEF Asked
  <2>4. row.lc # "ABSENT"
    BY <1>3, <2>1 DEF Unborn, Idle
  <2> QED
    BY <1>2, <1>3, <2>1, <2>2, <2>3, <2>4, RequestsStay DEF Unborn, Asked
<1>10. ASSUME NEW c \in Handlers, ServiceFault(c) PROVE Unborn' /\ Asked'
  <2>1. /\ InFlight(c) /\ UNCHANGED <<dbVars, ctl>>
        /\ call' = [call EXCEPT ![c].stage = "failed"]
    BY <1>10 DEF ServiceFault, RepositoryFails, Goto
  <2>2. ~Launch
    BY <1>1, <2>1 DEF Launch, Go, At
  <2>3. /\ call'[c].op = call[c].op /\ call'[c].stage = "failed"
        /\ \A h \in Handlers \ {c} : call'[h] = call[h]
    BY <1>1, <2>1 DEF Calls
  <2>4. row.lc # "ABSENT"
    BY <1>3, <2>1 DEF Unborn, InFlight, Idle
  <2> QED
    BY <1>2, <1>3, <2>1, <2>2, <2>3, <2>4, RequestsStay DEF Unborn, Asked
<1>11. CASE Recover \/ CrashWorker \/ LingerEnds \/ Reap \/ UNCHANGED vars
  <2>1. ~Launch
    BY <1>1, <1>11, NeverOrphaned DEF Launch, Go, At, Invoke, Recover, CrashWorker, LingerEnds,
       Reap, vars, procVars
  <2>2. \A h \in Handlers : ctl'[h] = ctl[h] /\ call'[h] = call[h]
    BY <1>1, <1>11, NeverOrphaned DEF Recover, CrashWorker, LingerEnds, Reap, vars
  <2> QED
    BY <1>4, <2>1, <2>2
<1>12. CASE DashboardRestart
  <2>1. /\ UNCHANGED dbVars /\ \A h \in Handlers : ctl'[h] = "waiting" /\ call'[h] = Idle
    BY <1>1, <1>12 DEF DashboardRestart
  <2> QED
    BY <2>1 DEF Unborn, Asked, Idle
<1> QED
  BY <1>1, <1>5, <1>6, <1>7, <1>8, <1>9, <1>10, <1>11, <1>12 DEF Next, HandlerAction
-----------------------------------------------------------------------------
(* The pytest process's own steps.                                         *)

CleanPart ==
  /\ Books(call[Worker])
  /\ Progress(call[Worker], row)
  /\ PathAt(call[Worker], row, ctl[Worker])

\* A call that has only begun, and has decided nothing yet.
NewCall(k) ==
  /\ k.op \in FinishOps => k.stage \in {"derive", "read"}
  /\ k.op \in TransitionOps => k.stage \in {"guard", "read"}
  /\ k.stage # "failed"

LEMMA NewCalls ==
  /\ \A op \in FinishOps \cup TransitionOps : NewCall(Invoked(op)) /\ Invoked(op).op = op
  /\ NewCall(Invoked("lab_fail")) /\ Invoked("lab_fail").stage = "read"
  /\ NewCall(Invoked("crash")) /\ Invoked("crash").stage = "read"
  /\ NewCall(Invoked("health_check")) /\ Invoked("health_check").stage = "read"
  /\ \A health : NewCall(HealthCall(health))
  /\ \A result : NewCall(ResultCall(result))
  /\ \A op \in ResaveOps : \A copy :
       /\ NewCall(ResaveCall(op, copy))
       /\ ResaveCall(op, copy).op = op /\ ResaveCall(op, copy).copy = copy
  /\ NewCall(Idle)
BY DEF NewCall, Invoked, HealthCall, ResultCall, ResaveCall, Idle, Entry, FinishOps,
       TransitionOps, ResaveOps

LEMMA WorkerCleans ==
  ASSUME SessionInv, CleanPart, UNCHANGED dbVars, ~InFlight(Worker),
         NEW k, NEW point, call' = [call EXCEPT ![Worker] = k], Go(Worker, point),
         k = call[Worker] \/ NewCall(k), PathAt(k, row, point)
  PROVE  CleanPart'
<1>1. call'[Worker] = k /\ ctl'[Worker] = point /\ row' = row
      /\ attempts' = attempts /\ events' = events
  BY ProcessTypes DEF SessionInv, OwnTypes, ServiceInv, ServiceTypeOK, Go, dbVars
<1>2. ~ClosingCall(call[Worker]) /\ ~ClosingCall(k)
  BY DEF InFlight, ClosingCall, NewCall
<1>3. Progress(k, row)
  BY DEF CleanPart, Progress, NewCall
<1>4. Books(call[Worker])'
  <2>1. FinishEvents' = FinishEvents
    BY DEF FinishEvents
  <2>2. /\ IsTerminal' = IsTerminal /\ (NoneYet => NoneYet')
        /\ (AllClosed => AllClosed') /\ (Once => Once')
    BY <1>1, <2>1 DEF IsTerminal, NoneYet, AllClosed, Once
  <2>3. ~ClosingCall(call[Worker])'
    BY <1>1, <1>2 DEF ClosingCall
  <2> QED
    BY <1>2, <2>2, <2>3 DEF CleanPart, Books
<1> QED
  BY <1>1, <1>3, <1>4 DEF CleanPart

\* A point past the creation of the Run at which pytest may be with any call.
LEMMA PathAnywhere ==
  ASSUME NEW k, NEW r, r.lc # "ABSENT", NEW point,
         point \notin {"snapshot", "begin_health", "prepare_failed", "crashing", "gone"}
  PROVE  PathAt(k, r, point)
BY DEF PathAt

LEMMA WorkerCleanly ==
  ASSUME SessionInv, DecisionInv, CleanPart, WorkerStep, ~Launch, faults = 0, faults' = faults
  PROVE  CleanPart'
<1>1. /\ Worker \in Processes /\ call \in [Processes -> Calls] /\ call[Worker] \in Calls
      /\ row.lc \in Lifecycle /\ OnTrack(call[Worker])
  BY ProcessTypes, RowTyped DEF SessionInv, ServiceInv, ServiceTypeOK, DecisionInv, Roles, Rows
<1>2. ~WorkerGone /\ ~InFlight(Worker) /\ ctl[Worker] # "launched"
  <2>1. ctl[Worker] \in Resting \/ ~InFlight(Worker)
    BY DEF WorkerStep, CollectionFails, StoreSnapshot, PrepareFails, BeginHealthCheck,
       CheckBefore, RecordingHealthFails, Gate, BlockAfterLabFail, PublishPid, BeginTests,
       InternalError, RunTest, ResultRecorded, EndTests, CheckAfter, AfterRecorded,
       AfterLabFailed, AfterLabFailedAgain, CloseRunners, Decide, DecisionMade,
       HandleFinalizationError, Exit, Back, At, Resting
  <2> QED
    BY <2>1 DEF WorkerStep, CollectionFails, StoreSnapshot, PrepareFails, BeginHealthCheck,
       CheckBefore, RecordingHealthFails, Gate, BlockAfterLabFail, PublishPid, BeginTests,
       InternalError, RunTest, ResultRecorded, EndTests, CheckAfter, AfterRecorded,
       AfterLabFailed, AfterLabFailedAgain, CloseRunners, Decide, DecisionMade,
       HandleFinalizationError, Exit, WorkerGone, Back, At, DecisionInv, Roles
<1>3. row.lc # "ABSENT" /\ Progress(call[Worker], row) /\ PathAt(call[Worker], row, ctl[Worker])
  BY <1>2 DEF CleanPart, PathAt
<1>4. row.lc \in Active \/ row.lc \in Terminal
  BY <1>1, <1>3, FinishIsTerminal
\* The steps that keep the call, or start one, at a point nothing is said about.
<1>5. ASSUME UNCHANGED dbVars, NEW point, Go(Worker, point),
             point \notin {"snapshot", "begin_health", "prepare_failed", "crashing", "gone"},
             \/ UNCHANGED call
             \/ \E op \in FinishOps \cup TransitionOps : Invoke(Worker, op)
             \/ \E health : InvokeHealth(Worker, health)
             \/ \E result : InvokeResult(Worker, result)
             \/ \E copy : Resave(Worker, "set_pid", copy)
      PROVE  CleanPart'
  <2>1. \E k : /\ call' = [call EXCEPT ![Worker] = k]
               /\ k = call[Worker] \/ NewCall(k)
    <3>1. call = [call EXCEPT ![Worker] = call[Worker]] /\ "set_pid" \in ResaveOps
      BY <1>1 DEF ResaveOps
    <3> QED
      BY <1>5, <3>1, NewCalls DEF Invoke, InvokeHealth, InvokeResult, Resave
  <2> QED
    BY <1>2, <1>3, <1>5, <2>1, PathAnywhere, WorkerCleans
\* The steps that leave pytest at a failure handler, or gone.
<1>6. ASSUME UNCHANGED <<dbVars, call>>, NEW point, Go(Worker, point),
             point \in {"prepare_failed", "gone"}, IsTerminal
      PROVE  CleanPart'
  <2>1. PathAt(call[Worker], row, point)
    BY <1>3, <1>6 DEF PathAt, IsTerminal
  <2>2. call' = [call EXCEPT ![Worker] = call[Worker]]
    BY <1>1, <1>6
  <2> QED
    BY <1>2, <1>6, <2>1, <2>2, WorkerCleans
<1>7. ASSUME UNCHANGED dbVars, NEW point, Go(Worker, point), ~IsTerminal,
             \/ point = "prepare_failed" /\ Invoke(Worker, "lab_fail")
             \/ point = "crashing" /\ Invoke(Worker, "crash")
      PROVE  CleanPart'
  <2>1. PICK op \in {"lab_fail", "crash"} :
          Invoke(Worker, op) /\ point \in {"prepare_failed", "crashing"}
    BY <1>7
  <2>2. PathAt(Invoked(op), row, point) /\ NewCall(Invoked(op))
    BY <1>3, <1>4, <1>7, <2>1, NewCalls DEF PathAt, IsTerminal, FinishOps
  <2> QED
    BY <1>2, <1>7, <2>1, <2>2, WorkerCleans DEF Invoke
<1>8. CASE CollectionFails
  <2>1. Raised(Worker) /\ ctl[Worker] = "begin_health"
    BY <1>8, BoundsAssumption DEF CollectionFails, Back, At
  <2> QED
    BY <1>3, <2>1 DEF Raised, PathAt, Progress
<1>9. CASE StoreSnapshot
  <2> DEFINE k == ResaveCall("snapshot", call[Worker].copy)
  <2>1. /\ call[Worker].stage = "done" /\ call[Worker].op = "prepare"
        /\ UNCHANGED dbVars /\ Go(Worker, "snapshot") /\ call' = [call EXCEPT ![Worker] = k]
    BY <1>9 DEF StoreSnapshot, Back, Returned, Resave, DecisionInv, Roles
  <2>2. call[Worker].copy.lc = "PREPARING"
    BY <1>3, <2>1 DEF Progress, TransitionOps, Target
  <2>3. NewCall(k) /\ PathAt(k, row, "snapshot")
    BY <1>3, <2>2, NewCalls DEF PathAt, ResaveOps
  <2> QED
    BY <1>2, <2>1, <2>3, WorkerCleans
<1>10. CASE PrepareFails
  BY <1>6, <1>7, <1>10 DEF PrepareFails
<1>11. CASE BeginHealthCheck
  <2>1. /\ call[Worker].stage = "done" /\ ctl[Worker] = "snapshot" /\ UNCHANGED dbVars
        /\ Go(Worker, "begin_health") /\ call' = [call EXCEPT ![Worker] = Invoked("health_check")]
    BY <1>11 DEF BeginHealthCheck, Back, At, Returned, Invoke
  <2>2. row.lc = "PREPARING"
    BY <1>2, <1>3, <2>1 DEF PathAt, DecisionInv, Fresh, FreshWorker, SaveOps, ResaveOps
  <2>3. PathAt(Invoked("health_check"), row, "begin_health")
    BY <2>2, NewCalls DEF PathAt, TransitionOps
  <2> QED
    BY <1>2, <2>1, <2>3, NewCalls, WorkerCleans
<1>12. CASE CheckBefore \/ RecordingHealthFails \/ Gate \/ RunTest \/ PublishPid
  <2>1. {"lab_fail", "start"} \subseteq FinishOps \cup TransitionOps
    BY DEF FinishOps, TransitionOps
  <2> QED
    BY <1>5, <1>12, <2>1 DEF CheckBefore, RecordingHealthFails, Gate, RunTest, PublishPid
<1>13. CASE \/ BlockAfterLabFail \/ BeginTests \/ InternalError \/ ResultRecorded
            \/ EndTests \/ CloseRunners \/ AfterLabFailedAgain
  BY <1>5, <1>13 DEF BlockAfterLabFail, BeginTests, InternalError, ResultRecorded, EndTests,
                     CloseRunners, AfterLabFailedAgain
<1>14. CASE CheckAfter \/ AfterRecorded \/ AfterLabFailed
  <2>1. "lab_fail" \in FinishOps
    BY DEF FinishOps
  <2> QED
    BY <1>5, <1>14, <2>1 DEF CheckAfter, AfterRecorded, AfterLabFailed
<1>15. CASE Decide
  <2>1. Decision \in FinishOps
    BY DEF Decision, FinishOps
  <2> QED
    BY <1>5, <1>6, <1>15, <2>1 DEF Decide
<1>16. CASE DecisionMade
  <2>1. CASE Raised(Worker)
    BY <1>5, <1>16, <2>1 DEF DecisionMade
  <2>2. CASE ~Raised(Worker)
    <3>1. call[Worker].op \in FinishOps /\ call[Worker].stage \in {"idle", "done"}
      BY <1>2, <1>16, <2>2
         DEF DecisionMade, Back, At, DecisionInv, Roles, Deciding, Raised, InFlight
    <3>2. IsTerminal
      BY <1>3, <3>1 DEF Progress, IsTerminal
    <3> QED
      BY <1>6, <1>16, <2>2, <3>2 DEF DecisionMade
  <2> QED
    BY <2>1, <2>2
<1>17. CASE HandleFinalizationError
  BY <1>6, <1>7, <1>17 DEF HandleFinalizationError
<1>18. CASE Exit
  <2>1. /\ ctl[Worker] \in {"prepare_failed", "crashing"} /\ UNCHANGED dbVars
        /\ Go(Worker, "gone") /\ call' = [call EXCEPT ![Worker] = Idle]
    BY <1>18 DEF Exit, Back, At
  <2>2. row.lc \in Terminal
    BY <1>2, <1>3, <2>1 DEF PathAt, InFlight
  <2>3. PathAt(Idle, row, "gone")
    BY <1>3, <2>2 DEF PathAt
  <2> QED
    BY <1>2, <2>1, <2>3, NewCalls, WorkerCleans
<1> QED
  BY <1>8, <1>9, <1>10, <1>11, <1>12, <1>13, <1>14, <1>15, <1>16, <1>17, <1>18 DEF WorkerStep

LEMMA LaunchCleanly == ASSUME SessionInv, Launch PROVE CleanPart'
<1> DEFINE k == Invoked("prepare")
<1>1. /\ row' = [NoRow EXCEPT !.lc = "QUEUED"]
      /\ events' = <<"RUN_CREATED", "ATTEMPT_CREATED">>
      /\ call'[Worker] = k /\ ctl'[Worker] = "preparing"
  BY ProcessTypes DEF Launch, CreateRun, Invoke, Go, SessionInv, OwnTypes, ServiceInv, ServiceTypeOK
<1>2. row'.lc = "QUEUED"
  BY <1>1 DEF NoRow
<1>3. NewCall(k) /\ k.op = "prepare"
  BY NewCalls DEF TransitionOps
<1> HIDE DEF k
<1>4. "prepare" \in TransitionOps /\ "prepare" \notin FinishOps
  BY DEF TransitionOps, FinishOps
<1>5. NoneYet'
  <2>1. \A op \in FinishOps : EventOf(op, NoRow) \notin {"RUN_CREATED", "ATTEMPT_CREATED"}
    BY DEF EventOf, FinishOps
  <2>2. \A i \in DOMAIN events' : events'[i] \in {"RUN_CREATED", "ATTEMPT_CREATED"}
    BY <1>1
  <2> QED
    BY <2>1, <2>2 DEF NoneYet, FinishEvents
<1>6. ~IsTerminal'
  BY <1>2 DEF IsTerminal, Terminal
<1>7. Books(call[Worker])'
  BY <1>1, <1>3, <1>4, <1>5, <1>6 DEF Books, ClosingCall
<1>8. Progress(k, row')
  BY <1>3, <1>4 DEF Progress, NewCall
<1>9. PathAt(k, row', "preparing")
  BY <1>2 DEF PathAt
<1> QED
  BY <1>1, <1>7, <1>8, <1>9 DEF CleanPart

-----------------------------------------------------------------------------
(* The repository calls of pytest.                                         *)

\* A call that goes on without touching the database, and is not closing.
LEMMA ReadsClean ==
  ASSUME SessionInv, CleanPart, UNCHANGED <<dbVars, ctl>>,
         ~ClosingCall(call[Worker]), ~ClosingCall(call'[Worker]),
         Progress(call'[Worker], row), PathAt(call'[Worker], row, ctl[Worker])
  PROVE  CleanPart'
<1>1. ctl' = ctl /\ row' = row /\ attempts' = attempts /\ events' = events
  BY DEF dbVars
<1>2. Books(call[Worker])'
  <2>1. FinishEvents' = FinishEvents
    BY DEF FinishEvents
  <2>2. /\ IsTerminal' = IsTerminal /\ (NoneYet => NoneYet')
        /\ (AllClosed => AllClosed') /\ (Once => Once')
    BY <1>1, <2>1 DEF IsTerminal, NoneYet, AllClosed, Once
  <2>3. ~ClosingCall(call[Worker])'
    BY <1>1 DEF ClosingCall
  <2> QED
    BY <2>2, <2>3 DEF CleanPart, Books
<1> QED
  BY <1>1, <1>2 DEF CleanPart

\* Where pytest may be with its call in flight.
LEMMA PathInFlight ==
  ASSUME SessionInv, DecisionInv, CleanPart, InFlight(Worker)
  PROVE  /\ row.lc # "ABSENT" /\ row.lc \in Active \cup Terminal
         /\ ctl[Worker] # "gone" /\ ctl[Worker] # "launched"
         /\ ctl[Worker] = "snapshot" =>
              call[Worker].op = "snapshot" /\ call[Worker].copy.lc = "PREPARING"
         /\ ctl[Worker] = "begin_health" =>
              /\ call[Worker].op = "health_check" /\ call[Worker].stage # "guard"
              /\ call[Worker].stage = "read" => row.lc = "PREPARING"
         /\ ctl[Worker] \in {"prepare_failed", "crashing"} =>
              \/ row.lc \in Terminal
              \/ /\ call[Worker].op \in {"lab_fail", "crash"}
                 /\ call[Worker].stage \in {"read", "update"} /\ row.lc \in Active
         /\ call[Worker] \in Calls /\ call[Worker].stage \in Track(call[Worker].op)
         /\ row.lc \in Terminal /\ call[Worker].op \in FinishOps => call[Worker].stage # "update"
<1>1. call[Worker] \in Calls /\ row.lc \in Lifecycle /\ Worker \in Processes
  BY ProcessTypes, CallTyped, RowTyped DEF Rows
<1>2. call[Worker].stage \in Track(call[Worker].op) /\ ~WorkerGone
  BY <1>1, InFlightRoles
<1>3. ctl[Worker] # "launched"
  BY DEF DecisionInv, Roles, Resting
<1> QED
  BY <1>1, <1>2, <1>3, FinishIsTerminal DEF CleanPart, PathAt, Progress, WorkerGone, At

\* The new call, when only its stage, its outcome and its copy change.
LEMMA NextCall ==
  ASSUME SessionInv, NEW k, call' = [call EXCEPT ![Worker] = k]
  PROVE  call'[Worker] = k
BY ProcessTypes DEF SessionInv, ServiceInv, ServiceTypeOK

LEMMA MoveCleanly ==
  ASSUME SessionInv, DecisionInv, CleanPart, UNCHANGED ctl,
         \/ DeriveFromRun(Worker) \/ DeriveFromAttempt(Worker) \/ StartGuard(Worker)
         \/ CancelCheck(Worker) \/ CancelListEvents(Worker) \/ HealthRead(Worker)
  PROVE  CleanPart'
<1> DEFINE k == call[Worker]
           next == call'[Worker]
<1>1. /\ InFlight(Worker) /\ UNCHANGED <<dbVars, ctl>>
      /\ k.stage \in {"derive", "derive_results", "guard", "check", "list_events", "read_health"}
  BY DEF DeriveFromRun, DeriveFromAttempt, StartGuard, CancelCheck, CancelListEvents,
         HealthRead, InFlight
<1>2. /\ k \in Calls /\ k.stage \in Track(k.op) /\ CallOK(k)
      /\ row.lc # "ABSENT" /\ ctl[Worker] \notin {"gone", "snapshot", "begin_health"}
      /\ ctl[Worker] \in {"prepare_failed", "crashing"} => row.lc \in Terminal
  BY <1>1, PathInFlight, ProcessTypes, CallTyped
     DEF Track, FinishOps, TransitionOps, ResaveOps
<1>3. PathAt(next, row, ctl[Worker])
  BY <1>2 DEF PathAt
<1>4. CASE DeriveFromRun(Worker) \/ DeriveFromAttempt(Worker)
  <2>1. next.op \in {"complete", "fail"} /\ next.stage \in {"derive_results", "read"}
    BY <1>2, <1>4, NextCall
       DEF DeriveFromRun, DeriveFromAttempt, Goto, Calls, CallOK, Deriving
  <2>2. ~ClosingCall(k) /\ ~ClosingCall(next) /\ Progress(next, row)
    BY <1>1, <2>1 DEF ClosingCall, Progress, TransitionOps
  <2> QED
    BY <1>1, <1>3, <2>2, ReadsClean
<1>5. CASE StartGuard(Worker)
  <2>1. next.op \in TransitionOps /\ next.stage \in {"read", "raised"}
    BY <1>2, <1>5, NextCall
       DEF StartGuard, Goto, Refuse, Calls, Track, FinishOps, TransitionOps, ResaveOps
  <2>2. ~ClosingCall(k) /\ ~ClosingCall(next) /\ Progress(next, row)
    BY <1>1, <2>1, FinishIsTerminal DEF ClosingCall, Progress
  <2> QED
    BY <1>1, <1>3, <2>2, ReadsClean
<1>6. CASE CancelCheck(Worker) \/ CancelListEvents(Worker) \/ HealthRead(Worker)
  <2>1. /\ next.op \in {"request_cancel", "health"}
        /\ next.stage \in {"raised", "list_events", "done", "event", "update"}
    <3>1. k.op \in {"request_cancel", "health"}
      BY <1>2, <1>6 DEF CancelCheck, CancelListEvents, HealthRead, Track, FinishOps,
                        TransitionOps, ResaveOps
    <3> QED
      BY <1>2, <1>6, <3>1, NextCall
         DEF CancelCheck, CancelListEvents, HealthRead, Goto, Refuse, Calls
  <2>2. ~ClosingCall(k) /\ ~ClosingCall(next) /\ Progress(next, row)
    BY <1>1, <2>1 DEF ClosingCall, Progress, FinishOps, TransitionOps
  <2> QED
    BY <1>1, <1>3, <2>2, ReadsClean
<1> QED
  BY <1>4, <1>5, <1>6

LEMMA ReadCleanly ==
  ASSUME SessionInv, DecisionInv, CleanPart, UNCHANGED ctl,
         FinishRead(Worker) \/ TransitionRead(Worker)
  PROVE  CleanPart'
<1> DEFINE k == call[Worker]
           next == call'[Worker]
<1>1. /\ InFlight(Worker) /\ UNCHANGED <<dbVars, ctl>> /\ k.stage = "read"
      /\ k \in Calls /\ row \in Rows /\ row.lc \in Lifecycle
  BY ProcessTypes, CallTyped, RowTyped DEF FinishRead, TransitionRead, InFlight, Rows
<1>2. /\ row.lc # "ABSENT" /\ ctl[Worker] \notin {"gone", "snapshot", "launched"}
      /\ ctl[Worker] = "begin_health" => k.op = "health_check" /\ row.lc = "PREPARING"
      /\ ctl[Worker] \in {"prepare_failed", "crashing"} =>
           row.lc \in Terminal \/ (k.op \in {"lab_fail", "crash"} /\ row.lc \in Active)
  BY <1>1, PathInFlight DEF Track, FinishOps, TransitionOps, ResaveOps
<1>3. next.op = k.op
  BY <1>1, NextCall DEF FinishRead, TransitionRead, Goto, Refuse, Calls
<1>4. CASE Target(k.op) \in Allowed(row.lc)
  <2>1. row.lc \in Active
    BY <1>1, <1>4, AllowedType
  <2>2. next.stage = "update" /\ (k.op \in TransitionOps => next.copy.lc = Target(k.op))
    <3>1. CASE FinishRead(Worker)
      BY <1>1, <1>4, <3>1, NextCall, FinishIsTerminal DEF FinishRead, Calls
    <3>2. CASE TransitionRead(Worker)
      <4> DEFINE n == [k EXCEPT !.stage = "update", !.copy = [row EXCEPT !.lc = Target(k.op)]]
      <4>1. next = n
        BY <1>4, <3>2, NextCall DEF TransitionRead
      <4> QED
        BY <1>1, <4>1 DEF Calls, Rows
    <3> QED
      BY <3>1, <3>2
  <2>3. ~ClosingCall(k) /\ ~ClosingCall(next) /\ Progress(next, row)
    BY <1>1, <1>3, <2>1, <2>2 DEF ClosingCall, Progress
  <2>4. PathAt(next, row, ctl[Worker])
    BY <1>2, <1>3, <2>1, <2>2 DEF PathAt
  <2> QED
    BY <1>1, <2>3, <2>4, ReadsClean
<1>5. CASE Target(k.op) \notin Allowed(row.lc)
  <2>1. next.stage = "raised"
    BY <1>1, <1>5, NextCall DEF FinishRead, TransitionRead, Goto, Refuse, Calls
  <2>2. ctl[Worker] # "begin_health"
    BY <1>2, <1>5 DEF Target, Allowed, FinishOps
  <2>3. ctl[Worker] \in {"prepare_failed", "crashing"} => row.lc \in Terminal
    BY <1>2, <1>5, FinishIsTerminal DEF Target
  <2>4. ~ClosingCall(k) /\ ~ClosingCall(next) /\ Progress(next, row)
    BY <1>1, <1>3, <2>1 DEF ClosingCall, Progress
  <2>5. PathAt(next, row, ctl[Worker])
    BY <1>2, <2>2, <2>3 DEF PathAt
  <2> QED
    BY <1>1, <2>4, <2>5, ReadsClean
<1> QED
  BY <1>4, <1>5

\* A write of the row that decides nothing.
LEMMA WritesClean ==
  ASSUME SessionInv, CleanPart, UNCHANGED <<attempts, events, ctl>>,
         IsTerminal' <=> IsTerminal,
         ~ClosingCall(call[Worker]), ~ClosingCall(call'[Worker]),
         Progress(call'[Worker], row'), PathAt(call'[Worker], row', ctl[Worker])
  PROVE  CleanPart'
<1>1. Books(call[Worker])'
  <2>1. FinishEvents' = FinishEvents
    BY DEF FinishEvents
  <2>2. (NoneYet => NoneYet') /\ (AllClosed => AllClosed') /\ (Once => Once')
    BY <2>1 DEF NoneYet, AllClosed, Once
  <2>3. ~ClosingCall(call[Worker])'
    BY DEF ClosingCall
  <2> QED
    BY <2>2, <2>3 DEF CleanPart, Books
<1> QED
  BY <1>1 DEF CleanPart

LEMMA UpdateCleanly ==
  ASSUME SessionInv, DecisionInv, CleanPart, UNCHANGED ctl,
         UpdateRun(Worker) \/ RestampStarted(Worker)
  PROVE  CleanPart'
<1> DEFINE k == call[Worker]
           next == call'[Worker]
<1>1. /\ Worker \in Processes /\ InFlight(Worker) /\ k.stage \in {"update", "restamp"}
      /\ k \in Calls /\ row \in Rows /\ k.stage \in Track(k.op) /\ ~WorkerGone
      /\ UNCHANGED <<attempts, events, ctl>>
  <2>1. /\ Worker \in Processes /\ InFlight(Worker) /\ k.stage \in {"update", "restamp"}
    BY ProcessTypes DEF UpdateRun, RestampStarted, InFlight
  <2> QED
    BY <2>1, CallTyped, RowTyped, InFlightRoles DEF UpdateRun, RestampStarted
<1>2. /\ row.lc \in Active \cup Terminal
      /\ ctl[Worker] \notin {"gone", "launched"}
      /\ ctl[Worker] = "snapshot" => k.op = "snapshot" /\ k.copy.lc = "PREPARING"
      /\ ctl[Worker] = "begin_health" => k.op = "health_check"
      /\ ctl[Worker] \in {"prepare_failed", "crashing"} =>
           row.lc \in Terminal \/ k.op \in {"lab_fail", "crash"}
      /\ Progress(k, row) /\ FreshWorker(k, row) /\ FinishingOf(k, row)
  BY <1>1, PathInFlight DEF CleanPart, DecisionInv, Fresh, Finishing
<1>3. CASE UpdateRun(Worker) /\ k.op \in FinishOps
  <2>1. /\ next.op = k.op /\ next.stage = "list" /\ row'.lc \in Terminal
    <3>1. next = [k EXCEPT !.stage = "list"] /\ row' = k.copy /\ k.stage = "update"
      BY <1>3, NextCall, FinishIsTerminal DEF UpdateRun, Goto
    <3> QED
      BY <1>1, <1>2, <1>3, <3>1, FinishIsTerminal DEF Calls, FinishingOf
  <2>2. ~IsTerminal /\ NoneYet
    BY <1>1, <1>2, <1>3, FinishIsTerminal DEF UpdateRun, Progress, IsTerminal, CleanPart, Books
  <2>3. NoneYet' /\ IsTerminal' /\ ClosingCall(next)
    <3>1. FinishEvents' = FinishEvents
      BY DEF FinishEvents
    <3> QED
      BY <1>1, <1>3, <2>1, <2>2, <3>1 DEF NoneYet, IsTerminal, ClosingCall
  <2>4. Books(call[Worker])'
    BY <2>1, <2>3 DEF Books, ClosingCall
  <2>5. Progress(next, row')
    BY <1>3, <2>1, FinishIsTerminal DEF Progress
  <2>6. PathAt(next, row', ctl[Worker])
    BY <1>2, <1>3, <2>1, FinishIsTerminal DEF PathAt, FinishOps
  <2> QED
    BY <1>1, <2>4, <2>5, <2>6 DEF CleanPart
<1>4. CASE UpdateRun(Worker) /\ k.op \notin FinishOps
  <2>1. /\ next.op = k.op /\ next.copy = k.copy /\ row' = k.copy
        /\ next.stage = IF k.op \in TransitionOps THEN "event" ELSE "done"
    <3>1. /\ next = [k EXCEPT !.stage = IF k.op \in TransitionOps THEN "event" ELSE "done"]
          /\ row' = k.copy
      BY <1>4, NextCall DEF UpdateRun, Goto
    <3> QED
      BY <1>1, <3>1 DEF Calls
  <2>2. IsTerminal' <=> IsTerminal
    BY <1>1, <1>2, <1>4, <2>1, FinishIsTerminal, LegalKeepsDecision
       DEF UpdateRun, FreshWorker, IsTerminal
  <2>3. row'.lc # "ABSENT"
    BY <1>2, <1>4, <2>1, LegalExists DEF UpdateRun, FreshWorker
  <2>4. ~ClosingCall(k) /\ ~ClosingCall(next)
    BY <1>4, <2>1 DEF ClosingCall
  <2>5. Progress(next, row')
    BY <1>2, <1>4, <2>1 DEF Progress, UpdateRun
  <2>6. PathAt(next, row', ctl[Worker])
    BY <1>2, <1>4, <2>1, <2>2, <2>3 DEF PathAt, IsTerminal, FinishOps
  <2> QED
    BY <1>1, <2>2, <2>4, <2>5, <2>6, WritesClean
<1>5. CASE RestampStarted(Worker)
  <2>1. k.op \in TransitionOps /\ k.stage = "restamp"
    BY <1>1, <1>5 DEF RestampStarted, Track, FinishOps, TransitionOps, ResaveOps
  <2>2. k.copy = row
    BY <1>2, <2>1 DEF FreshWorker, SaveOps
  <2>3. /\ next.op = k.op /\ next.stage = "event" /\ next.copy.lc = k.copy.lc
        /\ row'.lc = row.lc
    <3>1. /\ next = [k EXCEPT !.stage = "event", !.copy = [k.copy EXCEPT !.started = TRUE]]
          /\ row' = [k.copy EXCEPT !.started = TRUE]
      BY <1>5, NextCall DEF RestampStarted
    <3> QED
      BY <1>1, <2>2, <3>1 DEF Calls, Rows
  <2>4. IsTerminal' <=> IsTerminal
    BY <2>3 DEF IsTerminal
  <2>5. ~ClosingCall(k) /\ ~ClosingCall(next)
    BY <2>1, <2>3, FinishIsTerminal DEF ClosingCall
  <2>6. Progress(next, row')
    BY <1>2, <2>1, <2>3, FinishIsTerminal DEF Progress
  <2>7. PathAt(next, row', ctl[Worker])
    BY <1>2, <2>1, <2>3, FinishIsTerminal DEF PathAt, TransitionOps, FinishOps
  <2> QED
    BY <1>1, <2>4, <2>5, <2>6, <2>7, WritesClean
<1> QED
  BY <1>3, <1>4, <1>5

\* Attempts are closed one by one, then the terminal event is appended.
LEMMA CloseCleanly ==
  ASSUME SessionInv, DecisionInv, CleanPart, UNCHANGED ctl,
         ListOpenAttempts(Worker) \/ CloseAttempt(Worker)
  PROVE  CleanPart'
<1> DEFINE k == call[Worker]
           next == call'[Worker]
<1>1. /\ InFlight(Worker) /\ k.stage \in {"list", "close"} /\ UNCHANGED <<row, events, ctl>>
      /\ attempts \in Seq({"open", "closed"})
  BY DEF ListOpenAttempts, CloseAttempt, InFlight, dbVars, SessionInv, ServiceInv, ServiceTypeOK
<1>2. k \in Calls /\ k.stage \in Track(k.op)
  BY <1>1, PathInFlight
<1>3. k.op \in FinishOps
  BY <1>1, <1>2 DEF Track, FinishOps, TransitionOps, ResaveOps
<1>4. IsTerminal /\ NoneYet /\ (k.stage = "close" => k.todo = Open)
  BY <1>1, <1>3 DEF CleanPart, Books, ClosingCall
<1>5. IsTerminal' /\ NoneYet'
  <2>1. FinishEvents' = FinishEvents
    BY DEF FinishEvents
  <2> QED
    BY <1>1, <1>4, <2>1 DEF IsTerminal, NoneYet
<1>6. next.op = k.op /\ next.stage \in {"close", "event"}
  BY <1>2, NextCall DEF ListOpenAttempts, CloseAttempt, Calls
<1>7. (next.stage = "close" => next.todo = Open') /\ (next.stage = "event" => AllClosed')
  <2>1. CASE ListOpenAttempts(Worker)
    <3>1. /\ next.stage = IF Open = {} THEN "event" ELSE "close"
          /\ next.todo = Open /\ attempts' = attempts
      <4>1. /\ next = [k EXCEPT !.stage = IF Open = {} THEN "event" ELSE "close", !.todo = Open]
            /\ attempts' = attempts
        BY <2>1, NextCall DEF ListOpenAttempts, dbVars, Open
      <4> QED
        BY <1>2, <4>1 DEF Calls
    <3>2. Open' = Open /\ (Open = {} => AllClosed')
      BY <1>1, <3>1 DEF Open, AllClosed
    <3> QED
      BY <3>1, <3>2
  <2>2. CASE CloseAttempt(Worker)
    <3>1. PICK n \in k.todo :
            /\ attempts' = [attempts EXCEPT ![n] = "closed"]
            /\ call' = [call EXCEPT ![Worker] =
                 [@ EXCEPT !.stage = IF k.todo = {n} THEN "event" ELSE "close",
                           !.todo = k.todo \ {n}]]
      BY <2>2 DEF CloseAttempt
    <3>2. /\ next.stage = IF k.todo = {n} THEN "event" ELSE "close"
          /\ next.todo = k.todo \ {n}
      BY <1>2, <3>1, NextCall DEF Calls
    <3>3. k.todo = Open
      BY <1>4, <2>2 DEF CloseAttempt
    <3>4. DOMAIN attempts' = DOMAIN attempts /\ n \in DOMAIN attempts
          /\ attempts'[n] = "closed"
          /\ \A m \in DOMAIN attempts \ {n} : attempts'[m] = attempts[m]
      BY <1>1, <3>1, <3>3 DEF Open
    <3>5. Open' = Open \ {n}
      BY <3>4 DEF Open
    <3>6. ASSUME Open = {n} PROVE AllClosed'
      <4>1. \A m \in DOMAIN attempts : attempts[m] \in {"open", "closed"}
        BY <1>1
      <4> QED
        BY <3>4, <3>6, <4>1 DEF Open, AllClosed
    <3> QED
      BY <3>2, <3>3, <3>5, <3>6
  <2> QED
    BY <2>1, <2>2
<1>8. Books(call[Worker])'
  BY <1>3, <1>5, <1>6, <1>7 DEF Books, ClosingCall
<1>9. Progress(next, row') /\ PathAt(next, row', ctl[Worker])
  BY <1>1, <1>3, <1>4, <1>6, PathInFlight, FinishIsTerminal
     DEF Progress, PathAt, IsTerminal, FinishOps
<1> QED
  BY <1>1, <1>8, <1>9 DEF CleanPart

LEMMA LogCleanly ==
  ASSUME SessionInv, DecisionInv, CleanPart, UNCHANGED ctl,
         AppendEvent(Worker) \/ SaveResult(Worker)
  PROVE  CleanPart'
<1> DEFINE k == call[Worker]
           next == call'[Worker]
           event == EventOf(k.op, k.copy)
<1>1. /\ InFlight(Worker) /\ k.stage \in {"event", "save"} /\ UNCHANGED <<row, attempts, ctl>>
      /\ events \in Seq(EventTypes)
  BY DEF AppendEvent, SaveResult, InFlight, SessionInv, ServiceInv, ServiceTypeOK
<1>2. /\ k \in Calls /\ k.stage \in Track(k.op) /\ row.lc # "ABSENT"
      /\ ctl[Worker] \notin {"gone", "launched"}
      /\ ctl[Worker] = "begin_health" => k.op = "health_check"
      /\ ctl[Worker] = "snapshot" => k.op = "snapshot"
      /\ ctl[Worker] \in {"prepare_failed", "crashing"} => row.lc \in Terminal
  BY <1>1, PathInFlight
<1>3. /\ k.op \in FinishOps \cup TransitionOps \cup {"result", "request_cancel"}
      /\ ctl[Worker] # "snapshot"
  BY <1>1, <1>2 DEF Track, FinishOps, TransitionOps, ResaveOps
<1>4. (IsTerminal' <=> IsTerminal) /\ (AllClosed => AllClosed')
  BY <1>1 DEF IsTerminal, AllClosed
<1>5. CASE AppendEvent(Worker)
  <2>1. /\ next.op = k.op /\ next.copy = k.copy /\ k.stage = "event"
        /\ next.stage \in {"restamp", "done"} /\ (k.op # "start" => next.stage = "done")
        /\ events' = Append(events, event)
    <3>1. /\ next = [k EXCEPT !.stage = IF k.op = "start" /\ ~k.copy.started
                                       THEN "restamp" ELSE "done"]
          /\ events' = Append(events, event) /\ k.stage = "event"
      BY <1>5, NextCall DEF AppendEvent, Goto
    <3> QED
      BY <1>2, <3>1 DEF Calls
  <2>2. ~ClosingCall(next)
    BY <2>1 DEF ClosingCall
  <2>3. Progress(next, row') /\ PathAt(next, row', ctl[Worker])
    <3>1. k.op \in FinishOps => row.lc \in Terminal
      BY <2>1 DEF CleanPart, Books, ClosingCall, IsTerminal
    <3>2. Progress(k, row) /\ k.stage \notin {"done", "failed", "update"}
      BY <2>1 DEF CleanPart
    <3>3. Progress(next, row)
      BY <2>1, <3>1, <3>2 DEF Progress
    <3>4. PathAt(next, row, ctl[Worker])
      BY <1>2, <1>3, <2>1 DEF PathAt
    <3> QED
      BY <1>1, <3>3, <3>4
  <2>4. CASE k.op \in FinishOps
    <3>1. IsTerminal /\ NoneYet /\ AllClosed
      BY <2>1, <2>4 DEF CleanPart, Books, ClosingCall
    <3>2. event \in FinishEvents
      BY <2>4, EventsDistinct DEF FinishEvents
    <3> HIDE DEF event
    <3>3. Books(call[Worker])'
      BY <1>1, <1>4, <2>1, <2>2, <3>1, <3>2, BooksAppend DEF Books, ClosingCall
    <3> QED
      BY <1>1, <2>3, <3>3 DEF CleanPart
  <2>5. CASE k.op \notin FinishOps
    <3>1. event \notin FinishEvents
      BY <1>3, <2>5, EventsDistinct
    <3> HIDE DEF event
    <3>2. ~ClosingCall(k)
      BY <2>5 DEF ClosingCall
    <3>3. Books(call[Worker])'
      BY <1>1, <1>4, <2>1, <2>2, <3>1, <3>2, BooksAppend DEF CleanPart, Books, ClosingCall
    <3> QED
      BY <1>1, <2>3, <3>3 DEF CleanPart
  <2> QED
    BY <2>4, <2>5
<1>6. CASE SaveResult(Worker)
  <2>1. k.op = "result"
    BY <1>2, <1>6 DEF SaveResult, Track, FinishOps, TransitionOps, ResaveOps
  <2>2. next.op = "result" /\ next.stage \in {"event", "raised"} /\ UNCHANGED events
    BY <1>2, <1>6, <2>1, NextCall DEF SaveResult, Goto, Refuse, Calls
  <2>3. ~ClosingCall(k) /\ ~ClosingCall(next) /\ Progress(next, row')
    BY <2>1, <2>2 DEF ClosingCall, Progress, FinishOps, TransitionOps
  <2>4. PathAt(next, row', ctl[Worker])
    BY <1>1, <1>2, <1>3, <2>1 DEF PathAt
  <2> QED
    BY <1>1, <1>4, <2>2, <2>3, <2>4, WritesClean
<1> QED
  BY <1>5, <1>6

LEMMA ServeCleanly ==
  ASSUME SessionInv, DecisionInv, CleanPart, Serve(Worker) PROVE CleanPart'
BY MoveCleanly, ReadCleanly, UpdateCleanly, CloseCleanly, LogCleanly DEF Serve, ServiceStep

-----------------------------------------------------------------------------

\* CleanInv holds in every reachable state.
LEMMA CleanKept ==
  ASSUME SessionInv, DecisionInv, CleanInv, [Next]_vars PROVE CleanInv'
<1>1. Unborn' /\ Asked'
  BY AskedKept
<1>2. CASE Launch
  BY <1>1, <1>2, LaunchCleanly DEF CleanInv, CleanPart
<1>3. ASSUME ~Launch, Clean' PROVE CleanPart'
  <2>1. /\ CleanPart /\ faults = 0 /\ faults' = faults /\ ~CancelRequested
        /\ ~(CrashWorker \/ DashboardRestart)
        /\ ~\E c \in Processes : ServiceFault(c)
        /\ ~\E h \in Handlers : KillFails(h)
    BY <1>3, CleanBefore DEF CleanInv, CleanPart, Clean
  <2>2. /\ Worker \in Processes /\ Handlers \subseteq Processes /\ Worker \notin Handlers
        /\ Processes = Handlers \cup {Worker, Recovery}
        /\ call \in [Processes -> Calls] /\ call[Recovery] = Idle
        /\ ctl \in [Handlers \cup {Worker} -> WorkerPoints \cup HandlerPoints]
    BY ProcessTypes, ProcessesAssumption
       DEF SessionInv, OwnTypes, ServiceInv, ServiceTypeOK, DecisionInv, Roles
  <2>3. ASSUME UNCHANGED dbVars, call'[Worker] = call[Worker], ctl'[Worker] = ctl[Worker]
        PROVE  CleanPart'
    <3>1. FinishEvents' = FinishEvents
      BY DEF FinishEvents
    <3> QED
      BY <2>1, <2>3, <3>1 DEF CleanPart, Books, IsTerminal, NoneYet, Once, Open, AllClosed,
                              ClosingCall, dbVars
  <2>4. CASE WorkerStep
    BY <1>3, <2>1, <2>4, WorkerCleanly
  <2>5. CASE \E h \in Handlers : HandlerAction(h)
    <3>1. PICK h \in Handlers : HandlerAction(h)
      BY <2>5
    <3>2. ~Kill(h)
      BY <2>1 DEF Kill, At, CleanInv, Asked
    <3>3. UNCHANGED dbVars
      BY <3>1, HandlerFrames DEF HandlerFrame, SessionInv
    <3>4. call'[Worker] = call[Worker] /\ ctl'[Worker] = ctl[Worker]
      BY <2>1, <2>2, <3>1, <3>2 DEF HandlerAction, HandlerStep, ReceiveCancel, Validate,
         IntentStored, Signal, CancelUnstopped, RecheckUnstopped, CancelStopped, Settle, Reply,
         Answer, Invoke, Go
    <3> QED
      BY <2>3, <3>3, <3>4
  <2>6. ASSUME NEW c \in Processes, Serve(c) PROVE CleanPart'
    <3>1. CASE c = Worker
      BY <2>1, <2>6, <3>1, ServeCleanly
    <3>2. CASE c \in Handlers
      <4>1. call[c].op = "request_cancel"
        BY <2>1, <2>6, <3>2, HandlerServed DEF CleanInv, Asked
      <4>2. UNCHANGED <<dbVars, ctl>> /\ call'[Worker] = call[Worker]
        BY <1>3, <2>2, <2>6, <3>2, <4>1, HandlerServed DEF Clean
      <4> QED
        BY <2>3, <4>2
    <3>3. CASE c = Recovery
      BY <2>2, <2>6, <3>3, ServeInFlight DEF InFlight, Idle
    <3> QED
      BY <2>2, <3>1, <3>2, <3>3
  <2>7. CASE Recover \/ LingerEnds \/ Reap \/ UNCHANGED vars
    BY <2>3, <2>7, NeverOrphaned DEF Recover, LingerEnds, Reap, vars, dbVars
  <2> QED
    BY <2>1, <2>4, <2>5, <2>6, <2>7 DEF Next, HandlerAction
<1> QED
  BY <1>1, <1>2, <1>3 DEF CleanInv, CleanPart

\* pytest that ends by itself, with no failed call and nobody cancelling, leaves
\* a decided Run, its Attempts closed and one terminal event in the log, whatever
\* the lab, the tests and the finalization do (_finalize_run_session and its
\* exception handler).
THEOREM CleanExitsSettle == Spec => []CleanExitSettles
<1>1. Init => CleanInv
  <2> SUFFICES ASSUME Init PROVE CleanInv
    OBVIOUS
  <2>1. /\ row.lc = "ABSENT" /\ events = <<>>
        /\ \A c \in Processes : call[c] = Idle
        /\ ctl[Worker] = "launched" /\ \A h \in Handlers : ctl[h] = "waiting"
    BY ProcessesAssumption DEF Init, ServiceInit, NoRow
  <2>2. /\ Worker \in Processes /\ Handlers \subseteq Processes
        /\ Idle.op = "none" /\ Idle.stage = "idle" /\ "none" \notin FinishOps \cup TransitionOps
    BY ProcessTypes DEF Idle, FinishOps, TransitionOps
  <2>3. Books(Idle) /\ Progress(Idle, row) /\ PathAt(Idle, row, "launched")
    BY <2>1, <2>2, FinishIsTerminal
       DEF Books, Progress, PathAt, NoneYet, IsTerminal, ClosingCall
  <2> QED
    BY <2>1, <2>2, <2>3 DEF CleanInv, Unborn, Asked
<1>2. DecisionInv /\ CleanInv => CleanExitSettles
  <2> SUFFICES ASSUME DecisionInv, CleanInv, At(Worker, "gone"), faults = 0, crashes = 0,
                      ~CancelRequested
               PROVE  /\ IsTerminal
                      /\ \A n \in DOMAIN attempts : attempts[n] = "closed"
                      /\ Cardinality({i \in DOMAIN events : events[i] \in FinishEvents}) = 1
    BY DEF CleanExitSettles
  <2>1. Books(call[Worker]) /\ Progress(call[Worker], row) /\ IsTerminal
    BY DEF CleanInv, Clean, PathAt, At, IsTerminal
  <2>2. ~ClosingCall(call[Worker])
    BY DEF DecisionInv, Roles, Resting, At, InFlight, ClosingCall
  <2>3. AllClosed /\ Once
    BY <2>1, <2>2 DEF Books
  <2>4. PICK i \in DOMAIN events :
          \A j \in DOMAIN events : events[j] \in FinishEvents <=> j = i
    BY <2>3 DEF Once
  <2>5. {j \in DOMAIN events : events[j] \in FinishEvents} = {i}
    BY <2>4
  <2> QED
    BY <2>1, <2>3, <2>5, FS_Singleton DEF AllClosed
<1> QED
  BY <1>1, <1>2, CleanKept, SessionInvariance, DecisionInvariance, PTL DEF Spec

=============================================================================
