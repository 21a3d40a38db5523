---------------------------- MODULE ApiRequests ----------------------------
(***************************************************************************)
(* State-changing requests of the dashboard (dashboard/api_v1.py) and the  *)
(* store of their answers (IdempotencyStore, lib/services/api_security.py).*)
(*                                                                         *)
(* Every handler looks its Idempotency-Key up, acts, and stores its answer *)
(* under the key: three transactions, with any other request in between.   *)
(* The act is one step here but for the launch and the retry of a Run,     *)
(* which start pytest and then write its ownership record (run_process.py).*)
(***************************************************************************)
EXTENDS Naturals, FiniteSets

CONSTANTS Deliveries,  \* requests, each delivered once
          Slots,       \* pairs of a scope (endpoint and target) and a key
          Launches,    \* the slots of POST /runs and POST /runs/<id>/retry
          Payloads,    \* request bodies, told apart by their SHA-256
          None,        \* no delivery, slot or payload
          Threads,     \* requests the server handles at a time
          MaxRestarts  \* bound: restarts of the dashboard

ASSUME SlotsAssumption == Launches \subseteq Slots
ASSUME NoneAssumption == None \notin Deliveries \cup Slots \cup Payloads
ASSUME NumbersAssumption == Threads \in Nat /\ MaxRestarts \in Nat

VARIABLES pc, slot, payload,  \* the handler of each delivery and what it was asked
          acted,    \* it took effect: launched, flashed, promoted, waived
          answer,   \* the delivery whose effect its 2xx answer names
          known,    \* effects of its slot that were answered before it looked up
          row,      \* table api_idempotency
          lapsed,   \* slots whose row has expired
          group, manifest, reaper,  \* the process group a launch started
          restarts

reqVars == <<slot, payload, acted, answer, known>>
rowVars == <<row, lapsed>>
procVars == <<group, manifest, reaper>>
vars == <<pc, reqVars, rowVars, procVars, restarts>>

InFlight == {"lookup", "act", "own", "watch", "store", "reread"}
Answered == {"ok", "refused", "error", "lost"}
Absent == [state |-> "absent", payload |-> None, effect |-> None]
Rows == {Absent} \cup [state: {"live", "expired"}, payload: Payloads, effect: Deliveries]

Init ==
  /\ pc = [r \in Deliveries |-> "new"]
  /\ slot = [r \in Deliveries |-> None]
  /\ payload = [r \in Deliveries |-> None]
  /\ acted = [r \in Deliveries |-> FALSE]
  /\ answer = [r \in Deliveries |-> None]
  /\ known = [r \in Deliveries |-> {}]
  /\ row = [s \in Slots |-> Absent]
  /\ lapsed = {}
  /\ group = [r \in Deliveries |-> "none"]
  /\ manifest = [r \in Deliveries |-> FALSE]
  /\ reaper = [r \in Deliveries |-> FALSE]
  /\ restarts = 0

Goto(r, point) == pc' = [pc EXCEPT ![r] = point]
Row(r) == row[slot[r]]

-----------------------------------------------------------------------------
(* A request comes in and looks its key up.                                *)

\* By a user who may make it, with a well-formed key: other requests are
\* answered before they touch anything.  A retry is of a terminal Run.
Receive(r) ==
  /\ pc[r] = "new"
  /\ Cardinality({q \in Deliveries : pc[q] \in InFlight}) < Threads
  /\ \E s \in Slots, p \in Payloads :
       /\ slot' = [slot EXCEPT ![r] = s]
       /\ payload' = [payload EXCEPT ![r] = p]
  /\ Goto(r, "lookup")
  /\ UNCHANGED <<acted, answer, known, rowVars, procVars, restarts>>

\* Mutant: the request hash is not compared.
Conflicts_Unchecked(r) == FALSE

\* IdempotencyStore.get: the key belongs to a different request ...
Conflicts(r) == Row(r).state = "live" /\ Row(r).payload # payload[r]

\* ... or to this one.  The DELETE of expired rows hides them from the SELECT
\* that follows, and is rolled back when the connection closes.
Found(r) == Row(r).state = "live" /\ ~Conflicts(r)

LookupConflicts(r) ==
  /\ pc[r] = "lookup"
  /\ Conflicts(r)
  /\ Goto(r, "refused")
  /\ UNCHANGED <<reqVars, rowVars, procVars, restarts>>

Replay(r) ==
  /\ pc[r] = "lookup"
  /\ Found(r)
  /\ answer' = [answer EXCEPT ![r] = Row(r).effect]
  /\ Goto(r, "ok")
  /\ UNCHANGED <<slot, payload, acted, known, rowVars, procVars, restarts>>

AnsweredEffects(s) == {answer[q] : q \in {q \in Deliveries : pc[q] = "ok" /\ slot[q] = s}}

\* Mutant: the handler acts first.
Miss_Blind(r) ==
  /\ pc[r] = "lookup"
  /\ known' = [known EXCEPT ![r] = AnsweredEffects(slot[r])]
  /\ Goto(r, "act")
  /\ UNCHANGED <<slot, payload, acted, answer, rowVars, procVars, restarts>>

Miss(r) ==
  /\ pc[r] = "lookup"
  /\ ~Found(r) /\ ~Conflicts(r)
  /\ known' = [known EXCEPT ![r] = AnsweredEffects(slot[r])]
  /\ Goto(r, "act")
  /\ UNCHANGED <<slot, payload, acted, answer, rowVars, procVars, restarts>>

-----------------------------------------------------------------------------
(* The act.                                                                *)

\* Firmware operation, rollback, baseline promotion or waiver.
Perform(r) ==
  /\ pc[r] = "act" /\ slot[r] \notin Launches
  /\ acted' = [acted EXCEPT ![r] = TRUE]
  /\ Goto(r, "store")
  /\ UNCHANGED <<slot, payload, answer, known, rowVars, procVars, restarts>>

\* It raises, before or after it changed anything: 400 or 500, not stored.
PerformRaises(r) ==
  /\ pc[r] = "act" /\ slot[r] \notin Launches
  /\ acted' = [acted EXCEPT ![r] = TRUE] \/ UNCHANGED acted
  /\ Goto(r, "refused") \/ Goto(r, "error")
  /\ UNCHANGED <<slot, payload, answer, known, rowVars, procVars, restarts>>

\* Popen with start_new_session: the group survives the dashboard.
Spawn(r) ==
  /\ pc[r] = "act" /\ slot[r] \in Launches
  /\ acted' = [acted EXCEPT ![r] = TRUE]
  /\ group' = [group EXCEPT ![r] = "live"]
  /\ Goto(r, "own")
  /\ UNCHANGED <<slot, payload, answer, known, rowVars, manifest, reaper, restarts>>

WriteManifest(r) ==
  /\ pc[r] = "own"
  /\ manifest' = [manifest EXCEPT ![r] = TRUE]
  /\ Goto(r, "watch")
  /\ UNCHANGED <<reqVars, rowVars, group, reaper, restarts>>

StartReaper(r) ==
  /\ pc[r] = "watch"
  /\ reaper' = [reaper EXCEPT ![r] = TRUE]
  /\ Goto(r, "store")
  /\ UNCHANGED <<reqVars, rowVars, group, manifest, restarts>>

\* Mutant: the exception is raised without stopping the child.
Killed_Left(r) == group

\* killpg and wait ...
Killed(r) == [group EXCEPT ![r] = "gone"]

\* ... when /proc, the ownership record or the thread fails.
StartFails(r) ==
  /\ pc[r] \in {"own", "watch"}
  /\ group' = Killed(r)
  /\ manifest' = [manifest EXCEPT ![r] = FALSE]
  /\ acted' = [acted EXCEPT ![r] = FALSE]
  /\ Goto(r, "error")
  /\ UNCHANGED <<slot, payload, answer, known, rowVars, reaper, restarts>>

-----------------------------------------------------------------------------
(* IdempotencyStore.put.                                                   *)

\* Mutant: INSERT OR REPLACE.
Stored_Replace(r) == [state |-> "live", payload |-> payload[r], effect |-> r]

\* Mutant: the answer is stored without the hash of its request.
Stored_Unhashed(r) ==
  IF Row(r).state = "absent" THEN [state |-> "live", payload |-> None, effect |-> r] ELSE Row(r)

\* INSERT OR IGNORE: also an expired row keeps its place.
Stored(r) ==
  IF Row(r).state = "absent"
  THEN [state |-> "live", payload |-> payload[r], effect |-> r]
  ELSE Row(r)

Insert(r) ==
  /\ pc[r] = "store"
  /\ row' = [row EXCEPT ![slot[r]] = Stored(r)]
  /\ Goto(r, "reread")
  /\ UNCHANGED <<reqVars, lapsed, procVars, restarts>>

\* The handler answers with its own response, whatever put returns.
Accept(r) ==
  /\ pc[r] = "reread"
  /\ Found(r)
  /\ answer' = [answer EXCEPT ![r] = r]
  /\ Goto(r, "ok")
  /\ UNCHANGED <<slot, payload, acted, known, rowVars, procVars, restarts>>

\* put raises, because another request took the key meanwhile or because its
\* own row is not there: nobody handles it.
PutRaises(r) ==
  /\ pc[r] = "reread"
  /\ ~Found(r)
  /\ Goto(r, "error")
  /\ UNCHANGED <<reqVars, rowVars, procVars, restarts>>

-----------------------------------------------------------------------------
(* Time, processes and restarts.                                           *)

\* An hour passes, and not between the two statements of a put.
Expire(s) ==
  /\ row[s].state = "live"
  /\ \A r \in Deliveries : slot[r] = s => pc[r] # "reread"
  /\ row' = [row EXCEPT ![s].state = "expired"]
  /\ lapsed' = lapsed \cup {s}
  /\ UNCHANGED <<pc, reqVars, procVars, restarts>>

Exit(r) ==
  /\ group[r] = "live"
  /\ group' = [group EXCEPT ![r] = "gone"]
  /\ UNCHANGED <<pc, reqVars, rowVars, manifest, reaper, restarts>>

GroupGone(r) == group[r] = "gone"

\* _reap_when_finished, which dies with the dashboard.
Reap(r) ==
  /\ reaper[r] /\ manifest[r] /\ GroupGone(r)
  /\ manifest' = [manifest EXCEPT ![r] = FALSE]
  /\ reaper' = [reaper EXCEPT ![r] = FALSE]
  /\ UNCHANGED <<pc, reqVars, rowVars, group, restarts>>

\* ... or stops waiting when a child outlives pytest by five seconds.
GiveUp(r) ==
  /\ reaper[r] /\ ~GroupGone(r)
  /\ reaper' = [reaper EXCEPT ![r] = FALSE]
  /\ UNCHANGED <<pc, reqVars, rowVars, group, manifest, restarts>>

Restart ==
  /\ restarts < MaxRestarts
  /\ restarts' = restarts + 1
  /\ pc' = [r \in Deliveries |-> IF pc[r] \in InFlight THEN "lost" ELSE pc[r]]
  /\ reaper' = [r \in Deliveries |-> FALSE]
  /\ UNCHANGED <<reqVars, rowVars, group, manifest>>

Handle(r) ==
  \/ LookupConflicts(r) \/ Replay(r) \/ Miss(r) \/ Perform(r) \/ PerformRaises(r)
  \/ Spawn(r) \/ WriteManifest(r) \/ StartReaper(r) \/ StartFails(r)
  \/ Insert(r) \/ Accept(r) \/ PutRaises(r)

Next ==
  \/ \E r \in Deliveries : Receive(r) \/ Handle(r) \/ Exit(r) \/ Reap(r) \/ GiveUp(r)
  \/ \E s \in Slots : Expire(s)
  \/ Restart

Spec == Init /\ [][Next]_vars

-----------------------------------------------------------------------------
(* Properties.                                                             *)

\* Every variable has its type; a row has the hash of its request.
TypeOK ==
  /\ pc \in [Deliveries -> {"new"} \cup InFlight \cup Answered]
  /\ slot \in [Deliveries -> Slots \cup {None}]
  /\ payload \in [Deliveries -> Payloads \cup {None}]
  /\ acted \in [Deliveries -> BOOLEAN]
  /\ answer \in [Deliveries -> Deliveries \cup {None}]
  /\ known \in [Deliveries -> SUBSET (Deliveries \cup {None})]
  /\ row \in [Slots -> Rows]
  /\ lapsed \subseteq Slots
  /\ group \in [Deliveries -> {"none", "live", "gone"}]
  /\ manifest \in [Deliveries -> BOOLEAN]
  /\ reaper \in [Deliveries -> BOOLEAN]
  /\ restarts \in 0..MaxRestarts

\* A 2xx answer, replayed or not, names an effect that took place for the same
\* key and the same request: nobody is told of a launch he did not ask for.
AnswersAreOfTheRequest ==
  \A r \in Deliveries : pc[r] = "ok" =>
    \E e \in Deliveries :
      answer[r] = e /\ acted[e] /\ slot[e] = slot[r] /\ payload[e] = payload[r]

\* A request that looked its key up after an answer under this key was given
\* has no effect of its own, until the record has expired: what is left of
\* double effects are requests that overlap, crash, or end in an error.
RepeatsDoNotAct ==
  \A r \in Deliveries : acted[r] /\ slot[r] \notin lapsed => known[r] = {}

\* A live pytest group has its ownership record, so that it can be cancelled,
\* also when its launch was answered with an error.  The exception is a
\* dashboard that dies between the start of the group and its record.
LiveGroupsAreOwned ==
  \A r \in Deliveries : group[r] = "live" => manifest[r] \/ pc[r] \in {"own", "lost"}

\* A stored answer is what every later request gets until it expires, whatever
\* overlapping requests with the same key store.
StoredAnswersAreKept ==
  [][\A s \in Slots : row[s].state = "live" =>
       row'[s] = row[s] \/ row'[s] = [row[s] EXCEPT !.state = "expired"]]_vars

\* docs/02: "Repeated CI delivery of the same request must not create duplicate
\* Runs", but for those an expiry of the record lets through.  (Once it has
\* expired, every delivery launches: the code never replaces the row.)
NoDuplicateRuns ==
  \A s \in Launches, p \in Payloads :
    Cardinality({r \in Deliveries : acted[r] /\ slot[r] = s /\ payload[r] = p})
      <= IF s \in lapsed THEN 2 ELSE 1
=============================================================================
