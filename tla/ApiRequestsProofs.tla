------------------------- MODULE ApiRequestsProofs -------------------------
(***************************************************************************)
(* Proofs for ApiRequests: its inductive invariant IInv and the properties *)
(* that follow from it, for any number of requests, keys, bodies, threads  *)
(* and restarts.                                                           *)
(***************************************************************************)
EXTENDS ApiRequests, TLAPS

USE SlotsAssumption, NoneAssumption, NumbersAssumption

\* The points a delivery whose effect is stored can be at: nothing takes its
\* effect back there, and it keeps its slot and its request.
Settled == {"reread", "ok", "error", "lost"}

\* Delivery e took effect, for good, on slot s and for the request p.
Effect(e, s, p) ==
  e \in Deliveries /\ acted[e] /\ slot[e] = s /\ payload[e] = p /\ pc[e] \in Settled

\* A row tells of an effect that took place for its key and its request.
RowsTrue ==
  \A s \in Slots : row[s].state # "absent" => Effect(row[s].effect, s, row[s].payload)

\* So does an answer, and the row it came from is still there.
AnswersTrue ==
  \A r \in Deliveries : pc[r] = "ok" =>
    /\ Effect(answer[r], slot[r], payload[r])
    /\ row[slot[r]].state # "absent"

\* Each handler acts before it stores, on a slot and a request it has.
HandlersInOrder ==
  \A r \in Deliveries :
    /\ pc[r] # "new" => slot[r] \in Slots /\ payload[r] \in Payloads
    /\ pc[r] \in {"own", "watch", "store", "reread"} => acted[r]
    /\ pc[r] = "new" => known[r] = {}

\* Who misses an answered record misses it because it has expired.
MissesExpired ==
  /\ \A s \in Slots : row[s].state = "expired" => s \in lapsed
  /\ \A r \in Deliveries : known[r] = {} \/ slot[r] \in lapsed

IInv ==
  TypeOK /\ RowsTrue /\ AnswersTrue /\ HandlersInOrder /\ MissesExpired /\ LiveGroupsAreOwned

-----------------------------------------------------------------------------

LEMMA InitIInv == Init => IInv
BY DEF Init, IInv, TypeOK, RowsTrue, AnswersTrue, HandlersInOrder, MissesExpired,
       LiveGroupsAreOwned, Rows, Absent, InFlight, Answered

\* A step of the handler of r that leaves rows, slots and requests alone keeps
\* every effect, if it takes none back.
LEMMA EffectsKept ==
  ASSUME IInv, NEW r \in Deliveries, NEW point \in InFlight \cup Answered, Goto(r, point),
         UNCHANGED <<slot, payload>>, acted' \in [Deliveries -> BOOLEAN],
         \A e \in Deliveries \ {r} : acted'[e] = acted[e],
         pc[r] \in Settled => acted'[r] = acted[r] /\ point \in Settled
  PROVE  \A e, s, p : Effect(e, s, p) => Effect(e, s, p)'
BY DEF IInv, TypeOK, Goto, Effect

\* What such a step has to show.
LEMMA HandlerStep ==
  ASSUME IInv, NEW r \in Deliveries, NEW point \in InFlight \cup Answered, Goto(r, point),
         UNCHANGED <<slot, payload, rowVars, restarts>>,
         acted' \in [Deliveries -> BOOLEAN],
         \A e \in Deliveries \ {r} : acted'[e] = acted[e],
         pc[r] # "new", pc[r] # "ok",
         pc[r] \in Settled => acted'[r] = acted[r] /\ point \in Settled,
         point \in {"own", "watch", "store", "reread"} => acted'[r],
         answer' \in [Deliveries -> Deliveries \cup {None}],
         \A q \in Deliveries \ {r} : answer'[q] = answer[q],
         point = "ok" => Effect(answer[r], slot[r], payload[r])' /\ Row(r).state # "absent",
         known' \in [Deliveries -> SUBSET (Deliveries \cup {None})],
         \A q \in Deliveries \ {r} : known'[q] = known[q],
         known'[r] # {} => slot[r] \in lapsed,
         group' \in [Deliveries -> {"none", "live", "gone"}],
         manifest' \in [Deliveries -> BOOLEAN],
         reaper' \in [Deliveries -> BOOLEAN],
         LiveGroupsAreOwned'
  PROVE  IInv'
<1> USE DEF IInv, Goto
<1>1. TypeOK'
  BY DEF TypeOK, rowVars
<1>2. \A e, s, p : Effect(e, s, p) => Effect(e, s, p)'
  BY EffectsKept
<1>3. RowsTrue'
  BY <1>2 DEF RowsTrue, rowVars
<1>4. ASSUME NEW q \in Deliveries, (pc[q] = "ok")'
      PROVE  Effect(answer[q], slot[q], payload[q])' /\ (row[slot[q]].state # "absent")'
  <2>1. CASE q = r
    BY <1>4, <2>1 DEF TypeOK, rowVars, Row
  <2>2. CASE q # r
    <3>1. pc[q] = "ok" /\ answer'[q] = answer[q]
      BY <1>4, <2>2 DEF TypeOK
    <3>2. Effect(answer[q], slot[q], payload[q]) /\ row[slot[q]].state # "absent"
      BY <3>1 DEF AnswersTrue
    <3>3. Effect(answer[q], slot[q], payload[q])'
      BY <1>2, <3>1, <3>2
    <3> QED
      BY <3>2, <3>3 DEF rowVars
  <2> QED
    BY <2>1, <2>2
<1>5. HandlersInOrder'
  BY DEF HandlersInOrder, TypeOK, InFlight, Answered
<1>6. MissesExpired'
  BY DEF MissesExpired, TypeOK, rowVars
<1>7. AnswersTrue'
  BY <1>4 DEF AnswersTrue
<1> QED
  BY <1>1, <1>3, <1>5, <1>6, <1>7

-----------------------------------------------------------------------------
(* The steps of a request.                                                 *)

LEMMA ReceiveStep == ASSUME IInv, NEW r \in Deliveries, Receive(r) PROVE IInv'
<1> USE DEF IInv, Receive, Goto
<1>1. PICK s \in Slots, p \in Payloads : slot' = [slot EXCEPT ![r] = s]
                                          /\ payload' = [payload EXCEPT ![r] = p]
  OBVIOUS
<1>2. TypeOK'
  BY <1>1 DEF TypeOK, rowVars, procVars, InFlight
<1>3. \A e, t, q : Effect(e, t, q) => Effect(e, t, q)'
  BY <1>1 DEF Effect, TypeOK, Settled
<1>4. RowsTrue'
  BY <1>3 DEF RowsTrue, rowVars
<1>5. AnswersTrue'
  BY <1>1, <1>3 DEF AnswersTrue, TypeOK, rowVars
<1>6. HandlersInOrder'
  BY <1>1 DEF HandlersInOrder, TypeOK
<1>7. MissesExpired'
  BY <1>1 DEF MissesExpired, HandlersInOrder, TypeOK, rowVars
<1>8. LiveGroupsAreOwned'
  BY DEF LiveGroupsAreOwned, TypeOK, procVars
<1> QED
  BY <1>2, <1>4, <1>5, <1>6, <1>7, <1>8

LEMMA LookupStep ==
  ASSUME IInv, NEW r \in Deliveries, LookupConflicts(r) \/ Replay(r) \/ Miss(r) PROVE IInv'
<1> USE DEF IInv, Goto, Settled, InFlight, Answered
<1>1. pc[r] = "lookup" /\ slot[r] \in Slots
  BY DEF LookupConflicts, Replay, Miss, HandlersInOrder
<1>2. LiveGroupsAreOwned'
  BY <1>1 DEF LiveGroupsAreOwned, TypeOK, procVars, LookupConflicts, Replay, Miss
<1>3. CASE LookupConflicts(r)
  <2>1. known[r] # {} => slot[r] \in lapsed
    BY DEF MissesExpired
  <2> QED
    BY <1>1, <1>2, <1>3, <2>1, HandlerStep
    DEF LookupConflicts, reqVars, procVars, TypeOK
<1>4. CASE Replay(r)
  <2>1. Row(r).state # "absent" /\ Effect(Row(r).effect, slot[r], payload[r])
        /\ Row(r).effect \in Deliveries
    BY <1>1, <1>4 DEF Replay, Found, Conflicts, RowsTrue, Row, Effect
  <2>2. Effect(answer[r], slot[r], payload[r])'
    BY <1>1, <1>4, <2>1 DEF Replay, Effect, TypeOK
  <2>3. answer' \in [Deliveries -> Deliveries \cup {None}]
        /\ \A q \in Deliveries \ {r} : answer'[q] = answer[q]
    BY <1>4, <2>1 DEF Replay, TypeOK
  <2>4. known[r] # {} => slot[r] \in lapsed
    BY DEF MissesExpired
  <2> QED
    BY <1>1, <1>2, <1>4, <2>1, <2>2, <2>3, <2>4, HandlerStep
    DEF Replay, procVars, TypeOK
<1>5. CASE Miss(r)
  <2>1. Row(r).state # "live" /\ Row(r) \in Rows
    BY <1>1, <1>5 DEF Miss, Found, Row, TypeOK
  <2>2. CASE Row(r).state = "absent"
    <3>1. AnsweredEffects(slot[r]) = {}
      BY <2>2 DEF AnsweredEffects, AnswersTrue, Row
    <3>2. known' \in [Deliveries -> SUBSET (Deliveries \cup {None})] /\ known'[r] = {}
          /\ \A q \in Deliveries \ {r} : known'[q] = known[q]
      BY <1>5, <3>1 DEF Miss, TypeOK
    <3> QED
      BY <1>1, <1>2, <1>5, <3>2, HandlerStep DEF Miss, procVars, TypeOK
  <2>3. CASE Row(r).state = "expired"
    <3>1. slot[r] \in lapsed
      BY <1>1, <2>3 DEF MissesExpired, Row
    <3>2. AnsweredEffects(slot[r]) \subseteq Deliveries \cup {None}
      BY DEF AnsweredEffects, TypeOK
    <3>3. known' \in [Deliveries -> SUBSET (Deliveries \cup {None})]
          /\ \A q \in Deliveries \ {r} : known'[q] = known[q]
      BY <1>5, <3>2 DEF Miss, TypeOK
    <3> QED
      BY <1>1, <1>2, <1>5, <3>1, <3>3, HandlerStep DEF Miss, procVars, TypeOK
  <2> QED
    BY <2>1, <2>2, <2>3 DEF Rows, Absent
<1> QED
  BY <1>3, <1>4, <1>5

\* Performing, starting a process group, giving it its record and its reaper.
LEMMA ActStep ==
  ASSUME IInv, NEW r \in Deliveries,
         \/ Perform(r) \/ PerformRaises(r) \/ Spawn(r) \/ WriteManifest(r)
         \/ StartReaper(r) \/ StartFails(r)
  PROVE  IInv'
<1> USE DEF IInv, Goto, InFlight, Answered
<1>1. pc[r] \in {"act", "own", "watch"}
  BY DEF Perform, PerformRaises, Spawn, WriteManifest, StartReaper, StartFails
<1>2. known[r] # {} => slot[r] \in lapsed
  BY DEF MissesExpired
<1>3. LiveGroupsAreOwned'
  BY DEF LiveGroupsAreOwned, TypeOK, procVars, Perform, PerformRaises, Spawn,
         WriteManifest, StartReaper, StartFails, Killed
<1>4. CASE Perform(r)
  BY <1>1, <1>2, <1>3, <1>4, HandlerStep DEF Perform, procVars, TypeOK, Settled
<1>5. CASE PerformRaises(r)
  <2>1. \E point \in {"refused", "error"} : Goto(r, point)
    BY <1>5 DEF PerformRaises
  <2>2. acted' \in [Deliveries -> BOOLEAN] /\ \A e \in Deliveries \ {r} : acted'[e] = acted[e]
    BY <1>5 DEF PerformRaises, TypeOK
  <2> QED
    BY <1>1, <1>2, <1>3, <1>5, <2>1, <2>2, HandlerStep
    DEF PerformRaises, procVars, TypeOK, Settled
<1>6. CASE Spawn(r)
  BY <1>1, <1>2, <1>3, <1>6, HandlerStep DEF Spawn, TypeOK, Settled
<1>7. CASE WriteManifest(r)
  <2>1. acted[r]
    BY <1>7 DEF WriteManifest, HandlersInOrder
  <2> QED
    BY <1>1, <1>2, <1>3, <1>7, <2>1, HandlerStep DEF WriteManifest, reqVars, TypeOK, Settled
<1>8. CASE StartReaper(r)
  <2>1. acted[r]
    BY <1>8 DEF StartReaper, HandlersInOrder
  <2> QED
    BY <1>1, <1>2, <1>3, <1>8, <2>1, HandlerStep DEF StartReaper, reqVars, TypeOK, Settled
<1>9. CASE StartFails(r)
  BY <1>1, <1>2, <1>3, <1>9, HandlerStep DEF StartFails, Killed, TypeOK, Settled
<1> QED
  BY <1>4, <1>5, <1>6, <1>7, <1>8, <1>9

LEMMA StoreStep ==
  ASSUME IInv, NEW r \in Deliveries, Insert(r) \/ Accept(r) \/ PutRaises(r) PROVE IInv'
<1> USE DEF IInv, Goto, InFlight, Answered
<1>1. /\ pc[r] \in {"store", "reread"} /\ acted[r]
      /\ slot[r] \in Slots /\ payload[r] \in Payloads
  BY DEF Insert, Accept, PutRaises, HandlersInOrder
<1>2. known[r] # {} => slot[r] \in lapsed
  BY DEF MissesExpired
<1>3. LiveGroupsAreOwned'
  BY <1>1 DEF LiveGroupsAreOwned, TypeOK, procVars, Insert, Accept, PutRaises
<1>4. CASE Accept(r)
  <2>1. Row(r).state # "absent"
    BY <1>4 DEF Accept, Found
  <2>2. Effect(answer[r], slot[r], payload[r])'
    BY <1>1, <1>4 DEF Accept, Effect, TypeOK, Settled
  <2> QED
    BY <1>1, <1>2, <1>3, <1>4, <2>1, <2>2, HandlerStep
    DEF Accept, procVars, TypeOK, Settled
<1>5. CASE PutRaises(r)
  BY <1>1, <1>2, <1>3, <1>5, HandlerStep DEF PutRaises, reqVars, procVars, TypeOK, Settled
<1>6. CASE Insert(r)
  <2>1. pc[r] = "store" /\ UNCHANGED <<slot, payload, acted, answer, known>>
    BY <1>6 DEF Insert, reqVars
  <2>2. \A e, s, p : Effect(e, s, p) => Effect(e, s, p)'
    BY <1>6, <2>1, EffectsKept DEF Insert, TypeOK, Settled
  <2>3. Effect(r, slot[r], payload[r])'
    BY <1>1, <1>6, <2>1 DEF Insert, Effect, TypeOK, Settled
  <2>4. /\ row' \in [Slots -> Rows]
        /\ \A s \in Slots \ {slot[r]} : row'[s] = row[s]
        /\ row'[slot[r]].state # "absent"
        /\ \/ row'[slot[r]] = row[slot[r]]
           \/ row'[slot[r]] = [state |-> "live", payload |-> payload[r], effect |-> r]
    BY <1>1, <1>6 DEF Insert, Stored, Row, TypeOK, Rows, Absent
  <2>5. TypeOK'
    BY <1>6, <2>1, <2>4 DEF Insert, TypeOK, procVars
  <2>6. ASSUME NEW s \in Slots, row'[s].state # "absent"
        PROVE  Effect(row[s].effect, s, row[s].payload)'
    <3>1. CASE row'[s] = row[s]
      <4>1. Effect(row[s].effect, s, row[s].payload)
        BY <2>6, <3>1 DEF RowsTrue
      <4> QED
        BY <2>2, <3>1, <4>1
    <3>2. CASE s = slot[r] /\ row'[s] = [state |-> "live", payload |-> payload[r], effect |-> r]
      BY <2>1, <2>3, <3>2
    <3> QED
      BY <2>4, <3>1, <3>2
  <2>7. AnswersTrue'
    BY <1>1, <1>6, <2>1, <2>2, <2>4 DEF Insert, AnswersTrue, HandlersInOrder, TypeOK
  <2>8. RowsTrue'
    BY <2>6 DEF RowsTrue
  <2>9. HandlersInOrder'
    BY <1>1, <1>6, <2>1 DEF Insert, HandlersInOrder, TypeOK
  <2>10. MissesExpired'
    BY <1>6, <2>1, <2>4 DEF Insert, MissesExpired
  <2> QED
    BY <1>3, <2>5, <2>7, <2>8, <2>9, <2>10
<1> QED
  BY <1>4, <1>5, <1>6

-----------------------------------------------------------------------------
(* Time, processes and restarts.                                           *)

LEMMA ExpireStep == ASSUME IInv, NEW s \in Slots, Expire(s) PROVE IInv'
<1> USE DEF IInv, Expire
<1>1. /\ row' \in [Slots -> Rows] /\ row'[s] = [row[s] EXCEPT !.state = "expired"]
      /\ \A t \in Slots \ {s} : row'[t] = row[t]
      /\ row[s].state # "absent" /\ row'[s].state = "expired"
      /\ row'[s].payload = row[s].payload /\ row'[s].effect = row[s].effect
  BY DEF TypeOK, Rows, Absent
<1>2. TypeOK'
  BY <1>1 DEF TypeOK, reqVars, procVars
<1>3. \A e, t, p : Effect(e, t, p) <=> Effect(e, t, p)'
  BY DEF Effect, reqVars
<1>4. RowsTrue'
  BY <1>1, <1>3 DEF RowsTrue
<1>5. AnswersTrue'
  BY <1>1, <1>3 DEF AnswersTrue, HandlersInOrder, reqVars
<1>6. HandlersInOrder' /\ LiveGroupsAreOwned'
  BY DEF HandlersInOrder, LiveGroupsAreOwned, reqVars, procVars
<1>7. MissesExpired'
  BY <1>1 DEF MissesExpired, reqVars
<1> QED
  BY <1>2, <1>4, <1>5, <1>6, <1>7

LEMMA GroupStep ==
  ASSUME IInv, NEW r \in Deliveries, Exit(r) \/ Reap(r) \/ GiveUp(r) PROVE IInv'
<1> USE DEF IInv, Exit, Reap, GiveUp
<1>1. UNCHANGED <<pc, reqVars, rowVars>>
  OBVIOUS
<1>2. TypeOK'
  BY DEF TypeOK, reqVars, rowVars
<1>3. RowsTrue' /\ AnswersTrue' /\ HandlersInOrder' /\ MissesExpired'
  BY <1>1 DEF RowsTrue, AnswersTrue, HandlersInOrder, MissesExpired, Effect, reqVars, rowVars
<1>4. LiveGroupsAreOwned'
  BY DEF LiveGroupsAreOwned, TypeOK, GroupGone
<1> QED
  BY <1>2, <1>3, <1>4

LEMMA RestartStep == ASSUME IInv, Restart PROVE IInv'
<1> USE DEF IInv, Restart
<1>1. TypeOK'
  BY DEF TypeOK, reqVars, rowVars, InFlight, Answered
<1>2. \A e, s, p : Effect(e, s, p) => Effect(e, s, p)'
  BY DEF Effect, Settled, reqVars, InFlight
<1>3. RowsTrue'
  BY <1>2 DEF RowsTrue, rowVars
<1>4. AnswersTrue'
  BY <1>2 DEF AnswersTrue, reqVars, rowVars, InFlight
<1>5. HandlersInOrder' /\ MissesExpired'
  BY DEF HandlersInOrder, MissesExpired, reqVars, rowVars, InFlight
<1>6. LiveGroupsAreOwned'
  BY DEF LiveGroupsAreOwned, InFlight
<1> QED
  BY <1>1, <1>3, <1>4, <1>5, <1>6

-----------------------------------------------------------------------------

LEMMA NextKeepsIInv == IInv /\ [Next]_vars => IInv'
<1> SUFFICES ASSUME IInv, [Next]_vars PROVE IInv'
  OBVIOUS
<1>1. CASE UNCHANGED vars
  BY <1>1 DEF vars, IInv, TypeOK, RowsTrue, AnswersTrue, HandlersInOrder, MissesExpired,
              LiveGroupsAreOwned, Effect, reqVars, rowVars, procVars
<1>2. ASSUME NEW r \in Deliveries, Receive(r) \/ Handle(r) \/ Exit(r) \/ Reap(r) \/ GiveUp(r)
      PROVE  IInv'
  BY <1>2, ReceiveStep, LookupStep, ActStep, StoreStep, GroupStep DEF Handle
<1>3. ASSUME NEW s \in Slots, Expire(s) PROVE IInv'
  BY <1>3, ExpireStep
<1> QED
  BY <1>1, <1>2, <1>3, RestartStep DEF Next

\* The invariant holds in every reachable state.
THEOREM Invariance == Spec => []IInv
<1>1. Init => IInv
  BY InitIInv
<1>2. IInv /\ [Next]_vars => IInv'
  BY NextKeepsIInv
<1> QED
  BY <1>1, <1>2, PTL DEF Spec

\* The handlers' locals, the table api_idempotency and the process groups keep
\* their types.
THEOREM TypeCorrect == Spec => []TypeOK
<1>1. IInv => TypeOK
  BY DEF IInv
<1> QED
  BY <1>1, Invariance, PTL

\* get and put never hand out an answer of another key or another request: a
\* stored row tells of an effect of its own key, which nothing takes back.
THEOREM AnswersAreSound == Spec => []AnswersAreOfTheRequest
<1>1. IInv => AnswersAreOfTheRequest
  BY DEF IInv, AnswersTrue, Effect, AnswersAreOfTheRequest
<1> QED
  BY <1>1, Invariance, PTL

\* What was answered under a key is not done again before its record expires:
\* an answer leaves a row behind that every later lookup finds.
THEOREM RepeatsAreHarmless == Spec => []RepeatsDoNotAct
<1>1. IInv => RepeatsDoNotAct
  BY DEF IInv, MissesExpired, RepeatsDoNotAct
<1> QED
  BY <1>1, Invariance, PTL

\* RunProcessManager.start leaves no live process group without its ownership
\* record, wherever it raises.
THEOREM GroupsAreOwned == Spec => []LiveGroupsAreOwned
<1>1. IInv => LiveGroupsAreOwned
  BY DEF IInv
<1> QED
  BY <1>1, Invariance, PTL

\* INSERT OR IGNORE keeps the first answer of a key until it expires.
THEOREM AnswersAreKept == Spec => StoredAnswersAreKept
<1>1. ASSUME IInv, [Next]_vars, NEW s \in Slots, row[s].state = "live"
      PROVE  row'[s] = row[s] \/ row'[s] = [row[s] EXCEPT !.state = "expired"]
  <2>1. CASE UNCHANGED row
    BY <2>1
  <2>2. ASSUME NEW t \in Slots, Expire(t)
        PROVE  row'[s] = row[s] \/ row'[s] = [row[s] EXCEPT !.state = "expired"]
    BY <1>1, <2>2 DEF Expire, IInv, TypeOK
  <2>3. ASSUME NEW r \in Deliveries, Insert(r) PROVE row'[s] = row[s]
    BY <1>1, <2>3 DEF Insert, Stored, Row, IInv, TypeOK
  <2>4. ASSUME NEW r \in Deliveries,
               Receive(r) \/ Handle(r) \/ Exit(r) \/ Reap(r) \/ GiveUp(r)
        PROVE  UNCHANGED row \/ Insert(r)
    BY <2>4
    DEF Receive, Handle, Exit, Reap, GiveUp, LookupConflicts, Replay, Miss, Perform,
        PerformRaises, Spawn, WriteManifest, StartReaper, StartFails, Accept, PutRaises,
        rowVars
  <2> QED
    BY <1>1, <2>1, <2>2, <2>3, <2>4 DEF Next, Restart, vars, rowVars
<1>2. IInv /\ [Next]_vars => [\A s \in Slots : row[s].state = "live" =>
        row'[s] = row[s] \/ row'[s] = [row[s] EXCEPT !.state = "expired"]]_vars
  BY <1>1
<1> QED
  BY <1>2, Invariance, PTL DEF StoredAnswersAreKept, Spec
=============================================================================
