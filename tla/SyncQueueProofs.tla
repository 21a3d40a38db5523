-------------------------- MODULE SyncQueueProofs --------------------------
(***************************************************************************)
(* Proofs for SyncQueue: the inductive invariant IInv and the safety       *)
(* properties that follow from it, for any number of envelopes, syncers    *)
(* and faults, any budget and any limit.                                   *)
(***************************************************************************)
EXTENDS SyncQueue, TLAPS

USE EnvelopesAssumption, NumbersAssumption

\* A syncer has at most one envelope in hand.
LEMMA InHandUnique ==
  ASSUME NEW s \in Syncers, pass[s].todo \subseteq Envelopes,
         NEW e, InHand(s, e), NEW f, InHand(s, f)
  PROVE  e = f
<1>1. e \in Envelopes /\ f \in Envelopes /\ e <= f /\ f <= e
  BY DEF InHand
<1> QED
  BY <1>1, EnvelopesAssumption DEF EnvelopesAssumption

\* The row operations of the repository keep the type of a row.
LEMMA RowTypes ==
  ASSUME NEW q \in Rows
  PROVE  /\ Recovered(q) \in Rows /\ Claimed(q) \in Rows /\ Acked(q) \in Rows
         /\ \A b \in BOOLEAN : Failed(q, b) \in Rows
         /\ Recovered(q).attempts = q.attempts
         /\ Recovered(q).state \in {q.state, "FAILED"}
<1> USE DEF Rows, SyncStates
<1>1. Recovered(q) \in Rows /\ Recovered(q).attempts = q.attempts
      /\ Recovered(q).state \in {q.state, "FAILED"}
  BY DEF Recovered
<1>2. Claimed(q) \in Rows /\ Acked(q) \in Rows
  BY DEF Claimed, Acked
<1>3. \A b \in BOOLEAN : Failed(q, b) \in Rows
  BY NumbersAssumption DEF Failed
<1> QED
  BY <1>1, <1>2, <1>3

LEMMA InitIInv == Init => IInv
BY DEF Init, IInv, TypeOK, AckedWasAccepted, BlockedSpentBudget, CountInv, AckInv,
       Absent, Rows, SyncStates, Idle, Passes, Points, InHand, At

-----------------------------------------------------------------------------
(* Steps that change rows and leave every pass alone.                      *)

\* A row may be replaced if its count does not fall and what is said of it
\* still holds.
LEMMA StoreStep ==
  ASSUME IInv, NEW e \in Envelopes, NEW q \in Rows, Store(e, q),
         UNCHANGED <<remote, pass, faults>>,
         queue[e].attempts <= q.attempts,
         q.state = "ACKED" => e \in remote,
         q.state = "BLOCKED" => q.attempts = MaxAttempts
  PROVE  IInv'
<1> USE DEF IInv, Store
<1>1. TypeOK'
  BY DEF TypeOK
<1>2. AckedWasAccepted' /\ AckInv'
  BY DEF TypeOK, AckedWasAccepted, AckInv, At, InHand
<1>3. BlockedSpentBudget'
  BY DEF TypeOK, BlockedSpentBudget
<1>4. CountInv'
  BY DEF TypeOK, CountInv, InHand, Rows, Passes
<1> QED
  BY <1>1, <1>2, <1>3, <1>4

LEMMA ClockAndSession ==
  ASSUME IInv, NEW e \in Envelopes, Enqueue(e) \/ Expire(e) \/ ComeDue(e)
  PROVE  IInv'
<1>1. CASE Enqueue(e)
  <2>1. Queued \in Rows /\ Queued.attempts = 0 /\ Queued.state = "QUEUED"
    BY DEF Rows, SyncStates, Queued
  <2>2. queue[e].attempts = 0
    BY <1>1 DEF Enqueue, IInv, TypeOK, Rows
  <2>3. Store(e, Queued) /\ UNCHANGED <<remote, pass, faults>>
    BY <1>1 DEF Enqueue
  <2> QED
    BY <2>1, <2>2, <2>3, StoreStep
<1>2. CASE Expire(e)
  BY <1>2, StoreStep
  DEF Expire, IInv, TypeOK, Rows, SyncStates, AckedWasAccepted, BlockedSpentBudget
<1>3. CASE ComeDue(e)
  <2> DEFINE q == [queue[e] EXCEPT !.due = TRUE]
  <2>1. queue[e] \in Rows /\ queue[e].state = "FAILED"
    BY <1>3 DEF ComeDue, IInv, TypeOK
  <2>2. q \in Rows /\ q.state = "FAILED" /\ q.attempts = queue[e].attempts
    BY <2>1 DEF Rows
  <2>3. Store(e, q) /\ UNCHANGED <<remote, pass, faults>>
    BY <1>3 DEF ComeDue
  <2>4. queue[e].attempts <= q.attempts
    BY <2>1, <2>2 DEF Rows
  <2> HIDE DEF q
  <2> QED
    BY <2>2, <2>3, <2>4, StoreStep
<1> QED
  BY <1>1, <1>2, <1>3

-----------------------------------------------------------------------------
(* Steps of a syncer.                                                      *)

\* A syncer may move on if rows lose no count and no justification, and what it
\* has in hand afterwards is counted, and accepted when it says so.
LEMMA PassStep ==
  ASSUME IInv, NEW s \in Syncers, NEW p \in Passes, pass' = [pass EXCEPT ![s] = p],
         p.todo = {} <=> p.pc \in {"idle", "listing"},
         queue' \in [Envelopes -> Rows], faults' \in 0..MaxFaults,
         remote \subseteq remote', remote' \subseteq Envelopes,
         \A e \in Envelopes : /\ queue[e].attempts <= queue'[e].attempts
                              /\ queue'[e].state = "ACKED" => e \in remote'
                              /\ queue'[e].state = "BLOCKED" =>
                                   queue'[e].attempts = MaxAttempts,
         \A e \in p.todo : (\A f \in p.todo : e <= f) =>
            /\ p.attempts <= queue'[e].attempts
            /\ p.pc \in {"acking", "delivered"} => e \in remote'
  PROVE  IInv'
<1> USE DEF IInv
<1>1. pass' \in [Syncers -> Passes] /\ pass'[s] = p
      /\ \A t \in Syncers : t # s => pass'[t] = pass[t]
  BY DEF TypeOK
<1>2. TypeOK'
  BY <1>1 DEF TypeOK
<1>3. ASSUME NEW t \in Syncers, NEW e \in Envelopes, InHand(t, e)'
      PROVE  /\ pass'[t].attempts <= queue'[e].attempts
             /\ pass'[t].pc \in {"acking", "delivered"} => e \in remote'
  <2>1. CASE t = s
    BY <1>1, <1>3, <2>1 DEF InHand
  <2>2. CASE t # s
    <3>1. InHand(t, e) /\ pass'[t] = pass[t]
      BY <1>1, <1>3, <2>2 DEF InHand
    <3>2. pass[t].attempts <= queue[e].attempts /\ queue[e].attempts <= queue'[e].attempts
      BY <3>1 DEF CountInv
    <3>3. pass[t].attempts \in Int /\ queue[e].attempts \in Int /\ queue'[e].attempts \in Int
      BY DEF TypeOK, Passes, Rows
    <3>4. pass[t].pc \in {"acking", "delivered"} => e \in remote
      BY <3>1 DEF AckInv, AckedWasAccepted, At
    <3> QED
      BY <3>1, <3>2, <3>3, <3>4
  <2> QED
    BY <2>1, <2>2
<1>4. AckedWasAccepted' /\ AckInv' /\ CountInv' /\ BlockedSpentBudget'
  BY <1>3 DEF AckedWasAccepted, AckInv, CountInv, BlockedSpentBudget, At
<1> QED
  BY <1>2, <1>4

\* What a syncer is doing while IInv holds.
LEMMA PassTypes ==
  ASSUME IInv, NEW s \in Syncers
  PROVE  /\ pass[s] \in Passes
         /\ pass[s].todo = {} <=> pass[s].pc \in {"idle", "listing"}
         /\ Idle \in Passes
         /\ \A e \in Envelopes : queue[e] \in Rows
BY NumbersAssumption DEF IInv, TypeOK, Passes, Points, Idle

\* Rows nobody touches keep what PassStep asks of them.
LEMMA RowsKept ==
  ASSUME IInv, UNCHANGED queue, remote \subseteq remote', NEW e \in Envelopes
  PROVE  /\ queue[e].attempts <= queue'[e].attempts
         /\ queue'[e].state = "ACKED" => e \in remote'
         /\ queue'[e].state = "BLOCKED" => queue'[e].attempts = MaxAttempts
<1>1. queue[e].attempts \in Int
  BY DEF IInv, TypeOK, Rows
<1> QED
  BY <1>1 DEF IInv, AckedWasAccepted, BlockedSpentBudget

\* Going to the next envelope, or ending the pass, leaves nothing in hand that is
\* counted or accepted.
LEMMA ContinueStep ==
  ASSUME IInv, NEW s \in Syncers, NEW e \in Envelopes, Continue(s, e),
         queue' \in [Envelopes -> Rows], UNCHANGED <<remote, faults>>,
         \A f \in Envelopes : /\ queue[f].attempts <= queue'[f].attempts
                              /\ queue'[f].state = "ACKED" => f \in remote'
                              /\ queue'[f].state = "BLOCKED" =>
                                   queue'[f].attempts = MaxAttempts,
         e \in pass[s].todo
  PROVE  IInv'
<1> DEFINE next == IF pass[s].todo = {e} THEN Idle
                   ELSE [pc |-> "claiming", todo |-> pass[s].todo \ {e}, attempts |-> 0]
<1>1. next \in Passes /\ next.attempts = 0 /\ next.pc \in {"idle", "claiming"}
      /\ (next.todo = {} <=> next.pc \in {"idle", "listing"})
  BY PassTypes, NumbersAssumption DEF Passes, Points, Idle
<1>2. pass' = [pass EXCEPT ![s] = next]
  BY DEF Continue
<1>3. \A f \in Envelopes : queue'[f].attempts >= 0
  BY DEF Rows
<1>4. remote \subseteq Envelopes /\ remote' = remote /\ faults' \in 0..MaxFaults
      /\ next.todo \subseteq Envelopes
  BY <1>1 DEF IInv, TypeOK, Passes
<1> HIDE DEF next
<1> QED
  BY <1>1, <1>2, <1>3, <1>4, PassStep

\* A syncer that works on an envelope may go on with it.
LEMMA GotoStep ==
  ASSUME IInv, NEW s \in Syncers, NEW point \in Points \ {"idle", "listing"},
         pass[s].todo # {}, Goto(s, point),
         queue' \in [Envelopes -> Rows], faults' \in 0..MaxFaults,
         remote \subseteq remote', remote' \subseteq Envelopes,
         \A f \in Envelopes : /\ queue[f].attempts <= queue'[f].attempts
                              /\ queue'[f].state = "ACKED" => f \in remote'
                              /\ queue'[f].state = "BLOCKED" =>
                                   queue'[f].attempts = MaxAttempts,
         \A f \in Envelopes : InHand(s, f) /\ point \in {"acking", "delivered"} => f \in remote'
  PROVE  IInv'
<1> DEFINE p == [pass[s] EXCEPT !.pc = point]
<1>1. p \in Passes /\ p.todo = pass[s].todo /\ p.attempts = pass[s].attempts /\ p.pc = point
  BY PassTypes DEF Passes
<1>2. pass' = [pass EXCEPT ![s] = p]
  BY DEF Goto
<1>3. ASSUME NEW e \in p.todo, \A f \in p.todo : e <= f
      PROVE  /\ p.attempts <= queue'[e].attempts
             /\ p.pc \in {"acking", "delivered"} => e \in remote'
  <2>1. e \in Envelopes /\ InHand(s, e)
    BY <1>1, <1>3 DEF InHand, Passes
  <2>2. pass[s].attempts <= queue[e].attempts /\ queue[e].attempts <= queue'[e].attempts
    BY <2>1 DEF IInv, CountInv
  <2>3. pass[s].attempts \in Int /\ queue[e].attempts \in Int /\ queue'[e].attempts \in Int
    BY <2>1, PassTypes DEF Passes, Rows
  <2> QED
    BY <1>1, <2>1, <2>2, <2>3
<1> HIDE DEF p
<1> QED
  BY <1>1, <1>2, <1>3, PassStep

-----------------------------------------------------------------------------
(* One lemma for each action of a syncer.                                  *)

LEMMA RecoverExpiredStep == ASSUME IInv, NEW s \in Syncers, RecoverExpired(s) PROVE IInv'
<1> DEFINE p == [pass[s] EXCEPT !.pc = "listing"]
<1>1. p \in Passes /\ p.todo = {} /\ p.pc = "listing"
  BY PassTypes DEF RecoverExpired, Passes, Points
<1>2. pass' = [pass EXCEPT ![s] = p]
  BY DEF RecoverExpired, Goto
<1>3. queue' \in [Envelopes -> Rows]
  BY PassTypes, RowTypes DEF RecoverExpired
<1>4. ASSUME NEW e \in Envelopes
      PROVE  /\ queue[e].attempts <= queue'[e].attempts
             /\ queue'[e].state = "ACKED" => e \in remote
             /\ queue'[e].state = "BLOCKED" => queue'[e].attempts = MaxAttempts
  <2>1. queue'[e] = Recovered(queue[e]) /\ queue[e] \in Rows
    BY PassTypes DEF RecoverExpired
  <2>2. queue'[e].attempts = queue[e].attempts /\ queue[e].attempts \in Int
    BY <2>1, RowTypes DEF Rows
  <2>3. queue'[e].state \in {queue[e].state, "FAILED"}
    BY <2>1, RowTypes
  <2>4. /\ queue[e].state = "ACKED" => e \in remote
        /\ queue[e].state = "BLOCKED" => queue[e].attempts = MaxAttempts
    BY DEF IInv, AckedWasAccepted, BlockedSpentBudget
  <2>5. queue[e].attempts <= queue'[e].attempts
    BY <2>2
  <2> QED
    BY <2>2, <2>3, <2>4, <2>5
<1>5. remote' = remote /\ remote \subseteq Envelopes /\ faults' \in 0..MaxFaults
  BY DEF RecoverExpired, IInv, TypeOK
<1> HIDE DEF p
<1> QED
  BY <1>1, <1>2, <1>3, <1>4, <1>5, PassStep

LEMMA ListReadyStep == ASSUME IInv, NEW s \in Syncers, ListReady(s) PROVE IInv'
<1>1. PICK b \in Batches :
        pass' = [pass EXCEPT ![s] = IF b = {} THEN Idle
                                    ELSE [pc |-> "claiming", todo |-> b, attempts |-> 0]]
  BY DEF ListReady
<1> DEFINE p == IF b = {} THEN Idle ELSE [pc |-> "claiming", todo |-> b, attempts |-> 0]
<1>2. b \in SUBSET Envelopes
  BY DEF Batches
<1>3. /\ p \in Passes /\ p.attempts = 0 /\ p.pc \in {"idle", "claiming"}
      /\ p.todo = {} <=> p.pc \in {"idle", "listing"}
  <2>1. CASE b = {}
    BY <2>1, NumbersAssumption DEF Passes, Points, Idle
  <2>2. CASE b # {}
    <3>1. p = [pc |-> "claiming", todo |-> b, attempts |-> 0]
      BY <2>2
    <3>2. p.pc = "claiming" /\ p.todo = b /\ p.attempts = 0
      BY <3>1
    <3>3. 0 \in 0..MaxAttempts /\ "claiming" \in Points
      BY NumbersAssumption DEF Points
    <3> HIDE DEF p
    <3>4. p \in Passes
      BY <1>2, <3>1, <3>3, SMTT(30) DEF Passes
    <3> QED
      BY <2>2, <3>2, <3>4
  <2> QED
    BY <2>1, <2>2
<1>4. p.todo \subseteq Envelopes /\ \A e \in Envelopes : queue[e].attempts >= 0
  <2>1. p.todo \subseteq Envelopes
    BY <1>3 DEF Passes
  <2>2. ASSUME NEW e \in Envelopes PROVE queue[e].attempts >= 0
    BY PassTypes DEF Rows
  <2> QED
    BY <2>1, <2>2
<1>5. UNCHANGED <<queue, remote, faults>> /\ queue \in [Envelopes -> Rows]
      /\ remote \subseteq Envelopes /\ faults \in 0..MaxFaults
  BY DEF ListReady, IInv, TypeOK
<1> HIDE DEF p
<1>6. pass' = [pass EXCEPT ![s] = p]
  BY <1>1 DEF p
<1> QED
  BY <1>3, <1>4, <1>5, <1>6, RowsKept, PassStep

LEMMA ClaimReadStep ==
  ASSUME IInv, NEW s \in Syncers, NEW e \in Envelopes, ClaimRead(s, e) PROVE IInv'
<1>1. UNCHANGED <<queue, remote, faults>> /\ queue \in [Envelopes -> Rows]
      /\ remote \subseteq Envelopes /\ faults \in 0..MaxFaults
  BY DEF ClaimRead, IInv, TypeOK
<1>2. e \in pass[s].todo
  BY DEF ClaimRead, At, InHand
<1>3. CASE Goto(s, "updating")
  BY <1>1, <1>2, <1>3, RowsKept, GotoStep DEF Points
<1>4. CASE Continue(s, e)
  BY <1>1, <1>2, <1>4, RowsKept, ContinueStep
<1> QED
  BY <1>3, <1>4 DEF ClaimRead

LEMMA ClaimReturnStep ==
  ASSUME IInv, NEW s \in Syncers, NEW e \in Envelopes, ClaimReturn(s, e) PROVE IInv'
<1> DEFINE p == [pass[s] EXCEPT !.pc = "publishing", !.attempts = queue[e].attempts]
<1>1. InHand(s, e)
  BY DEF ClaimReturn, At
<1>2. /\ p \in Passes /\ p.todo = pass[s].todo /\ p.attempts = queue[e].attempts
      /\ p.pc = "publishing" /\ p.todo # {}
  BY <1>1, PassTypes DEF Passes, Points, Rows, InHand
<1>3. pass' = [pass EXCEPT ![s] = p]
  BY DEF ClaimReturn
<1>4. UNCHANGED <<queue, remote, faults>> /\ queue \in [Envelopes -> Rows]
      /\ remote \subseteq Envelopes /\ faults \in 0..MaxFaults
  BY DEF ClaimReturn, IInv, TypeOK
<1>5. ASSUME NEW f \in p.todo, \A g \in p.todo : f <= g PROVE p.attempts <= queue'[f].attempts
  <2>1. InHand(s, f) /\ pass[s].todo \subseteq Envelopes
    BY <1>2, <1>5, PassTypes DEF InHand, Passes
  <2>2. f = e
    BY <1>1, <2>1, InHandUnique
  <2>3. queue[e].attempts \in Int
    BY PassTypes DEF Rows
  <2> QED
    BY <1>2, <1>4, <2>2, <2>3
<1> HIDE DEF p
<1> QED
  BY <1>2, <1>3, <1>4, <1>5, RowsKept, PassStep

LEMMA PublishStep ==
  ASSUME IInv, NEW s \in Syncers, NEW e \in Envelopes,
         PublishAccepted(s, e) \/ PublishFails(s, e)
  PROVE  IInv'
<1>1. InHand(s, e) /\ pass[s].todo # {} /\ pass[s].todo \subseteq Envelopes
  BY PassTypes DEF PublishAccepted, PublishFails, At, InHand, Passes
<1>2. UNCHANGED <<queue, faults>> /\ queue \in [Envelopes -> Rows]
      /\ remote \subseteq Envelopes /\ faults \in 0..MaxFaults
  BY DEF PublishAccepted, PublishFails, IInv, TypeOK
<1>3. remote \subseteq remote' /\ remote' \subseteq Envelopes
  BY <1>2 DEF PublishAccepted, PublishFails
<1>4. CASE PublishAccepted(s, e)
  <2>1. Goto(s, "acking") /\ \A f \in Envelopes : InHand(s, f) => f \in remote'
    BY <1>1, <1>4, InHandUnique DEF PublishAccepted
  <2> QED
    BY <1>1, <1>2, <1>3, <2>1, RowsKept, GotoStep DEF Points
<1>5. CASE PublishFails(s, e)
  BY <1>1, <1>2, <1>3, <1>5, RowsKept, GotoStep DEF PublishFails, Points
<1> QED
  BY <1>4, <1>5

LEMMA DeliveryFaultsStep ==
  ASSUME IInv, NEW s \in Syncers, NEW e \in Envelopes, DeliveryFaults(s, e) PROVE IInv'
<1>1. pass[s].todo # {} /\ Goto(s, "failing")
  BY DEF DeliveryFaults, At, InHand
<1>2. UNCHANGED <<queue, remote>> /\ queue \in [Envelopes -> Rows]
      /\ remote \subseteq Envelopes
  BY DEF DeliveryFaults, IInv, TypeOK
<1>3. faults' \in 0..MaxFaults
  BY NumbersAssumption DEF DeliveryFaults, IInv, TypeOK
<1> QED
  BY <1>1, <1>2, <1>3, RowsKept, GotoStep DEF Points

LEMMA DeliveredStep ==
  ASSUME IInv, NEW s \in Syncers, NEW e \in Envelopes, Delivered(s, e) PROVE IInv'
<1>1. e \in pass[s].todo /\ Continue(s, e) /\ UNCHANGED <<queue, remote, faults>>
  BY DEF Delivered, At, InHand
<1>2. queue \in [Envelopes -> Rows]
  BY DEF IInv, TypeOK
<1> QED
  BY <1>1, <1>2, RowsKept, ContinueStep

\* Storing one row keeps what PassStep asks of all of them.
LEMMA RowStored ==
  ASSUME IInv, NEW e \in Envelopes, NEW q \in Rows, Store(e, q), UNCHANGED remote,
         queue[e].attempts <= q.attempts,
         q.state = "ACKED" => e \in remote,
         q.state = "BLOCKED" => q.attempts = MaxAttempts
  PROVE  /\ queue' \in [Envelopes -> Rows]
         /\ \A f \in Envelopes : /\ queue[f].attempts <= queue'[f].attempts
                                 /\ queue'[f].state = "ACKED" => f \in remote'
                                 /\ queue'[f].state = "BLOCKED" =>
                                      queue'[f].attempts = MaxAttempts
<1>1. queue' \in [Envelopes -> Rows] /\ queue'[e] = q
      /\ \A f \in Envelopes : f # e => queue'[f] = queue[f]
  BY DEF IInv, TypeOK, Store
<1>2. \A f \in Envelopes : queue[f].attempts \in Int
  BY DEF IInv, TypeOK, Rows
<1> QED
  BY <1>1, <1>2 DEF IInv, AckedWasAccepted, BlockedSpentBudget

LEMMA ClaimUpdateStep ==
  ASSUME IInv, NEW s \in Syncers, NEW e \in Envelopes, ClaimUpdate(s, e) PROVE IInv'
<1>1. pass[s].todo # {} /\ Goto(s, "claimed") /\ Store(e, Claimed(queue[e]))
      /\ UNCHANGED <<remote, faults>>
  BY DEF ClaimUpdate, At, InHand
<1>2. /\ Claimed(queue[e]) \in Rows /\ Claimed(queue[e]).state = "IN_FLIGHT"
      /\ queue[e].attempts <= Claimed(queue[e]).attempts
  <2>1. queue[e] \in Rows /\ queue[e].attempts \in Int
    BY PassTypes DEF Rows
  <2>2. Claimed(queue[e]) \in Rows
    BY <2>1, RowTypes
  <2>3. Claimed(queue[e]).attempts = queue[e].attempts
        /\ Claimed(queue[e]).state = "IN_FLIGHT"
    BY <2>1 DEF Claimed, Rows
  <2> QED
    BY <2>1, <2>2, <2>3
<1>3. remote \subseteq Envelopes /\ faults \in 0..MaxFaults
  BY DEF IInv, TypeOK
<1> QED
  BY <1>1, <1>2, <1>3, RowStored, GotoStep DEF Points

LEMMA AckStep ==
  ASSUME IInv, NEW s \in Syncers, NEW e \in Envelopes, Ack(s, e) PROVE IInv'
<1>1. InHand(s, e) /\ pass[s].todo # {} /\ Goto(s, "delivered") /\ Store(e, Acked(queue[e]))
      /\ UNCHANGED <<remote, faults>> /\ e \in remote
  BY DEF Ack, At, InHand, IInv, AckInv
<1>2. /\ Acked(queue[e]) \in Rows /\ Acked(queue[e]).state = "ACKED"
      /\ queue[e].attempts <= Acked(queue[e]).attempts
  <2>1. queue[e] \in Rows /\ queue[e].attempts \in Int
    BY PassTypes DEF Rows
  <2>2. Acked(queue[e]) \in Rows
    BY <2>1, RowTypes
  <2>3. Acked(queue[e]).attempts = queue[e].attempts
        /\ Acked(queue[e]).state = "ACKED"
    BY <2>1 DEF Acked, Rows
  <2> QED
    BY <2>1, <2>2, <2>3
<1>3. remote \subseteq Envelopes /\ faults \in 0..MaxFaults /\ pass[s].todo \subseteq Envelopes
  BY PassTypes DEF IInv, TypeOK, Passes
<1>4. \A f \in Envelopes : InHand(s, f) => f \in remote'
  BY <1>1, <1>3, InHandUnique
<1> QED
  BY <1>1, <1>2, <1>3, <1>4, RowStored, GotoStep DEF Points

\* The count of the claim is not ahead of the row's, so whoever finds the budget
\* spent stores the last count.
LEMMA FailStep ==
  ASSUME IInv, NEW s \in Syncers, NEW e \in Envelopes, Fail(s, e) PROVE IInv'
<1> DEFINE blocked == BudgetSpent(pass[s].attempts)
           q == Failed(queue[e], blocked)
<1>1. InHand(s, e) /\ e \in pass[s].todo /\ Continue(s, e) /\ Store(e, q)
      /\ UNCHANGED <<remote, faults>>
  BY DEF Fail, At, InHand
<1>2. pass[s].attempts <= queue[e].attempts /\ pass[s].attempts \in Int
      /\ queue[e].attempts \in 0..MaxAttempts /\ blocked \in BOOLEAN
  BY <1>1, PassTypes DEF IInv, CountInv, Passes, Rows, BudgetSpent
<1>3. q \in Rows
  BY <1>2, PassTypes, RowTypes
<1>4. /\ queue[e].attempts <= q.attempts
      /\ q.state # "ACKED"
      /\ q.state = "BLOCKED" => q.attempts = MaxAttempts
  BY <1>2, NumbersAssumption DEF Failed, BudgetSpent
<1> HIDE DEF q
<1> QED
  BY <1>1, <1>3, <1>4, RowStored, ContinueStep

LEMMA StopStep == ASSUME IInv, NEW s \in Syncers, Stop(s) PROVE IInv'
<1>1. UNCHANGED <<queue, remote>> /\ queue \in [Envelopes -> Rows]
      /\ remote \subseteq Envelopes /\ pass' = [pass EXCEPT ![s] = Idle]
  BY DEF Stop, IInv, TypeOK
<1>2. faults' \in 0..MaxFaults
  BY NumbersAssumption DEF Stop, IInv, TypeOK
<1>3. Idle \in Passes /\ Idle.todo = {} /\ Idle.pc = "idle"
  BY PassTypes DEF Idle
<1> QED
  BY <1>1, <1>2, <1>3, RowsKept, PassStep

-----------------------------------------------------------------------------

LEMMA NextKeepsIInv == IInv /\ [Next]_vars => IInv'
<1> SUFFICES ASSUME IInv, [Next]_vars PROVE IInv'
  OBVIOUS
<1>1. CASE UNCHANGED vars
  BY <1>1 DEF vars, IInv, TypeOK, AckedWasAccepted, BlockedSpentBudget, CountInv, AckInv,
              InHand, At
<1>2. ASSUME NEW e \in Envelopes, Enqueue(e) \/ Expire(e) \/ ComeDue(e) PROVE IInv'
  BY <1>2, ClockAndSession
<1>3. ASSUME NEW s \in Syncers, Progress(s) PROVE IInv'
  BY <1>3, RecoverExpiredStep, ListReadyStep, ClaimReadStep, ClaimUpdateStep,
     ClaimReturnStep, PublishStep, AckStep, DeliveredStep, FailStep
  DEF Progress
<1>4. ASSUME NEW s \in Syncers, Stop(s) \/ \E e \in Envelopes : DeliveryFaults(s, e)
      PROVE  IInv'
  BY <1>4, StopStep, DeliveryFaultsStep
<1> QED
  BY <1>1, <1>2, <1>3, <1>4 DEF Next

\* The invariant holds in every reachable state.
THEOREM Invariance == Spec => []IInv
<1>1. Init => IInv
  BY InitIInv
<1>2. IInv /\ [Next]_vars => IInv'
  BY NextKeepsIInv
<1> QED
  BY <1>1, <1>2, PTL DEF Spec

\* Rows, passes and the set of accepted envelopes keep their types (the tables of
\* sync_queue and the locals of sync_pending).
THEOREM TypeCorrect == Spec => []TypeOK
<1>1. IInv => TypeOK
  BY DEF IInv
<1> QED
  BY <1>1, Invariance, PTL

\* ack is only reached for envelopes the remote endpoint accepted, however many
\* syncers overlap, die or answer late.
THEOREM AcksAreSound == Spec => []AckedWasAccepted
<1>1. IInv => AckedWasAccepted
  BY DEF IInv
<1> QED
  BY <1>1, Invariance, PTL

\* fail(blocked) never gives an envelope up before max_attempts failures were
\* counted, although it decides from the count its claim returned.
THEOREM BlockedIsJustified == Spec => []BlockedSpentBudget
<1>1. IInv => BlockedSpentBudget
  BY DEF IInv
<1> QED
  BY <1>1, Invariance, PTL
=============================================================================
