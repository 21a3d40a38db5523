----------------------------- MODULE SyncQueue -----------------------------
(***************************************************************************)
(* The outbox of the Runner (lib/services/sync_service.py on the SQLite    *)
(* table sync_queue): finished sessions queue envelopes, and one or more   *)
(* scripts/netregress_sync.py processes deliver them to a remote endpoint. *)
(*                                                                         *)
(* Every SQL statement is a step of its own, as no method of the queue     *)
(* repository opens a transaction around the ones it executes.  The SYNC_  *)
(* events are left out: nobody reads them back, not even the next snapshot *)
(* of the Run; what a failing append does to the row is not.               *)
(***************************************************************************)
EXTENDS Integers, FiniteSets

CONSTANTS Envelopes,    \* content-addressed snapshots, numbered by created_at
          Syncers,      \* sync processes
          MaxAttempts,  \* the retry budget (max_attempts)
          Limit,        \* envelopes of one pass
          MaxFaults     \* bound: syncers that die, repository calls that fail

ASSUME EnvelopesAssumption == Envelopes \subseteq Int
ASSUME NumbersAssumption == MaxAttempts \in Nat \ {0} /\ Limit \in Nat \ {0} /\ MaxFaults \in Nat

VARIABLES queue,   \* the row of each envelope
          remote,  \* the envelopes the remote endpoint has accepted
          pass,    \* each syncer's pass over the queue
          faults

vars == <<queue, remote, pass, faults>>

\* A row counts failed deliveries up to the budget (further ones tell nothing
\* apart); "due": next_attempt_at has come; a lease is running or has expired.
SyncStates == {"absent", "QUEUED", "IN_FLIGHT", "ACKED", "FAILED", "BLOCKED"}
Rows == {q \in [state: SyncStates, attempts: 0..MaxAttempts, due: BOOLEAN,
                lease: {"none", "running", "expired"}] :
           /\ q.lease # "none" <=> q.state = "IN_FLIGHT"
           /\ q.state = "absent" => q.attempts = 0}
Absent == [state |-> "absent", attempts |-> 0, due |-> FALSE, lease |-> "none"]
Queued == [state |-> "QUEUED", attempts |-> 0, due |-> TRUE, lease |-> "none"]
Ready(q) == q.state \in {"QUEUED", "FAILED"}

\* Where a syncer is, the envelopes left of its pass, and of the one in hand
\* (the smallest) the attempt_count its claim returned.
Points == {"idle", "listing", "claiming", "updating", "claimed", "publishing",
           "acking", "delivered", "failing"}
Passes == [pc: Points, todo: SUBSET Envelopes, attempts: 0..MaxAttempts]
Idle == [pc |-> "idle", todo |-> {}, attempts |-> 0]

InHand(s, e) == e \in pass[s].todo /\ \A f \in pass[s].todo : e <= f
At(s, e, point) == pass[s].pc = point /\ InHand(s, e)
Goto(s, point) == pass' = [pass EXCEPT ![s].pc = point]
\* The for loop goes on with the next envelope, or sync_pending returns.
Continue(s, e) ==
  pass' = [pass EXCEPT ![s] = IF pass[s].todo = {e} THEN Idle
                              ELSE [pc |-> "claiming", todo |-> pass[s].todo \ {e},
                                    attempts |-> 0]]
Store(e, q) == queue' = [queue EXCEPT ![e] = q]

Init ==
  /\ queue = [e \in Envelopes |-> Absent]
  /\ remote = {}
  /\ pass = [s \in Syncers |-> Idle]
  /\ faults = 0

-----------------------------------------------------------------------------
(* A session queues the snapshot of its Run.                               *)

\* An envelope that is queued already keeps its row, whatever its state.
Enqueue(e) ==
  /\ queue[e].state = "absent"
  /\ Store(e, Queued)
  /\ UNCHANGED <<remote, pass, faults>>

-----------------------------------------------------------------------------
(* sync_pending.                                                           *)

\* The row after its lease expired: retryable at once, and not counted.
Recovered(q) ==
  IF q.state = "IN_FLIGHT" /\ q.lease = "expired"
  THEN [q EXCEPT !.state = "FAILED", !.lease = "none", !.due = TRUE]
  ELSE q

RecoverExpired(s) ==
  /\ pass[s].pc = "idle"
  /\ queue' = [e \in Envelopes |-> Recovered(queue[e])]
  /\ Goto(s, "listing")
  /\ UNCHANGED <<remote, faults>>

\* The Limit oldest of the envelopes that are ready.
Batches ==
  LET ready == {e \in Envelopes : Ready(queue[e]) /\ queue[e].due}
  IN  {b \in SUBSET ready :
         /\ Cardinality(b) <= Limit
         /\ Cardinality(b) < Limit => b = ready
         /\ \A e \in b, f \in ready \ b : e < f}

ListReady(s) ==
  /\ pass[s].pc = "listing"
  /\ \E b \in Batches :
       pass' = [pass EXCEPT ![s] = IF b = {} THEN Idle
                                   ELSE [pc |-> "claiming", todo |-> b, attempts |-> 0]]
  /\ UNCHANGED <<queue, remote, faults>>

\* claim: look at the state ...
ClaimRead(s, e) ==
  /\ At(s, e, "claiming")
  /\ IF Ready(queue[e]) THEN Goto(s, "updating") ELSE Continue(s, e)
  /\ UNCHANGED <<queue, remote, faults>>

\* Mutant: the lease is not written.
Claimed_Unleased(q) == [q EXCEPT !.state = "IN_FLIGHT", !.lease = "none"]

\* ... take the lease, in whatever state the row is by now ...
Claimed(q) == [q EXCEPT !.state = "IN_FLIGHT", !.lease = "running"]

ClaimUpdate(s, e) ==
  /\ At(s, e, "updating")
  /\ Store(e, Claimed(queue[e]))
  /\ Goto(s, "claimed")
  /\ UNCHANGED <<remote, faults>>

\* ... and return the row.
ClaimReturn(s, e) ==
  /\ At(s, e, "claimed")
  /\ pass' = [pass EXCEPT ![s].pc = "publishing", ![s].attempts = queue[e].attempts]
  /\ UNCHANGED <<queue, remote, faults>>

\* Mutant: an envelope is acknowledged when it is sent.
PublishFails_Acked(s, e) ==
  /\ At(s, e, "publishing")
  /\ remote' \in {remote, remote \cup {e}}
  /\ Goto(s, "acking")
  /\ UNCHANGED <<queue, faults>>

PublishAccepted(s, e) ==
  /\ At(s, e, "publishing")
  /\ remote' = remote \cup {e}
  /\ Goto(s, "acking")
  /\ UNCHANGED <<queue, faults>>

\* The request or its answer is lost, or the answer is an error.
PublishFails(s, e) ==
  /\ At(s, e, "publishing")
  /\ remote' \in {remote, remote \cup {e}}
  /\ Goto(s, "failing")
  /\ UNCHANGED <<queue, faults>>

\* Mutant: ack does not clear leased_at.
Acked_Leased(q) == [q EXCEPT !.state = "ACKED", !.due = TRUE]

Acked(q) == [q EXCEPT !.state = "ACKED", !.lease = "none", !.due = TRUE]

Ack(s, e) ==
  /\ At(s, e, "acking")
  /\ Store(e, Acked(queue[e]))
  /\ Goto(s, "delivered")
  /\ UNCHANGED <<remote, faults>>

\* SYNC_DELIVERED is appended.
Delivered(s, e) ==
  /\ At(s, e, "delivered")
  /\ Continue(s, e)
  /\ UNCHANGED <<queue, remote, faults>>

\* A repository call inside the try fails: handled like a failed delivery.
DeliveryFaults(s, e) ==
  /\ At(s, e, "acking") \/ At(s, e, "delivered")
  /\ faults < MaxFaults
  /\ faults' = faults + 1
  /\ Goto(s, "failing")
  /\ UNCHANGED <<queue, remote>>

\* Mutant: the budget is one attempt short.
BudgetSpent_Early(n) == n + 1 >= MaxAttempts - 1

\* Decided by the count the claim returned, not by the row's.
BudgetSpent(n) == n + 1 >= MaxAttempts

\* The row after fail(blocked): it counts the attempt and waits.
Failed(q, blocked) ==
  [state |-> IF blocked THEN "BLOCKED" ELSE "FAILED",
   attempts |-> IF q.attempts < MaxAttempts THEN q.attempts + 1 ELSE MaxAttempts,
   due |-> FALSE, lease |-> "none"]

Fail(s, e) ==
  /\ At(s, e, "failing")
  /\ Store(e, Failed(queue[e], BudgetSpent(pass[s].attempts)))
  /\ Continue(s, e)
  /\ UNCHANGED <<remote, faults>>

\* The process dies, or a call outside the try fails and ends sync_pending.
Stop(s) ==
  /\ pass[s].pc # "idle"
  /\ faults < MaxFaults
  /\ faults' = faults + 1
  /\ pass' = [pass EXCEPT ![s] = Idle]
  /\ UNCHANGED <<queue, remote>>

-----------------------------------------------------------------------------
(* The clock.                                                              *)

Expire(e) ==
  /\ queue[e].lease = "running"
  /\ Store(e, [queue[e] EXCEPT !.lease = "expired"])
  /\ UNCHANGED <<remote, pass, faults>>

ComeDue(e) ==
  /\ queue[e].state = "FAILED" /\ ~queue[e].due
  /\ Store(e, [queue[e] EXCEPT !.due = TRUE])
  /\ UNCHANGED <<remote, pass, faults>>

-----------------------------------------------------------------------------

Progress(s) ==
  \/ RecoverExpired(s) \/ ListReady(s)
  \/ \E e \in Envelopes :
       \/ ClaimRead(s, e) \/ ClaimUpdate(s, e) \/ ClaimReturn(s, e)
       \/ PublishAccepted(s, e) \/ PublishFails(s, e)
       \/ Ack(s, e) \/ Delivered(s, e) \/ Fail(s, e)

Next ==
  \/ \E e \in Envelopes : Enqueue(e) \/ Expire(e) \/ ComeDue(e)
  \/ \E s \in Syncers : \/ Progress(s) \/ Stop(s)
                        \/ \E e \in Envelopes : DeliveryFaults(s, e)

Spec == Init /\ [][Next]_vars

\* The command is run again and again, a pass that was started goes on, and
\* time passes.  Nothing is assumed of the sessions, and the transport may fail
\* for ever.
FairSpec ==
  /\ Spec
  /\ \A s \in Syncers : WF_vars(Progress(s))
  /\ \A e \in Envelopes : WF_vars(Expire(e)) /\ WF_vars(ComeDue(e))

-----------------------------------------------------------------------------
(* Properties.                                                             *)

\* Every variable has its type; a row has a lease exactly while IN_FLIGHT, and a
\* syncer has an envelope in hand exactly while it works on one.
TypeOK ==
  /\ queue \in [Envelopes -> Rows]
  /\ remote \subseteq Envelopes
  /\ pass \in [Syncers -> Passes]
  /\ faults \in 0..MaxFaults
  /\ \A s \in Syncers : pass[s].todo = {} <=> pass[s].pc \in {"idle", "listing"}

\* An envelope is ACKED, or about to be told SYNC_DELIVERED, only if the remote
\* endpoint has accepted it, however claims, leases and late answers overlap.
AckedWasAccepted ==
  \A e \in Envelopes :
    queue[e].state = "ACKED" \/ (\E s \in Syncers : At(s, e, "delivered")) => e \in remote

\* No envelope is given up early: BLOCKED means that the whole budget of failed
\* deliveries was counted, although a syncer decides by the count it read when it
\* claimed.
BlockedSpentBudget ==
  \A e \in Envelopes : queue[e].state = "BLOCKED" => queue[e].attempts = MaxAttempts

\* Nothing is forgotten: whatever fails, expires, dies or overlaps, a queued
\* envelope is acknowledged or blocked for intervention.
EventuallySettled ==
  \A e \in Envelopes :
    queue[e].state = "QUEUED" ~> queue[e].state \in {"ACKED", "BLOCKED"}

\* docs/02: "After the configured retry budget, an item becomes BLOCKED for
\* intervention", so it is not retryable any more.  (A publish that outlives its
\* lease fails late, and its fail overwrites BLOCKED by FAILED.)
BudgetBlocks ==
  \A e \in Envelopes : queue[e].attempts = MaxAttempts => ~Ready(queue[e])

-----------------------------------------------------------------------------
(* The inductive invariant behind the safety properties.                   *)

\* A syncer's count of an envelope never runs ahead of the row's.
CountInv ==
  \A s \in Syncers, e \in Envelopes :
    InHand(s, e) => pass[s].attempts <= queue[e].attempts

\* A syncer acknowledges only what the remote accepted.
AckInv == \A s \in Syncers, e \in Envelopes : At(s, e, "acking") => e \in remote

IInv == TypeOK /\ AckedWasAccepted /\ BlockedSpentBudget /\ CountInv /\ AckInv
=============================================================================
