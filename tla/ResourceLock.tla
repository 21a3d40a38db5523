--------------------------- MODULE ResourceLock ---------------------------
(***************************************************************************)
(* Cross-process resource locks: ResourceLockManager.acquire_many and the  *)
(* lease group it returns, next to StaleLockRecovery.                      *)
(*                                                                         *)
(* A resource is a persistent file with two independent facts: the kernel's*)
(* flock, which disappears with its process, and the metadata written in   *)
(* the file, which stays.  A process takes the flocks in sorted order,     *)
(* writes the metadata of each (truncate, then write) before it takes the  *)
(* next, and gives them back in reverse order.  Recovery first inspects    *)
(* every file, without the lock, and then marks the stale ones.            *)
(***************************************************************************)
EXTENDS Integers, FiniteSets

CONSTANTS Owners,     \* processes: pytest Runs and firmware operations
          Resources,  \* lock files; their numbers give the sorted order
          Needs,      \* Needs[a]: resources the operation of process a works on
          Nobody, Recovery

ASSUME ResourcesAssumption == Resources \subseteq Nat /\ IsFiniteSet(Resources)
ASSUME NeedsAssumption == Needs \in [Owners -> SUBSET Resources]
ASSUME NamesAssumption ==
  Nobody \notin Owners /\ Recovery \notin Owners /\ Nobody # Recovery

VARIABLES flock,  \* flock[r]: the process whose descriptor holds the lock
          meta,   \* meta[r]: the content of the lock file
          pc,     \* where each process is
          cur,    \* the resource it is working on
          leases, \* leases[a]: the leases the process believes it holds
          rec,    \* the recovery pass
          reused  \* dead processes whose PID another process has

lockVars == <<flock, meta, pc, cur, leases, rec>>
vars == <<lockVars, reused>>

\* "ABSENT": no such file.  "EMPTY": just created, or truncated and not written.
MetaStates == {"ABSENT", "EMPTY", "HELD", "RELEASED", "RECOVERED"}
Metas == [state : MetaStates, owner : Owners \cup {Nobody}, expired : BOOLEAN]
Empty == [state |-> "EMPTY", owner |-> Nobody, expired |-> TRUE]
Stamp(state, a) == [state |-> state, owner |-> a, expired |-> FALSE]

\* The steps of acquire, of a held lease, and of release; "dead" is final.
Acquiring == {"locking", "truncating", "writing"}
Releasing == {"clearing", "marking", "unlocking"}
Points == {"idle", "held", "renewing", "dead"} \cup Acquiring \cup Releasing

NoResource == -1

Goto(a, point) == pc' = [pc EXCEPT ![a] = point]
Smallest(r, S) == r \in S /\ \A s \in S : r <= s
Largest(r, S) == r \in S /\ \A s \in S : s <= r
Missing(a) == Needs[a] \ leases[a]
IsFree(r) == flock[r] = Nobody

\* Go on with the next resource of acquire_many, or return the lease group.
NextToLock(a, todo) ==
  \/ /\ todo = {}
     /\ Goto(a, "held")
     /\ cur' = [cur EXCEPT ![a] = NoResource]
  \/ \E r \in todo : /\ Smallest(r, todo)
                     /\ Goto(a, "locking")
                     /\ cur' = [cur EXCEPT ![a] = r]

\* Go on with the last acquired lease, or be done releasing.
NextToRelease(a, todo) ==
  \/ /\ todo = {}
     /\ Goto(a, "idle")
     /\ cur' = [cur EXCEPT ![a] = NoResource]
  \/ \E r \in todo : /\ Largest(r, todo)
                     /\ Goto(a, "clearing")
                     /\ cur' = [cur EXCEPT ![a] = r]

-----------------------------------------------------------------------------
(* acquire_many.                                                           *)

Request(a) ==
  /\ pc[a] = "idle"
  /\ Needs[a] # {}
  /\ NextToLock(a, Needs[a])
  /\ UNCHANGED <<flock, meta, leases, rec>>

\* Mutant: the flock call is not checked.
Lock_Unchecked(a) ==
  LET r == cur[a] IN
  /\ pc[a] = "locking"
  /\ flock' = [flock EXCEPT ![r] = a]
  /\ leases' = [leases EXCEPT ![a] = @ \cup {r}]
  /\ meta' = [meta EXCEPT ![r] = IF @.state = "ABSENT" THEN Empty ELSE @]
  /\ Goto(a, "truncating")
  /\ UNCHANGED <<cur, rec>>

\* open(O_CREAT) and flock(LOCK_EX | LOCK_NB).
Lock(a) ==
  LET r == cur[a] IN
  /\ pc[a] = "locking"
  /\ IsFree(r)
  /\ flock' = [flock EXCEPT ![r] = a]
  /\ leases' = [leases EXCEPT ![a] = @ \cup {r}]
  /\ meta' = [meta EXCEPT ![r] = IF @.state = "ABSENT" THEN Empty ELSE @]
  /\ Goto(a, "truncating")
  /\ UNCHANGED <<cur, rec>>

\* Mutant: a refused acquisition forgets what it has locked so far.
Refuse_Leaks(a) ==
  /\ pc[a] = "locking"
  /\ ~IsFree(cur[a])
  /\ NextToRelease(a, {})
  /\ UNCHANGED <<flock, meta, leases, rec>>

\* Mutant: no timeout.
Refuse_Never(a) == pc[a] = "locking" /\ FALSE /\ UNCHANGED lockVars

\* The lock is busy and the timeout has passed (the callers' timeout is 0):
\* the leases acquired so far are released.
Refuse(a) ==
  /\ pc[a] = "locking"
  /\ ~IsFree(cur[a])
  /\ NextToRelease(a, leases[a])
  /\ UNCHANGED <<flock, meta, leases, rec>>

Truncate(a) ==
  /\ pc[a] = "truncating"
  /\ meta' = [meta EXCEPT ![cur[a]] = Empty]
  /\ Goto(a, "writing")
  /\ UNCHANGED <<flock, cur, leases, rec>>

Write(a) ==
  /\ pc[a] = "writing"
  /\ meta' = [meta EXCEPT ![cur[a]] = Stamp("HELD", a)]
  /\ NextToLock(a, Missing(a))
  /\ UNCHANGED <<flock, leases, rec>>

\* A full disk: the lease just locked is released, then the others.
WriteFails(a) ==
  /\ pc[a] \in {"truncating", "writing"}
  /\ Goto(a, "clearing")
  /\ UNCHANGED <<flock, meta, cur, leases, rec>>

-----------------------------------------------------------------------------
(* The lease group.                                                        *)

\* renew rewrites the metadata of a lease; it may fail half way.
BeginRenew(a) ==
  /\ pc[a] = "held"
  /\ \E r \in leases[a] : /\ cur' = [cur EXCEPT ![a] = r]
                          /\ meta' = [meta EXCEPT ![r] = Empty]
  /\ Goto(a, "renewing")
  /\ UNCHANGED <<flock, leases, rec>>

EndRenew(a) ==
  /\ pc[a] = "renewing"
  /\ \E written \in BOOLEAN :
       meta' = IF written THEN [meta EXCEPT ![cur[a]] = Stamp("HELD", a)] ELSE meta
  /\ cur' = [cur EXCEPT ![a] = NoResource]
  /\ Goto(a, "held")
  /\ UNCHANGED <<flock, leases, rec>>

Release(a) ==
  /\ pc[a] = "held"
  /\ NextToRelease(a, leases[a])
  /\ UNCHANGED <<flock, meta, leases, rec>>

Clear(a) ==
  /\ pc[a] = "clearing"
  /\ meta' = [meta EXCEPT ![cur[a]] = Empty]
  /\ Goto(a, "marking")
  /\ UNCHANGED <<flock, cur, leases, rec>>

MarkReleased(a) ==
  /\ pc[a] = "marking"
  /\ meta' = [meta EXCEPT ![cur[a]] = Stamp("RELEASED", a)]
  /\ Goto(a, "unlocking")
  /\ UNCHANGED <<flock, cur, leases, rec>>

\* A lease whose metadata cannot be written is unlocked all the same.
MarkFails(a) ==
  /\ pc[a] \in {"clearing", "marking"}
  /\ Goto(a, "unlocking")
  /\ UNCHANGED <<flock, meta, cur, leases, rec>>

Unlock(a) ==
  LET r == cur[a] IN
  /\ pc[a] = "unlocking"
  /\ flock' = [flock EXCEPT ![r] = Nobody]
  /\ leases' = [leases EXCEPT ![a] = @ \ {r}]
  /\ NextToRelease(a, leases[a] \ {r})
  /\ UNCHANGED <<meta, rec>>

\* The process ends, by itself or not: the kernel drops its flocks, the
\* metadata stays.
Die(a) ==
  /\ pc[a] # "dead"
  /\ Goto(a, "dead")
  /\ flock' = [r \in Resources |-> IF flock[r] = a THEN Nobody ELSE flock[r]]
  /\ leases' = [leases EXCEPT ![a] = {}]
  /\ cur' = [cur EXCEPT ![a] = NoResource]
  /\ UNCHANGED <<meta, rec>>

\* expires_at passes; nothing enforces it.
Expire(r) ==
  /\ meta[r].state # "ABSENT"
  /\ ~meta[r].expired
  /\ meta' = [meta EXCEPT ![r].expired = TRUE]
  /\ UNCHANGED <<flock, pc, cur, leases, rec>>

-----------------------------------------------------------------------------
(* StaleLockRecovery.recover.                                              *)

RecPoints == {"inspect", "probe", "probed", "recover", "locked", "unlock"}
Recs == [pc : RecPoints, todo : SUBSET Resources, snap : Metas, stale : SUBSET Resources]

\* Mutant: any owner that is named counts as alive.
OwnerAlive_Named(m) == m.owner # Nobody

\* _owner_alive asks the kernel for the PID only: whoever has it now counts as the
\* owner.  Metadata without an owner counts as dead.
OwnerAlive(m) == m.owner # Nobody /\ (pc[m.owner] = "dead" => m.owner \in reused)
Stale(m) == m.expired /\ ~OwnerAlive(m) /\ m.state \in {"HELD", "EMPTY"}

NewPass == [pc |-> "inspect", todo |-> Resources, snap |-> Empty, stale |-> {}]

\* After the last file of inspect the stale ones are recovered in order.
AfterInspect(r, stale) ==
  LET todo == rec.todo \ {r} IN
  IF todo # {} THEN [rec EXCEPT !.pc = "inspect", !.todo = todo, !.stale = stale]
  ELSE IF stale # {} THEN [rec EXCEPT !.pc = "recover", !.todo = stale, !.stale = {}]
  ELSE NewPass

AfterRecover(r) ==
  IF rec.todo = {r} THEN NewPass
  ELSE [rec EXCEPT !.pc = "recover", !.todo = @ \ {r}]

\* The metadata is read without the lock.
InspectRead ==
  /\ rec.pc = "inspect"
  /\ \E r \in rec.todo :
       /\ Smallest(r, rec.todo)
       /\ rec' = IF meta[r].state = "ABSENT" THEN AfterInspect(r, rec.stale)
                 ELSE [rec EXCEPT !.pc = "probe", !.snap = meta[r]]
  /\ UNCHANGED <<flock, meta, pc, cur, leases>>

\* The probe takes the lock for a moment.
Probe ==
  /\ rec.pc = "probe"
  /\ \E r \in rec.todo :
       /\ Smallest(r, rec.todo)
       /\ IF IsFree(r)
          THEN /\ flock' = [flock EXCEPT ![r] = Recovery]
               /\ rec' = [rec EXCEPT !.pc = "probed"]
          ELSE /\ rec' = AfterInspect(r, rec.stale)
               /\ UNCHANGED flock
  /\ UNCHANGED <<meta, pc, cur, leases>>

Probed ==
  /\ rec.pc = "probed"
  /\ \E r \in rec.todo :
       /\ Smallest(r, rec.todo)
       /\ flock' = [flock EXCEPT ![r] = Nobody]
       /\ rec' = AfterInspect(r, IF Stale(rec.snap) THEN rec.stale \cup {r} ELSE rec.stale)
  /\ UNCHANGED <<meta, pc, cur, leases>>

\* Mutant: the files found stale are not locked again.
Relock_Trusting ==
  /\ rec.pc = "recover"
  /\ rec' = [rec EXCEPT !.pc = "locked"]
  /\ UNCHANGED <<flock, meta, pc, cur, leases>>

\* The lock is taken again, without waiting, ...
Relock ==
  /\ rec.pc = "recover"
  /\ \E r \in rec.todo :
       /\ Smallest(r, rec.todo)
       /\ IF IsFree(r)
          THEN /\ flock' = [flock EXCEPT ![r] = Recovery]
               /\ rec' = [rec EXCEPT !.pc = "locked"]
          ELSE /\ rec' = AfterRecover(r)
               /\ UNCHANGED flock
  /\ UNCHANGED <<meta, pc, cur, leases>>

\* Mutant: recovery signs the metadata.
MarkRecovered_Signed ==
  /\ rec.pc = "locked"
  /\ \E r \in rec.todo :
       /\ Smallest(r, rec.todo)
       /\ meta' = [meta EXCEPT ![r] = [@ EXCEPT !.state = "RECOVERED", !.owner = Recovery]]
  /\ rec' = [rec EXCEPT !.pc = "unlock"]
  /\ UNCHANGED <<flock, pc, cur, leases>>

\* ... and whatever metadata is in the file by now becomes RECOVERED.
MarkRecovered ==
  /\ rec.pc = "locked"
  /\ \E r \in rec.todo :
       /\ Smallest(r, rec.todo)
       /\ meta' = [meta EXCEPT ![r] = [@ EXCEPT !.state = "RECOVERED", !.expired = TRUE]]
  /\ rec' = [rec EXCEPT !.pc = "unlock"]
  /\ UNCHANGED <<flock, pc, cur, leases>>

RecoveryUnlock ==
  /\ rec.pc = "unlock"
  /\ \E r \in rec.todo :
       /\ Smallest(r, rec.todo)
       /\ flock' = [flock EXCEPT ![r] = Nobody]
       /\ rec' = AfterRecover(r)
  /\ UNCHANGED <<meta, pc, cur, leases>>

RecoveryStep ==
  \/ InspectRead \/ Probe \/ Probed \/ Relock \/ MarkRecovered \/ RecoveryUnlock

-----------------------------------------------------------------------------
\* The kernel gives the PID of a dead process to another one, and that one ends.
ReusePid(a) == pc[a] = "dead" /\ reused' = reused \cup {a}
FreePid(a) == reused' = reused \ {a}

Init ==
  /\ flock = [r \in Resources |-> Nobody]
  /\ meta = [r \in Resources |-> [Empty EXCEPT !.state = "ABSENT"]]
  /\ pc = [a \in Owners |-> "idle"]
  /\ cur = [a \in Owners |-> NoResource]
  /\ leases = [a \in Owners |-> {}]
  /\ rec = NewPass
  /\ reused = {}

\* What a process does by itself once it asked for its resources.
Progress(a) ==
  \/ Lock(a) \/ Refuse(a) \/ Truncate(a) \/ Write(a) \/ WriteFails(a)
  \/ EndRenew(a) \/ Release(a) \/ Clear(a) \/ MarkReleased(a) \/ MarkFails(a) \/ Unlock(a)

Next ==
  \/ /\ \/ \E a \in Owners : Request(a) \/ BeginRenew(a) \/ Die(a) \/ Progress(a)
        \/ \E r \in Resources : Expire(r)
        \/ RecoveryStep
     /\ UNCHANGED reused
  \/ (\E a \in Owners : ReusePid(a) \/ FreePid(a)) /\ UNCHANGED lockVars

Spec == Init /\ [][Next]_vars

\* Processes run, time passes and recovery is run over and over; nobody has to
\* ask for resources or to die, and nothing is said of PIDs.
FairSpec ==
  /\ Spec
  /\ \A a \in Owners : WF_vars(Progress(a) /\ UNCHANGED reused)
  /\ \A r \in Resources : WF_vars(Expire(r) /\ UNCHANGED reused)
  /\ WF_vars(RecoveryStep /\ UNCHANGED reused)

-----------------------------------------------------------------------------
(* Properties.                                                             *)

\* Every variable has its type; a process between two resources has none.
TypeOK ==
  /\ flock \in [Resources -> Owners \cup {Nobody, Recovery}]
  /\ meta \in [Resources -> Metas]
  /\ pc \in [Owners -> Points]
  /\ cur \in [Owners -> Resources \cup {NoResource}]
  /\ leases \in [Owners -> SUBSET Resources]
  /\ rec \in Recs
  /\ reused \subseteq Owners

\* The leases a process believes it holds are the flocks the kernel holds for it,
\* so no two processes have a lease of the same resource, whatever recovery does
\* and whether leases expired, processes died or metadata writes failed.
LeasesAreLocked == \A a \in Owners : leases[a] = {r \in Resources : flock[r] = a}

\* acquire_many gives all or nothing: an operation runs with every resource it
\* needs, and a refused, released or dead one holds none (nothing leaks).
AllOrNothing ==
  \A a \in Owners :
    /\ pc[a] \in {"held", "renewing"} => leases[a] = Needs[a]
    /\ pc[a] \in {"idle", "dead"} => leases[a] = {}

\* The file of a resource in use names its user, or is empty because a renewal
\* is under way or failed: neither stale recovery nor a late writer marks it.
HolderMetadata ==
  \A a \in Owners : pc[a] \in {"held", "renewing"} =>
    \A r \in Needs[a] : \/ meta[r].state = "HELD" /\ meta[r].owner = a
                        \/ meta[r].state = "EMPTY"

-----------------------------------------------------------------------------
(* The inductive invariant behind them.                                    *)

\* A process works on a resource it needs: not yet leased while it is locking,
\* leased from the flock to the unlock.
WorkInv ==
  \A a \in Owners :
    /\ leases[a] \subseteq Needs[a]
    /\ pc[a] = "locking" => cur[a] \in Needs[a] \ leases[a]
    /\ pc[a] \in {"truncating", "writing", "renewing"} \cup Releasing => cur[a] \in leases[a]

\* Recovery holds the flock of the file it probes or marks.
RecoveryInv ==
  rec.pc \in {"probed", "locked", "unlock"} =>
    \A r \in Resources : Smallest(r, rec.todo) => flock[r] = Recovery

\* The files of the resources a process has locked and written so far are its own.
MetadataInv ==
  \A a \in Owners : pc[a] \in {"held", "renewing"} \cup Acquiring =>
    \A r \in leases[a] :
      \/ pc[a] = "truncating" /\ r = cur[a]
      \/ meta[r].state = "HELD" /\ meta[r].owner = a
      \/ meta[r].state = "EMPTY"

IInv ==
  TypeOK /\ LeasesAreLocked /\ AllOrNothing /\ WorkInv /\ RecoveryInv /\ MetadataInv

-----------------------------------------------------------------------------
(* The abstract specification, liveness, and what the code does not keep.  *)

Admitted == {a \in Owners : pc[a] \in {"held", "renewing"}}
Exclusive == INSTANCE Exclusion WITH admitted <- Admitted

\* "Two conflicting Runs cannot share a locked resource": the processes that got
\* their lease group are admitted and dismissed as Exclusion says.
ImplementsExclusion == Exclusive!Spec

\* Every acquire_many ends: with the lease group, refused, or with its process.
RequestDecided ==
  \A a \in Owners : pc[a] = "locking" ~> pc[a] \in {"held", "idle", "dead"}

\* In a lab nobody uses any more, recovery alone gets rid of the metadata that a
\* dead process left behind as HELD, unless its PID is in use again for good.
Quiet == reused = {} /\ \A a \in Owners : pc[a] \in {"idle", "dead"}
Abandoned(a, r) == pc[a] = "dead" /\ meta[r].state = "HELD" /\ meta[r].owner = a
AbandonedRecovered ==
  <>[]Quiet => \A a \in Owners, r \in Resources : Abandoned(a, r) ~> ~Abandoned(a, r)

\* "Stale recovery can mark expired/dead-owner metadata recovered" (docs/02), of
\* "abandoned, unlocked leases" (recover).  (The code marks whatever the file
\* holds when the lock is taken again, also what a live owner wrote since.)
MarksOnlyStale ==
  [][\A r \in Resources :
       meta'[r].state = "RECOVERED" /\ meta[r].state # "RECOVERED" =>
         meta[r].expired \/ ~OwnerAlive(meta[r])]_meta
=============================================================================
