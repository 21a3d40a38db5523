------------------------ MODULE ResourceLockProofs ------------------------
(***************************************************************************)
(* Proofs for ResourceLock: the inductive invariant IInv, the safety       *)
(* properties that follow from it, and that the locks implement Exclusion. *)
(***************************************************************************)
EXTENDS ResourceLock, TLAPS

USE ResourcesAssumption, NeedsAssumption, NamesAssumption

\* A set of numbers has at most one smallest member.
LEMMA SmallestUnique ==
  ASSUME NEW S \in SUBSET Resources, NEW r, NEW s, Smallest(r, S), Smallest(s, S)
  PROVE  r = s
BY SMT DEF Smallest

LEMMA InitIInv == Init => IInv
<1> SUFFICES ASSUME Init PROVE IInv
  OBVIOUS
<1> USE DEF Init
<1>1. TypeOK
  BY DEF TypeOK, Metas, MetaStates, Empty, Points, NoResource, Recs, RecPoints, NewPass
<1>2. LeasesAreLocked /\ AllOrNothing /\ WorkInv
  BY DEF LeasesAreLocked, AllOrNothing, WorkInv, Releasing
<1>3. RecoveryInv /\ MetadataInv
  BY DEF RecoveryInv, MetadataInv, NewPass, Acquiring
<1> QED
  BY <1>1, <1>2, <1>3 DEF IInv

LEMMA RequestStep == ASSUME IInv, NEW a \in Owners, Request(a), UNCHANGED reused PROVE IInv'
<1> USE DEF Request, NextToLock, Goto, Missing, Smallest, NoResource
<1>1. TypeOK'
  BY DEF IInv, TypeOK, Metas, MetaStates, Points, Acquiring, Releasing, WorkInv
<1>2. LeasesAreLocked'
  BY DEF IInv, TypeOK, LeasesAreLocked, WorkInv, Acquiring, Releasing
<1>3. AllOrNothing'
  BY DEF IInv, TypeOK, AllOrNothing, LeasesAreLocked, WorkInv
<1>4. WorkInv'
  BY DEF IInv, TypeOK, WorkInv, AllOrNothing, Releasing
<1>5. RecoveryInv'
  BY DEF IInv, TypeOK, RecoveryInv, LeasesAreLocked, WorkInv, Smallest, Releasing
<1>6. MetadataInv'
  BY DEF IInv, TypeOK, MetadataInv, LeasesAreLocked, AllOrNothing, WorkInv, Acquiring, Releasing
<1> QED
  BY <1>1, <1>2, <1>3, <1>4, <1>5, <1>6 DEF IInv

LEMMA LockStep == ASSUME IInv, NEW a \in Owners, Lock(a), UNCHANGED reused PROVE IInv'
<1> USE DEF Lock, Goto, IsFree, Empty, NoResource
<1>1. TypeOK'
  BY DEF IInv, TypeOK, Metas, MetaStates, Points, Acquiring, Releasing, WorkInv
<1>2. LeasesAreLocked'
  BY DEF IInv, TypeOK, LeasesAreLocked, WorkInv, Acquiring, Releasing
<1>3. AllOrNothing'
  BY DEF IInv, TypeOK, AllOrNothing, LeasesAreLocked, WorkInv
<1>4. WorkInv'
  BY DEF IInv, TypeOK, WorkInv, AllOrNothing, Releasing
<1>5. RecoveryInv'
  BY DEF IInv, TypeOK, RecoveryInv, LeasesAreLocked, WorkInv, Smallest, Releasing
<1>6. MetadataInv'
  <2> SUFFICES ASSUME NEW b \in Owners, pc'[b] \in {"held", "renewing"} \cup Acquiring,
                      NEW r \in leases'[b]
               PROVE  \/ pc'[b] = "truncating" /\ r = cur'[b]
                      \/ meta'[r].state = "HELD" /\ meta'[r].owner = b
                      \/ meta'[r].state = "EMPTY"
    BY DEF MetadataInv
  <2>1. CASE b = a
    BY <2>1 DEF IInv, TypeOK, Metas, MetadataInv, AllOrNothing, WorkInv, Acquiring, Releasing
  <2>2. CASE b # a
    <3>1. /\ pc'[b] = pc[b] /\ cur'[b] = cur[b] /\ leases'[b] = leases[b]
      BY <2>2 DEF IInv, TypeOK
    <3>2. r # cur[a]
      BY <2>2, <3>1 DEF IInv, TypeOK, LeasesAreLocked, WorkInv, Releasing
    <3> QED
      BY <3>1, <3>2 DEF IInv, TypeOK, Metas, MetadataInv, Acquiring
  <2> QED
    BY <2>1, <2>2
<1> QED
  BY <1>1, <1>2, <1>3, <1>4, <1>5, <1>6 DEF IInv

LEMMA RefuseStep == ASSUME IInv, NEW a \in Owners, Refuse(a), UNCHANGED reused PROVE IInv'
<1> USE DEF Refuse, NextToRelease, Goto, IsFree, Largest, NoResource
<1>1. TypeOK'
  BY DEF IInv, TypeOK, Metas, MetaStates, Points, Acquiring, Releasing, WorkInv
<1>2. LeasesAreLocked'
  BY DEF IInv, TypeOK, LeasesAreLocked, WorkInv, Acquiring, Releasing
<1>3. AllOrNothing'
  BY DEF IInv, TypeOK, AllOrNothing, LeasesAreLocked, WorkInv
<1>4. WorkInv'
  BY DEF IInv, TypeOK, WorkInv, AllOrNothing, Releasing
<1>5. RecoveryInv'
  BY DEF IInv, TypeOK, RecoveryInv, LeasesAreLocked, WorkInv, Smallest, Releasing
<1>6. MetadataInv'
  <2>1. pc'[a] \notin {"held", "renewing"} \cup Acquiring
    BY DEF IInv, TypeOK, Acquiring
  <2>2. \A b \in Owners \ {a} : pc'[b] = pc[b] /\ cur'[b] = cur[b]
    BY DEF IInv, TypeOK
  <2> QED
    BY <2>1, <2>2 DEF IInv, MetadataInv
<1> QED
  BY <1>1, <1>2, <1>3, <1>4, <1>5, <1>6 DEF IInv

LEMMA TruncateStep == ASSUME IInv, NEW a \in Owners, Truncate(a), UNCHANGED reused PROVE IInv'
<1> USE DEF Truncate, Goto, Empty, NoResource
<1>1. TypeOK'
  BY DEF IInv, TypeOK, Metas, MetaStates, Points, Acquiring, Releasing, WorkInv
<1>2. LeasesAreLocked'
  BY DEF IInv, TypeOK, LeasesAreLocked, WorkInv, Acquiring, Releasing
<1>3. AllOrNothing'
  BY DEF IInv, TypeOK, AllOrNothing, LeasesAreLocked, WorkInv
<1>4. WorkInv'
  BY DEF IInv, TypeOK, WorkInv, AllOrNothing, Releasing
<1>5. RecoveryInv'
  BY DEF IInv, TypeOK, RecoveryInv, LeasesAreLocked, WorkInv, Smallest, Releasing
<1>6. MetadataInv'
  BY DEF IInv, TypeOK, MetadataInv, LeasesAreLocked, AllOrNothing, WorkInv, Acquiring, Releasing
<1> QED
  BY <1>1, <1>2, <1>3, <1>4, <1>5, <1>6 DEF IInv

LEMMA WriteStep == ASSUME IInv, NEW a \in Owners, Write(a), UNCHANGED reused PROVE IInv'
<1> USE DEF Write, NextToLock, Goto, Missing, Smallest, Stamp, NoResource
<1>1. TypeOK'
  BY DEF IInv, TypeOK, Metas, MetaStates, Points, Acquiring, Releasing, WorkInv
<1>2. LeasesAreLocked'
  BY DEF IInv, TypeOK, LeasesAreLocked, WorkInv, Acquiring, Releasing
<1>3. AllOrNothing'
  <2>1. pc'[a] = "held" => Needs[a] = leases[a]
    BY DEF IInv, TypeOK, WorkInv
  <2>2. pc'[a] \in {"held", "locking"} /\ \A b \in Owners \ {a} : pc'[b] = pc[b]
    BY DEF IInv, TypeOK
  <2> QED
    BY <2>1, <2>2 DEF IInv, AllOrNothing
<1>4. WorkInv'
  BY DEF IInv, TypeOK, WorkInv, AllOrNothing, Releasing
<1>5. RecoveryInv'
  BY DEF IInv, TypeOK, RecoveryInv, LeasesAreLocked, WorkInv, Smallest, Releasing
<1>6. MetadataInv'
  <2> SUFFICES ASSUME NEW b \in Owners, pc'[b] \in {"held", "renewing"} \cup Acquiring,
                      NEW r \in leases'[b]
               PROVE  \/ pc'[b] = "truncating" /\ r = cur'[b]
                      \/ meta'[r].state = "HELD" /\ meta'[r].owner = b
                      \/ meta'[r].state = "EMPTY"
    BY DEF MetadataInv
  <2>1. CASE b = a
    BY <2>1 DEF IInv, TypeOK, Metas, MetadataInv, AllOrNothing, WorkInv, Acquiring, Releasing
  <2>2. CASE b # a
    <3>1. /\ pc'[b] = pc[b] /\ cur'[b] = cur[b] /\ leases'[b] = leases[b]
      BY <2>2 DEF IInv, TypeOK
    <3>2. r # cur[a]
      BY <2>2, <3>1 DEF IInv, TypeOK, LeasesAreLocked, WorkInv, Releasing
    <3> QED
      BY <3>1, <3>2 DEF IInv, TypeOK, Metas, MetadataInv, Acquiring
  <2> QED
    BY <2>1, <2>2
<1> QED
  BY <1>1, <1>2, <1>3, <1>4, <1>5, <1>6 DEF IInv

LEMMA WriteFailsStep == ASSUME IInv, NEW a \in Owners, WriteFails(a), UNCHANGED reused PROVE IInv'
<1> USE DEF WriteFails, Goto, NoResource
<1>1. TypeOK'
  BY DEF IInv, TypeOK, Metas, MetaStates, Points, Acquiring, Releasing, WorkInv
<1>2. LeasesAreLocked'
  BY DEF IInv, TypeOK, LeasesAreLocked, WorkInv, Acquiring, Releasing
<1>3. AllOrNothing'
  BY DEF IInv, TypeOK, AllOrNothing, LeasesAreLocked, WorkInv
<1>4. WorkInv'
  BY DEF IInv, TypeOK, WorkInv, AllOrNothing, Releasing
<1>5. RecoveryInv'
  BY DEF IInv, TypeOK, RecoveryInv, LeasesAreLocked, WorkInv, Smallest, Releasing
<1>6. MetadataInv'
  BY DEF IInv, TypeOK, MetadataInv, LeasesAreLocked, AllOrNothing, WorkInv, Acquiring, Releasing
<1> QED
  BY <1>1, <1>2, <1>3, <1>4, <1>5, <1>6 DEF IInv

LEMMA BeginRenewStep == ASSUME IInv, NEW a \in Owners, BeginRenew(a), UNCHANGED reused PROVE IInv'
<1> USE DEF BeginRenew, Goto, Empty, NoResource
<1>1. TypeOK'
  BY DEF IInv, TypeOK, Metas, MetaStates, Points, Acquiring, Releasing, WorkInv
<1>2. LeasesAreLocked'
  BY DEF IInv, TypeOK, LeasesAreLocked, WorkInv, Acquiring, Releasing
<1>3. AllOrNothing'
  BY DEF IInv, TypeOK, AllOrNothing, LeasesAreLocked, WorkInv
<1>4. WorkInv'
  BY DEF IInv, TypeOK, WorkInv, AllOrNothing, Releasing
<1>5. RecoveryInv'
  BY DEF IInv, TypeOK, RecoveryInv, LeasesAreLocked, WorkInv, Smallest, Releasing
<1>6. MetadataInv'
  <2> SUFFICES ASSUME NEW b \in Owners, pc'[b] \in {"held", "renewing"} \cup Acquiring,
                      NEW r \in leases'[b]
               PROVE  \/ pc'[b] = "truncating" /\ r = cur'[b]
                      \/ meta'[r].state = "HELD" /\ meta'[r].owner = b
                      \/ meta'[r].state = "EMPTY"
    BY DEF MetadataInv
  <2>1. CASE b = a
    BY <2>1 DEF IInv, TypeOK, Metas, MetadataInv, AllOrNothing, WorkInv, Acquiring, Releasing
  <2>2. CASE b # a
    <3>1. /\ pc'[b] = pc[b] /\ cur'[b] = cur[b] /\ leases'[b] = leases[b]
      BY <2>2 DEF IInv, TypeOK
    <3>2. r # cur'[a]
      BY <2>2, <3>1 DEF IInv, TypeOK, LeasesAreLocked, WorkInv, Releasing
    <3> QED
      BY <3>1, <3>2 DEF IInv, TypeOK, Metas, MetadataInv, Acquiring
  <2> QED
    BY <2>1, <2>2
<1> QED
  BY <1>1, <1>2, <1>3, <1>4, <1>5, <1>6 DEF IInv

LEMMA EndRenewStep == ASSUME IInv, NEW a \in Owners, EndRenew(a), UNCHANGED reused PROVE IInv'
<1> USE DEF EndRenew, Goto, Stamp, NoResource
<1>1. TypeOK'
  BY DEF IInv, TypeOK, Metas, MetaStates, Points, Acquiring, Releasing, WorkInv
<1>2. LeasesAreLocked'
  BY DEF IInv, TypeOK, LeasesAreLocked, WorkInv, Acquiring, Releasing
<1>3. AllOrNothing'
  BY DEF IInv, TypeOK, AllOrNothing, LeasesAreLocked, WorkInv
<1>4. WorkInv'
  BY DEF IInv, TypeOK, WorkInv, AllOrNothing, Releasing
<1>5. RecoveryInv'
  BY DEF IInv, TypeOK, RecoveryInv, LeasesAreLocked, WorkInv, Smallest, Releasing
<1>6. MetadataInv'
  BY DEF IInv, TypeOK, MetadataInv, LeasesAreLocked, AllOrNothing, WorkInv, Acquiring, Releasing
<1> QED
  BY <1>1, <1>2, <1>3, <1>4, <1>5, <1>6 DEF IInv

LEMMA ReleaseStep == ASSUME IInv, NEW a \in Owners, Release(a), UNCHANGED reused PROVE IInv'
<1> USE DEF Release, NextToRelease, Goto, Largest, NoResource
<1>1. TypeOK'
  BY DEF IInv, TypeOK, Metas, MetaStates, Points, Acquiring, Releasing, WorkInv
<1>2. LeasesAreLocked'
  BY DEF IInv, TypeOK, LeasesAreLocked, WorkInv, Acquiring, Releasing
<1>3. AllOrNothing'
  BY DEF IInv, TypeOK, AllOrNothing, LeasesAreLocked, WorkInv
<1>4. WorkInv'
  BY DEF IInv, TypeOK, WorkInv, AllOrNothing, Releasing
<1>5. RecoveryInv'
  BY DEF IInv, TypeOK, RecoveryInv, LeasesAreLocked, WorkInv, Smallest, Releasing
<1>6. MetadataInv'
  BY DEF IInv, TypeOK, MetadataInv, LeasesAreLocked, AllOrNothing, WorkInv, Acquiring, Releasing
<1> QED
  BY <1>1, <1>2, <1>3, <1>4, <1>5, <1>6 DEF IInv

LEMMA ClearStep == ASSUME IInv, NEW a \in Owners, Clear(a), UNCHANGED reused PROVE IInv'
<1> USE DEF Clear, Goto, Empty, NoResource
<1>1. TypeOK'
  BY DEF IInv, TypeOK, Metas, MetaStates, Points, Acquiring, Releasing, WorkInv
<1>2. LeasesAreLocked'
  BY DEF IInv, TypeOK, LeasesAreLocked, WorkInv, Acquiring, Releasing
<1>3. AllOrNothing'
  BY DEF IInv, TypeOK, AllOrNothing, LeasesAreLocked, WorkInv
<1>4. WorkInv'
  BY DEF IInv, TypeOK, WorkInv, AllOrNothing, Releasing
<1>5. RecoveryInv'
  BY DEF IInv, TypeOK, RecoveryInv, LeasesAreLocked, WorkInv, Smallest, Releasing
<1>6. MetadataInv'
  BY DEF IInv, TypeOK, MetadataInv, LeasesAreLocked, AllOrNothing, WorkInv, Acquiring, Releasing
<1> QED
  BY <1>1, <1>2, <1>3, <1>4, <1>5, <1>6 DEF IInv

LEMMA MarkReleasedStep ==
  ASSUME IInv, NEW a \in Owners, MarkReleased(a), UNCHANGED reused PROVE IInv'
<1> USE DEF MarkReleased, Goto, Stamp, NoResource
<1>1. TypeOK'
  BY DEF IInv, TypeOK, Metas, MetaStates, Points, Acquiring, Releasing, WorkInv
<1>2. LeasesAreLocked'
  BY DEF IInv, TypeOK, LeasesAreLocked, WorkInv, Acquiring, Releasing
<1>3. AllOrNothing'
  BY DEF IInv, TypeOK, AllOrNothing, LeasesAreLocked, WorkInv
<1>4. WorkInv'
  BY DEF IInv, TypeOK, WorkInv, AllOrNothing, Releasing
<1>5. RecoveryInv'
  BY DEF IInv, TypeOK, RecoveryInv, LeasesAreLocked, WorkInv, Smallest, Releasing
<1>6. MetadataInv'
  BY DEF IInv, TypeOK, MetadataInv, LeasesAreLocked, AllOrNothing, WorkInv, Acquiring, Releasing
<1> QED
  BY <1>1, <1>2, <1>3, <1>4, <1>5, <1>6 DEF IInv

LEMMA MarkFailsStep == ASSUME IInv, NEW a \in Owners, MarkFails(a), UNCHANGED reused PROVE IInv'
<1> USE DEF MarkFails, Goto, NoResource
<1>1. TypeOK'
  BY DEF IInv, TypeOK, Metas, MetaStates, Points, Acquiring, Releasing, WorkInv
<1>2. LeasesAreLocked'
  BY DEF IInv, TypeOK, LeasesAreLocked, WorkInv, Acquiring, Releasing
<1>3. AllOrNothing'
  BY DEF IInv, TypeOK, AllOrNothing, LeasesAreLocked, WorkInv
<1>4. WorkInv'
  BY DEF IInv, TypeOK, WorkInv, AllOrNothing, Releasing
<1>5. RecoveryInv'
  BY DEF IInv, TypeOK, RecoveryInv, LeasesAreLocked, WorkInv, Smallest, Releasing
<1>6. MetadataInv'
  BY DEF IInv, TypeOK, MetadataInv, LeasesAreLocked, AllOrNothing, WorkInv, Acquiring, Releasing
<1> QED
  BY <1>1, <1>2, <1>3, <1>4, <1>5, <1>6 DEF IInv

LEMMA UnlockStep == ASSUME IInv, NEW a \in Owners, Unlock(a), UNCHANGED reused PROVE IInv'
<1> USE DEF Unlock, NextToRelease, Goto, Largest, NoResource
<1>1. TypeOK'
  BY DEF IInv, TypeOK, Metas, MetaStates, Points, Acquiring, Releasing, WorkInv
<1>2. LeasesAreLocked'
  BY DEF IInv, TypeOK, LeasesAreLocked, WorkInv, Acquiring, Releasing
<1>3. AllOrNothing'
  BY DEF IInv, TypeOK, AllOrNothing, LeasesAreLocked, WorkInv
<1>4. WorkInv'
  BY DEF IInv, TypeOK, WorkInv, AllOrNothing, Releasing
<1>5. RecoveryInv'
  BY DEF IInv, TypeOK, RecoveryInv, LeasesAreLocked, WorkInv, Smallest, Releasing
<1>6. MetadataInv'
  <2> SUFFICES ASSUME NEW b \in Owners, pc'[b] \in {"held", "renewing"} \cup Acquiring,
                      NEW r \in leases'[b]
               PROVE  \/ pc'[b] = "truncating" /\ r = cur'[b]
                      \/ meta'[r].state = "HELD" /\ meta'[r].owner = b
                      \/ meta'[r].state = "EMPTY"
    BY DEF MetadataInv
  <2>1. CASE b = a
    BY <2>1 DEF IInv, TypeOK, Metas, MetadataInv, AllOrNothing, WorkInv, Acquiring, Releasing
  <2>2. CASE b # a
    <3>1. /\ pc'[b] = pc[b] /\ cur'[b] = cur[b] /\ leases'[b] = leases[b]
      BY <2>2 DEF IInv, TypeOK
    <3>2. r # cur[a]
      BY <2>2, <3>1 DEF IInv, TypeOK, LeasesAreLocked, WorkInv, Releasing
    <3> QED
      BY <3>1, <3>2 DEF IInv, TypeOK, Metas, MetadataInv, Acquiring
  <2> QED
    BY <2>1, <2>2
<1> QED
  BY <1>1, <1>2, <1>3, <1>4, <1>5, <1>6 DEF IInv

LEMMA DieStep == ASSUME IInv, NEW a \in Owners, Die(a), UNCHANGED reused PROVE IInv'
<1> USE DEF Die, Goto, NoResource
<1>1. TypeOK'
  BY DEF IInv, TypeOK, Metas, MetaStates, Points, Acquiring, Releasing, WorkInv
<1>2. LeasesAreLocked'
  BY DEF IInv, TypeOK, LeasesAreLocked, WorkInv, Acquiring, Releasing
<1>3. AllOrNothing'
  BY DEF IInv, TypeOK, AllOrNothing, LeasesAreLocked, WorkInv
<1>4. WorkInv'
  BY DEF IInv, TypeOK, WorkInv, AllOrNothing, Releasing
<1>5. RecoveryInv'
  BY DEF IInv, TypeOK, RecoveryInv, LeasesAreLocked, WorkInv, Smallest, Releasing
<1>6. MetadataInv'
  BY DEF IInv, TypeOK, MetadataInv, LeasesAreLocked, AllOrNothing, WorkInv, Acquiring, Releasing
<1> QED
  BY <1>1, <1>2, <1>3, <1>4, <1>5, <1>6 DEF IInv

LEMMA ExpireStep == ASSUME IInv, NEW r \in Resources, Expire(r), UNCHANGED reused PROVE IInv'
<1> USE DEF Expire
<1>1. TypeOK'
  BY DEF IInv, TypeOK, Metas, MetaStates
<1>2. LeasesAreLocked' /\ AllOrNothing' /\ WorkInv' /\ RecoveryInv'
  BY DEF IInv, TypeOK, LeasesAreLocked, AllOrNothing, WorkInv, RecoveryInv
<1>3. MetadataInv'
  BY DEF IInv, TypeOK, Metas, MetadataInv
<1> QED
  BY <1>1, <1>2, <1>3 DEF IInv

\* The helpers that choose what a recovery pass does next leave it between files.
LEMMA AfterInspectType ==
  ASSUME TypeOK, NEW r \in Resources, NEW stale \in SUBSET Resources
  PROVE  /\ AfterInspect(r, stale) \in Recs
         /\ AfterInspect(r, stale).pc \in {"inspect", "recover"}
BY DEF TypeOK, AfterInspect, NewPass, Recs, RecPoints, Empty, Metas, MetaStates

LEMMA AfterRecoverType ==
  ASSUME TypeOK, NEW r \in Resources
  PROVE  AfterRecover(r) \in Recs /\ AfterRecover(r).pc \in {"inspect", "recover"}
BY DEF TypeOK, AfterRecover, NewPass, Recs, RecPoints, Empty, Metas, MetaStates

\* What a recovery step must keep: it takes free flocks and gives back its own,
\* and writes only files whose flock it holds.
LEMMA RecoveryFrame ==
  ASSUME IInv, rec' \in Recs, RecoveryInv', UNCHANGED <<pc, cur, leases, reused>>,
         meta' \in [Resources -> Metas],
         \A r \in Resources : meta'[r] # meta[r] => flock[r] = Recovery,
         flock' \in [Resources -> Owners \cup {Nobody, Recovery}],
         \A r \in Resources : flock'[r] # flock[r] => {flock[r], flock'[r]} = {Nobody, Recovery}
  PROVE  IInv'
<1>1. TypeOK'
  BY DEF IInv, TypeOK
<1>2. LeasesAreLocked'
  <2>1. ASSUME NEW a \in Owners, NEW r \in Resources PROVE flock'[r] = a <=> flock[r] = a
    BY NamesAssumption DEF IInv, TypeOK
  <2> QED
    BY <2>1 DEF IInv, LeasesAreLocked
<1>3. AllOrNothing' /\ WorkInv'
  BY DEF IInv, AllOrNothing, WorkInv
<1>4. MetadataInv'
  <2> SUFFICES ASSUME NEW a \in Owners, NEW r \in leases[a] PROVE meta'[r] = meta[r]
    BY DEF IInv, TypeOK, MetadataInv
  <2>1. r \in Resources /\ flock[r] = a
    BY DEF IInv, TypeOK, LeasesAreLocked
  <2> QED
    BY <2>1
<1> QED
  BY <1>1, <1>2, <1>3, <1>4 DEF IInv

LEMMA RecoveryStepInv == ASSUME IInv, RecoveryStep, UNCHANGED reused PROVE IInv'
<1> USE DEF IInv, IsFree
<1>1. CASE InspectRead
  <2> USE <1>1 DEF InspectRead
  <2>1. PICK r \in rec.todo : rec' = IF meta[r].state = "ABSENT" THEN AfterInspect(r, rec.stale)
                                     ELSE [rec EXCEPT !.pc = "probe", !.snap = meta[r]]
    OBVIOUS
  <2>2. r \in Resources /\ rec.stale \in SUBSET Resources
    BY DEF TypeOK, Recs
  <2>3. rec' \in Recs /\ rec'.pc \in {"inspect", "recover", "probe"}
    BY <2>1, <2>2, AfterInspectType DEF TypeOK, Recs, RecPoints
  <2> QED
    BY <2>3, RecoveryFrame DEF TypeOK, RecoveryInv
<1>2. CASE Probe
  <2> USE <1>2 DEF Probe
  <2>1. PICK r \in rec.todo :
          /\ Smallest(r, rec.todo)
          /\ IF IsFree(r)
             THEN /\ flock' = [flock EXCEPT ![r] = Recovery]
                  /\ rec' = [rec EXCEPT !.pc = "probed"]
             ELSE /\ rec' = AfterInspect(r, rec.stale)
                  /\ UNCHANGED flock
    OBVIOUS
  <2>2. r \in Resources /\ rec.todo \in SUBSET Resources /\ rec.stale \in SUBSET Resources
    BY DEF TypeOK, Recs
  <2>3. CASE IsFree(r)
    <3>1. rec' \in Recs /\ rec'.todo = rec.todo
      BY <2>1, <2>3 DEF TypeOK, Recs, RecPoints
    <3>2. RecoveryInv'
      BY <2>1, <2>2, <2>3, <3>1, SmallestUnique DEF TypeOK, RecoveryInv
    <3> QED
      BY <2>1, <2>2, <2>3, <3>1, <3>2, RecoveryFrame DEF TypeOK
  <2>4. CASE ~IsFree(r)
    BY <2>1, <2>2, <2>4, AfterInspectType, RecoveryFrame DEF TypeOK, RecoveryInv
  <2> QED
    BY <2>3, <2>4
<1>3. CASE Probed
  <2> USE <1>3 DEF Probed
  <2>1. PICK r \in rec.todo :
          /\ Smallest(r, rec.todo)
          /\ flock' = [flock EXCEPT ![r] = Nobody]
          /\ rec' = AfterInspect(r, IF Stale(rec.snap) THEN rec.stale \cup {r} ELSE rec.stale)
    OBVIOUS
  <2>2. r \in Resources /\ rec.stale \in SUBSET Resources /\ flock[r] = Recovery
    BY <2>1 DEF TypeOK, Recs, RecoveryInv
  <2>3. rec' \in Recs /\ rec'.pc \in {"inspect", "recover"}
    BY <2>1, <2>2, AfterInspectType
  <2> QED
    BY <2>1, <2>2, <2>3, RecoveryFrame DEF TypeOK, RecoveryInv
<1>4. CASE Relock
  <2> USE <1>4 DEF Relock
  <2>1. PICK r \in rec.todo :
          /\ Smallest(r, rec.todo)
          /\ IF IsFree(r)
             THEN /\ flock' = [flock EXCEPT ![r] = Recovery]
                  /\ rec' = [rec EXCEPT !.pc = "locked"]
             ELSE /\ rec' = AfterRecover(r)
                  /\ UNCHANGED flock
    OBVIOUS
  <2>2. r \in Resources /\ rec.todo \in SUBSET Resources
    BY DEF TypeOK, Recs
  <2>3. CASE IsFree(r)
    <3>1. rec' \in Recs /\ rec'.todo = rec.todo
      BY <2>1, <2>3 DEF TypeOK, Recs, RecPoints
    <3>2. RecoveryInv'
      BY <2>1, <2>2, <2>3, <3>1, SmallestUnique DEF TypeOK, RecoveryInv
    <3> QED
      BY <2>1, <2>2, <2>3, <3>1, <3>2, RecoveryFrame DEF TypeOK
  <2>4. CASE ~IsFree(r)
    BY <2>1, <2>2, <2>4, AfterRecoverType, RecoveryFrame DEF TypeOK, RecoveryInv
  <2> QED
    BY <2>3, <2>4
<1>5. CASE MarkRecovered
  <2> USE <1>5 DEF MarkRecovered
  <2>1. PICK r \in rec.todo :
          /\ Smallest(r, rec.todo)
          /\ meta' = [meta EXCEPT ![r] = [@ EXCEPT !.state = "RECOVERED", !.expired = TRUE]]
    OBVIOUS
  <2>2. r \in Resources /\ flock[r] = Recovery
    BY <2>1 DEF TypeOK, Recs, RecoveryInv
  <2>3. rec' \in Recs /\ rec'.todo = rec.todo /\ rec'.pc = "unlock"
    BY DEF TypeOK, Recs, RecPoints
  <2>4. meta' \in [Resources -> Metas] /\ \A s \in Resources : s # r => meta'[s] = meta[s]
    <3> DEFINE marked == [meta[r] EXCEPT !.state = "RECOVERED", !.expired = TRUE]
    <3>1. meta[r] \in Metas
      BY <2>2 DEF TypeOK
    <3>2. marked \in Metas
      BY <3>1 DEF Metas, MetaStates
    <3>3. meta' = [meta EXCEPT ![r] = marked]
      BY <2>1
    <3> HIDE DEF marked
    <3> QED
      BY <2>2, <3>2, <3>3 DEF TypeOK
  <2> QED
    BY <2>2, <2>3, <2>4, RecoveryFrame DEF TypeOK, RecoveryInv
<1>6. CASE RecoveryUnlock
  <2> USE <1>6 DEF RecoveryUnlock
  <2>1. PICK r \in rec.todo :
          /\ Smallest(r, rec.todo)
          /\ flock' = [flock EXCEPT ![r] = Nobody]
          /\ rec' = AfterRecover(r)
    OBVIOUS
  <2>2. r \in Resources /\ flock[r] = Recovery
    BY <2>1 DEF TypeOK, Recs, RecoveryInv
  <2>3. rec' \in Recs /\ rec'.pc \in {"inspect", "recover"}
    BY <2>1, <2>2, AfterRecoverType
  <2> QED
    BY <2>1, <2>2, <2>3, RecoveryFrame DEF TypeOK, RecoveryInv
<1> QED
  BY <1>1, <1>2, <1>3, <1>4, <1>5, <1>6 DEF RecoveryStep

LEMMA NextIInv == IInv /\ [Next]_vars => IInv'
<1> SUFFICES ASSUME IInv, [Next]_vars PROVE IInv'
  OBVIOUS
<1>1. ASSUME NEW a \in Owners, Request(a) \/ BeginRenew(a) \/ Die(a) \/ Progress(a),
             UNCHANGED reused
      PROVE  IInv'
  BY <1>1, RequestStep, LockStep, RefuseStep, TruncateStep, WriteStep, WriteFailsStep,
     BeginRenewStep, EndRenewStep, ReleaseStep, ClearStep, MarkReleasedStep, MarkFailsStep,
     UnlockStep, DieStep DEF Progress
<1>2. ASSUME NEW r \in Resources, Expire(r), UNCHANGED reused PROVE IInv'
  BY <1>2, ExpireStep
<1>3. CASE RecoveryStep /\ UNCHANGED reused
  BY <1>3, RecoveryStepInv
<1>4. CASE UNCHANGED lockVars /\ reused' \subseteq Owners
  BY <1>4
  DEF lockVars, IInv, TypeOK, LeasesAreLocked, AllOrNothing, WorkInv, RecoveryInv, MetadataInv
<1>5. CASE UNCHANGED vars
  BY <1>4, <1>5 DEF vars, IInv, TypeOK
<1>6. ASSUME NEW a \in Owners, ReusePid(a) \/ FreePid(a), UNCHANGED lockVars PROVE IInv'
  BY <1>4, <1>6 DEF ReusePid, FreePid, IInv, TypeOK
<1> QED
  BY <1>1, <1>2, <1>3, <1>5, <1>6 DEF Next

\* Every variable of the lock protocol keeps its type, and the strengthening that
\* makes the safety properties inductive holds in every reachable state.
THEOREM Invariance == Spec => []IInv
<1>1. Init => IInv
  BY InitIInv
<1>2. IInv /\ [Next]_vars => IInv'
  BY NextIInv
<1> QED
  BY <1>1, <1>2, PTL DEF Spec

\* acquire_many with StaleLockRecovery: types are kept.
THEOREM TypeCorrect == Spec => []TypeOK
<1>1. IInv => TypeOK
  BY DEF IInv
<1> QED
  BY <1>1, Invariance, PTL

\* Leases and kernel locks agree, so two processes never have a lease of one
\* resource (ResourceLockManager.acquire, StaleLockRecovery.recover).
THEOREM LocksExclude == Spec => []LeasesAreLocked
<1>1. IInv => LeasesAreLocked
  BY DEF IInv
<1> QED
  BY <1>1, Invariance, PTL

\* acquire_many is all or nothing and nothing leaks (its except clause, release).
THEOREM GroupsAreWhole == Spec => []AllOrNothing
<1>1. IInv => AllOrNothing
  BY DEF IInv
<1> QED
  BY <1>1, Invariance, PTL

\* The file of a resource in use names its user or is empty: recovery and late
\* writers leave it alone (ResourceLease._write, StaleLockRecovery.recover).
THEOREM HoldersAreNamed == Spec => []HolderMetadata
<1>1. IInv => HolderMetadata
  <2> SUFFICES ASSUME IInv, NEW a \in Owners, pc[a] \in {"held", "renewing"},
                      NEW r \in Needs[a]
               PROVE  \/ meta[r].state = "HELD" /\ meta[r].owner = a
                      \/ meta[r].state = "EMPTY"
    BY DEF HolderMetadata
  <2>1. r \in leases[a] /\ pc[a] # "truncating"
    BY DEF IInv, AllOrNothing
  <2> QED
    BY <2>1 DEF IInv, MetadataInv
<1> QED
  BY <1>1, Invariance, PTL

\* A step moves at most one process.
LEMMA OneMoves ==
  ASSUME TypeOK, [Next]_vars
  PROVE  \/ pc' = pc
         \/ \E a \in Owners : \A b \in Owners \ {a} : pc'[b] = pc[b]
<1>1. ASSUME NEW a \in Owners, Request(a) \/ BeginRenew(a) \/ Die(a) \/ Progress(a)
      PROVE  \A b \in Owners \ {a} : pc'[b] = pc[b]
  BY <1>1 DEF TypeOK, Request, BeginRenew, Die, Progress, Lock, Refuse, Truncate, Write, WriteFails,
     EndRenew, Release, Clear, MarkReleased, MarkFails, Unlock, NextToLock, NextToRelease, Goto
<1>2. ASSUME NEW r \in Resources, Expire(r) PROVE pc' = pc
  BY <1>2 DEF Expire
<1>3. CASE RecoveryStep
  BY <1>3 DEF RecoveryStep, InspectRead, Probe, Probed, Relock, MarkRecovered, RecoveryUnlock
<1>4. CASE UNCHANGED lockVars
  BY <1>4 DEF lockVars
<1> QED
  BY <1>1, <1>2, <1>3, <1>4 DEF Next, vars

\* The resource locks implement Exclusion: conflicting Runs and firmware
\* operations are never admitted together, for any number of processes and
\* resources, with deaths, expiry, failed writes and recovery.
THEOREM LocksImplementExclusion == Spec => ImplementsExclusion
<1>1. Init => Exclusive!Init
  BY DEF Init, Exclusive!Init, Admitted
<1>2. IInv /\ IInv' /\ [Next]_vars => [Exclusive!Next]_Admitted
  <2> SUFFICES ASSUME IInv, IInv', [Next]_vars, Admitted' # Admitted
               PROVE  Exclusive!Next
    OBVIOUS
  <2>1. PICK a \in Owners : \A b \in Owners \ {a} : pc'[b] = pc[b]
    BY OneMoves DEF IInv, Admitted
  <2>2. CASE a \in Admitted'
    <3>1. Admitted' = Admitted \cup {a} /\ a \notin Admitted
      BY <2>1, <2>2 DEF Admitted
    <3>2. ASSUME NEW b \in Admitted PROVE ~Exclusive!Conflict(a, b)
      <4>1. b \in Owners /\ b # a /\ b \in Admitted'
        BY <3>1 DEF Admitted
      <4>2. leases'[a] = Needs[a] /\ leases'[b] = Needs[b]
        BY <2>2, <4>1 DEF IInv, AllOrNothing, Admitted
      <4>3. leases'[a] \cap leases'[b] = {}
        BY <4>1 DEF IInv, LeasesAreLocked
      <4> QED
        BY <4>2, <4>3 DEF Exclusive!Conflict
    <3> QED
      BY <3>1, <3>2 DEF Exclusive!Next, Exclusive!Admit
  <2>3. CASE a \notin Admitted'
    <3>1. Admitted' = Admitted \ {a}
      BY <2>1, <2>3 DEF Admitted
    <3> QED
      BY <3>1 DEF Exclusive!Next, Exclusive!Dismiss
  <2> QED
    BY <2>2, <2>3
<1> QED
  BY <1>1, <1>2, Invariance, PTL DEF Spec, ImplementsExclusion, Exclusive!Spec
=============================================================================
