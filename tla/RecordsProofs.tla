--------------------------- MODULE RecordsProofs ---------------------------
(***************************************************************************)
(* What holds of the database file of Records, of what the processes that  *)
(* serve it work on, and of the Run they store, whatever the processes,    *)
(* the scenes and the results; what a capture proves; and what the release *)
(* gate accepts.                                                           *)
(***************************************************************************)
EXTENDS Records, FiniteSetTheorems, WellFoundedInduction, SequenceTheorems, TLAPS

Resident(p) == scene.job[p] = "resident"

\* Points of a process that holds the migration lock; Changing: it may change
\* the file; Covered: a backup of everything has been taken; Writing: it has a
\* transaction open.
Locking == {"inspect", "backup", "migrate", "verify", "recover", "replace", "raise", "keep"}
Changing == Locking \ {"inspect"}
Covered == {"migrate", "verify", "recover", "replace"}
Writing == {"recording", "completing", "promoting", "importing", "writing"}

RowsOf(images) == UNION {image.rows : image \in images}

IsImage(image) == image = Image(image.schema, image.rev, image.rows, image.active, image.ledger)

Shapes ==
  /\ live = [main |-> live.main, view |-> live.view]
  /\ IsImage(live.main) /\ IsImage(live.view)
  /\ ~Exists(live.main) => live.main.rows = {}
  /\ ~Exists(live.view) => live.view.rows = {}
  /\ \A b \in backups : IsImage(b) /\ Exists(b)
  /\ \A p \in Procs : saved[p] \in backups \cup {NoFile}
  /\ DOMAIN point = Procs /\ DOMAIN open = Procs /\ DOMAIN saved = Procs

\* Where a process of an earlier release can be, and any other.
Placed ==
  \A p \in Procs : IF Resident(p) THEN point[p] \in {"ready", "writing", "over"}
                                  ELSE point[p] # "writing"

\* Whoever changes the file holds the lock, and nobody serves meanwhile.
Serialized ==
  /\ \A p \in Procs : point[p] \in Locking => flock = p
  /\ \A p, q \in Procs : point[p] \in Changing /\ ~Resident(q) => point[q] \notin Serving

\* What a connection or an upgrade counts on is there.
Present ==
  /\ \A p \in Procs : open[p] = "live" => Exists(live.view)
  /\ \A p \in Procs : point[p] \in Writing => open[p] \in {"live", "replaced"}
  /\ \A p \in Procs : point[p] = "backup" => Exists(live.view)
  /\ \A p \in Procs : point[p] = "verify" => AtHead(live.view)

\* An earlier release only runs on a file that was there.
Inherited ==
  \A r \in Procs : Resident(r) =>
    /\ Exists(live.view) /\ Exists(live.main)
    /\ \A p \in Procs : point[p] \in Covered \cup {"keep"} => Exists(saved[p])

\* While the file may be lost, every row of before is in a backup.
BackedUp ==
  \A p \in Procs : point[p] \in Covered => stored \ window \subseteq RowsOf(backups)

FileInv ==
  /\ Shapes /\ Placed /\ Serialized /\ Present /\ Inherited /\ BackedUp
  /\ ServesAtHead /\ StoredRowsSurvive

-----------------------------------------------------------------------------
(* The invariant holds at the start.                                        *)

LEMMA NoFileIsImage == IsImage(NoFile) /\ ~Exists(NoFile) /\ NoFile.rows = {}
  BY DEF IsImage, NoFile, Image, Exists

LEMMA InitFileInv == Init => FileInv
<1> SUFFICES ASSUME Init PROVE FileInv
  OBVIOUS
<1>1. /\ scene \in Scenes /\ live = File(scene.image) /\ backups = scene.backups
      /\ point = [p \in Procs |-> First(scene.job[p])] /\ open = [p \in Procs |-> "none"]
      /\ saved = [p \in Procs |-> NoFile] /\ stored = scene.image.rows /\ window = {}
  BY DEF Init
<1>2. /\ \A image \in {scene.image} \cup scene.backups : IsImage(image)
      /\ \A b \in scene.backups : Exists(b)
      /\ ~Exists(scene.image) => scene.image.rows = {} /\ \A p \in Procs : ~Resident(p)
  BY <1>1, ScenesAssumption DEF IsImage, Resident
<1>3. live.main = scene.image /\ live.view = scene.image
  BY <1>1 DEF File
<1>4. \A p \in Procs : /\ Resident(p) => point[p] = "ready"
                       /\ ~Resident(p) => point[p] \in {"restore", "over", "start"}
  BY <1>1 DEF First, Resident
<1>5. Shapes
  BY <1>1, <1>2, <1>3 DEF Shapes, File
<1>6. Placed /\ Serialized /\ Present /\ BackedUp
  BY <1>1, <1>4
  DEF Placed, Serialized, Present, BackedUp, Locking, Changing, Covered, Writing, Serving
<1>7. Inherited
  BY <1>2, <1>3, <1>4 DEF Inherited, Covered
<1>8. ServesAtHead
  BY <1>4 DEF ServesAtHead, Serving, Resident
<1>9. StoredRowsSurvive
  BY <1>1, <1>3 DEF StoredRowsSurvive
<1> QED
  BY <1>5, <1>6, <1>7, <1>8, <1>9 DEF FileInv

-----------------------------------------------------------------------------
(* What the steps outside of initialize() and of a restore do to the file.  *)

\* A step within the work of a process that serves, or its end.
LEMMA MoveKeeps ==
  ASSUME FileInv, NEW p \in Procs, NEW to \in (Serving \cup {"over"}) \ Writing,
         point[p] \in Serving, ~Resident(p), Goto(p, to),
         UNCHANGED <<live, backups, flock, open, saved, stored, window, scene>>
  PROVE  FileInv'
<1>1. Shapes'
  BY DEF FileInv, Shapes, Goto
<1>2. Placed'
  BY DEF FileInv, Shapes, Placed, Goto, Resident, Writing
<1>3. Serialized'
  BY DEF FileInv, Shapes, Serialized, Goto, Resident, Locking, Changing, Serving
<1>4. Present'
  BY DEF FileInv, Shapes, Present, Goto, Writing, Serving
<1>5. Inherited'
  BY DEF FileInv, Shapes, Inherited, Goto, Resident, Covered, Serving
<1>6. BackedUp'
  BY DEF FileInv, Shapes, BackedUp, Goto, Covered, Serving
<1>7. ServesAtHead'
  BY DEF FileInv, Shapes, ServesAtHead, Goto, Resident
<1>8. StoredRowsSurvive'
  BY DEF FileInv, StoredRowsSurvive
<1> QED
  BY <1>1, <1>2, <1>3, <1>4, <1>5, <1>6, <1>7, <1>8 DEF FileInv

\* A transaction begins.
LEMMA BeginKeeps ==
  ASSUME FileInv, NEW p \in Procs, NEW from \in Serving, NEW to \in Writing,
         Begin(p, from, to), Resident(p) <=> to = "writing", UNCHANGED scene
  PROVE  FileInv'
<1> USE DEF FileInv, Begin
<1>1. Shapes'
  BY DEF Shapes, Goto
<1>2. Placed'
  BY DEF Shapes, Placed, Goto, Resident
<1>3. Serialized'
  BY DEF Shapes, Serialized, Goto, Resident, Locking, Changing, Serving, Writing
<1>4. Present'
  BY DEF Shapes, Present, Goto, Writing, Serving
<1>5. Inherited'
  BY DEF Shapes, Inherited, Goto, Resident, Covered, Writing
<1>6. BackedUp'
  BY DEF Shapes, BackedUp, Goto, Covered, Writing
<1>7. ServesAtHead'
  BY DEF Shapes, ServesAtHead, Goto, Resident
<1>8. StoredRowsSurvive'
  BY DEF StoredRowsSurvive
<1> QED
  BY <1>1, <1>2, <1>3, <1>4, <1>5, <1>6, <1>7, <1>8

\* What transactions store: a row more.
Extends(new, image, row) ==
  /\ IsImage(new) /\ new.schema = image.schema /\ new.rev = image.rev
  /\ new.rows = image.rows \cup {row}

\* A transaction commits: the row is in the file, unless the file was replaced
\* or an upgrade could restore what it saved.
LEMMA CommitKeeps ==
  ASSUME FileInv, NEW p \in Procs, NEW image, NEW row, NEW to \in {"ready", "over"},
         point[p] \in Writing, Resident(p) => to = "over",
         Extends(image, live.view, row), Commit(p, image, row), Goto(p, to), UNCHANGED scene
  PROVE  FileInv'
<1> USE DEF FileInv, Extends
<1>1. /\ backups' = backups /\ flock' = flock /\ saved' = saved /\ stored' = stored \cup {row}
      /\ point' = [point EXCEPT ![p] = to] /\ open' = [open EXCEPT ![p] = "none"]
  BY DEF Commit, Goto, Close
<1>2. /\ live' = [main |-> live'.main, view |-> live'.view] /\ live'.main = live.main
      /\ live'.view = IF open[p] = "live" THEN image ELSE live.view
  BY DEF Shapes, Commit
<1>3. Exists(live.view') = Exists(live.view) /\ AtHead(live.view') = AtHead(live.view)
  BY <1>2 DEF Exists, AtHead
<1>4. Shapes'
  BY <1>1, <1>2, <1>3 DEF Shapes, Present, IsImage
<1>5. Placed'
  BY <1>1 DEF Shapes, Placed, Resident
<1>6. Serialized'
  BY <1>1 DEF Shapes, Serialized, Placed, Resident, Locking, Changing, Serving, Writing
<1>7. Present'
  BY <1>1, <1>3 DEF Shapes, Present, Writing
<1>8. Inherited'
  BY <1>1, <1>2, <1>3 DEF Shapes, Inherited, Resident, Covered
<1>9. ServesAtHead'
  BY <1>1, <1>3 DEF Shapes, ServesAtHead, Placed, Resident, Writing, Serving
<1>10. window' = IF Reversible \/ open[p] = "replaced" THEN window \cup {row} ELSE window
  BY DEF Commit
<1>11. stored' \ window' \subseteq (stored \ window) \cup {row}
  BY <1>1, <1>10
<1>12. row \in stored' \ window' => row \in live'.view.rows /\ ~Reversible
  BY <1>2, <1>10 DEF Present
<1>13. StoredRowsSurvive'
  <2>1. live.view.rows \subseteq live'.view.rows
    BY <1>2
  <2> QED
    BY <2>1, <1>1, <1>11, <1>12 DEF StoredRowsSurvive
<1>14. BackedUp'
  <2> SUFFICES ASSUME NEW q \in Procs, point'[q] \in Covered
               PROVE  stored' \ window' \subseteq RowsOf(backups)
    BY <1>1 DEF BackedUp
  <2>1. q # p /\ point[q] \in Covered
    BY <1>1 DEF Shapes, Covered
  <2>2. Resident(p)
    BY <2>1 DEF Serialized, Covered, Changing, Locking, Writing, Serving, Placed
  <2>3. Reversible
    BY <2>1, <2>2 DEF Inherited, Reversible
  <2> QED
    BY <2>1, <2>3, <1>11, <1>12 DEF BackedUp
<1> QED
  BY <1>4, <1>5, <1>6, <1>7, <1>8, <1>9, <1>13, <1>14

-----------------------------------------------------------------------------
(* initialize(), and a restore.                                             *)

\* The migration lock is taken.
LEMMA LockKeeps ==
  ASSUME FileInv, NEW p \in Procs, Lock(p), UNCHANGED scene
  PROVE  FileInv'
<1> USE DEF FileInv, Shapes, Lock, Unlocked, Goto
<1>1. Shapes'
  OBVIOUS
<1>2. Placed'
  BY DEF Placed, Resident
<1>3. Serialized'
  BY AbsentAssumption DEF Serialized, Placed, Resident, Locking, Changing, Serving
<1>4. Present'
  BY DEF Present, Writing
<1>5. Inherited'
  BY DEF Inherited, Resident, Covered
<1>6. BackedUp'
  BY DEF BackedUp, RowsOf, StoredRowsSurvive, Covered
<1>7. ServesAtHead'
  BY DEF ServesAtHead, Serialized, Resident, Locking, Changing, Serving
<1>8. StoredRowsSurvive'
  BY DEF StoredRowsSurvive, BackedUp, RowsOf, Covered
<1> QED
  BY <1>1, <1>2, <1>3, <1>4, <1>5, <1>6, <1>7, <1>8

\* Nothing is to be done, or nobody serves yet.
LEMMA InspectKeeps ==
  ASSUME FileInv, NEW p \in Procs, Inspect(p), UNCHANGED scene
  PROVE  FileInv'
<1> USE DEF FileInv, Shapes, Inspect, Goto
<1>a. AtHead(live.view) => point'[p] = "ready"
  OBVIOUS
<1>b. ~AtHead(live.view) => point'[p] \in {"backup", "migrate"} /\ flock' = flock
  OBVIOUS
<1>1. Shapes'
  OBVIOUS
<1>2. Placed'
  BY DEF Placed, Resident
<1>3. Serialized'
  BY AbsentAssumption DEF Serialized, ServesAtHead, Placed, Resident, Locking, Changing, Serving
<1>4. Present'
  BY DEF Present, Writing
<1>5. Inherited'
  BY DEF Inherited, Resident, Covered
<1>6. BackedUp'
  BY DEF BackedUp, RowsOf, StoredRowsSurvive, Covered
<1>7. ServesAtHead'
  BY DEF ServesAtHead, Serialized, Resident, Locking, Changing, Serving
<1>8. StoredRowsSurvive'
  BY DEF StoredRowsSurvive, BackedUp, RowsOf, Covered
<1> QED
  BY <1>1, <1>2, <1>3, <1>4, <1>5, <1>6, <1>7, <1>8

\* Everything that is stored is in the copy.
LEMMA BackupKeeps ==
  ASSUME FileInv, NEW p \in Procs, Backup(p), UNCHANGED scene
  PROVE  FileInv'
<1> USE DEF FileInv, Shapes, Backup, Goto
<1>1. Shapes'
  BY DEF Present
<1>2. Placed'
  BY DEF Placed, Resident
<1>3. Serialized'
  BY DEF Serialized, Placed, Resident, Locking, Changing, Serving
<1>4. Present'
  BY DEF Present, Writing
<1>5. Inherited'
  BY DEF Inherited, Resident, Covered
<1>6. BackedUp'
  BY DEF BackedUp, RowsOf, StoredRowsSurvive, Covered
<1>7. ServesAtHead'
  BY DEF ServesAtHead, Serialized, Resident, Locking, Changing, Serving
<1>8. StoredRowsSurvive'
  BY DEF StoredRowsSurvive, BackedUp, RowsOf, Covered
<1> QED
  BY <1>1, <1>2, <1>3, <1>4, <1>5, <1>6, <1>7, <1>8

\* Statements change the schema only.
LEMMA MigrateKeeps ==
  ASSUME FileInv, NEW p \in Procs, Migrate(p), UNCHANGED scene
  PROVE  FileInv'
<1> USE DEF FileInv, Shapes, Migrate, Goto
<1>a. /\ live' = [main |-> live'.main, view |-> live'.view]
      /\ live'.main \in {live.main, live'.view}
      /\ live'.view = IF Exists(live.view) THEN Migrated(live.view) ELSE Migrated(NoFile)
  BY DEF File
<1>b. \A i : IsImage(i) => IsImage(Migrated(i)) /\ Exists(Migrated(i)) /\ Migrated(i).rows = i.rows
  BY DEF IsImage, Image, Migrated, Exists
<1>c. IsImage(live'.view) /\ Exists(live'.view) /\ live'.view.rows = live.view.rows
  BY <1>a, <1>b, NoFileIsImage
<1>d. Exists(live.view) => live'.main = live.main
  OBVIOUS
<1>1. Shapes'
  BY <1>a, <1>c
<1>2. Placed'
  BY DEF Placed, Resident
<1>3. Serialized'
  BY DEF Serialized, Placed, Resident, Locking, Changing, Serving
<1>4. Present'
  BY <1>c DEF Present, Serialized, Locking, Writing
<1>5. Inherited'
  BY <1>c, <1>d DEF Inherited, Resident, Covered
<1>6. BackedUp'
  BY DEF BackedUp, RowsOf, StoredRowsSurvive, Covered
<1>7. ServesAtHead'
  BY DEF ServesAtHead, Serialized, Resident, Locking, Changing, Serving
<1>8. StoredRowsSurvive'
  BY <1>c DEF StoredRowsSurvive, BackedUp, RowsOf, Covered
<1> QED
  BY <1>1, <1>2, <1>3, <1>4, <1>5, <1>6, <1>7, <1>8

\* The upgrade is complete.
LEMMA VerifyKeeps ==
  ASSUME FileInv, NEW p \in Procs, Verify(p), UNCHANGED scene
  PROVE  FileInv'
<1> USE DEF FileInv, Shapes, Verify, Goto
<1>1. Shapes'
  OBVIOUS
<1>2. Placed'
  BY DEF Placed, Resident
<1>3. Serialized'
  BY AbsentAssumption DEF Serialized, Placed, Resident, Locking, Changing, Serving
<1>4. Present'
  BY DEF Present, Writing
<1>5. Inherited'
  BY DEF Inherited, Resident, Covered
<1>6. BackedUp'
  BY DEF BackedUp, RowsOf, StoredRowsSurvive, Covered
<1>7. ServesAtHead'
  BY DEF ServesAtHead, Present, Serialized, Resident, Locking, Changing, Serving
<1>8. StoredRowsSurvive'
  BY DEF StoredRowsSurvive, BackedUp, RowsOf, Covered
<1> QED
  BY <1>1, <1>2, <1>3, <1>4, <1>5, <1>6, <1>7, <1>8

\* The upgrade fails.
LEMMA FailureKeeps ==
  ASSUME FileInv, NEW p \in Procs, MigrationFails(p), UNCHANGED scene
  PROVE  FileInv'
<1> USE DEF FileInv, Shapes, MigrationFails, Goto
<1>1. Shapes'
  OBVIOUS
<1>2. Placed'
  BY DEF Placed, Resident
<1>3. Serialized'
  BY DEF Serialized, Placed, Resident, Locking, Changing, Serving
<1>4. Present'
  BY DEF Present, Writing
<1>5. Inherited'
  BY DEF Inherited, Resident, Covered
<1>6. BackedUp'
  BY DEF BackedUp, RowsOf, StoredRowsSurvive, Covered
<1>7. ServesAtHead'
  BY DEF ServesAtHead, Serialized, Resident, Locking, Changing, Serving
<1>8. StoredRowsSurvive'
  BY DEF StoredRowsSurvive, BackedUp, RowsOf, Covered
<1> QED
  BY <1>1, <1>2, <1>3, <1>4, <1>5, <1>6, <1>7, <1>8

\* The -wal goes, or the fresh file.
LEMMA UnlinkKeeps ==
  ASSUME FileInv, NEW p \in Procs, Unlink(p), UNCHANGED scene
  PROVE  FileInv'
<1> USE DEF FileInv, Shapes, Unlink, Orphaned, Goto
<1>1. Shapes'
  BY NoFileIsImage DEF File
<1>2. Placed'
  BY DEF Placed, Resident
<1>3. Serialized'
  BY DEF Serialized, Placed, Resident, Locking, Changing, Serving
<1>4. Present'
  BY DEF Present, Serialized, Locking, Writing
<1>5. Inherited'
  BY DEF Inherited, Resident, Covered
<1>6. BackedUp'
  BY DEF BackedUp, RowsOf, StoredRowsSurvive, Covered
<1>7. ServesAtHead'
  BY DEF ServesAtHead, Serialized, Resident, Locking, Changing, Serving
<1>8. StoredRowsSurvive'
  BY DEF StoredRowsSurvive, BackedUp, RowsOf, Covered
<1> QED
  BY <1>1, <1>2, <1>3, <1>4, <1>5, <1>6, <1>7, <1>8

\* The backup comes back.
LEMMA ReplaceKeeps ==
  ASSUME FileInv, NEW p \in Procs, Replace(p), UNCHANGED scene
  PROVE  FileInv'
<1> USE DEF FileInv, Shapes, Replace, Orphaned, Goto
<1>1. Shapes'
  BY NoFileIsImage DEF File
<1>2. Placed'
  BY DEF Placed, Resident
<1>3. Serialized'
  BY DEF Serialized, Placed, Resident, Locking, Changing, Serving
<1>4. Present'
  BY DEF Present, Serialized, Locking, Writing
<1>5. Inherited'
  BY DEF Inherited, Resident, File, Covered
<1>6. BackedUp'
  BY DEF BackedUp, RowsOf, StoredRowsSurvive, Covered
<1>7. ServesAtHead'
  BY DEF ServesAtHead, Serialized, Resident, Locking, Changing, Serving
<1>8. StoredRowsSurvive'
  BY DEF StoredRowsSurvive, BackedUp, RowsOf, Covered
<1> QED
  BY <1>1, <1>2, <1>3, <1>4, <1>5, <1>6, <1>7, <1>8

\* The recovery fails.
LEMMA RecoveryFailureKeeps ==
  ASSUME FileInv, NEW p \in Procs, RecoveryFails(p), UNCHANGED scene
  PROVE  FileInv'
<1> USE DEF FileInv, Shapes, RecoveryFails, Goto
<1>1. Shapes'
  OBVIOUS
<1>2. Placed'
  BY DEF Placed, Resident
<1>3. Serialized'
  BY DEF Serialized, Placed, Resident, Locking, Changing, Serving
<1>4. Present'
  BY DEF Present, Writing
<1>5. Inherited'
  BY DEF Inherited, Resident, Covered
<1>6. BackedUp'
  BY DEF BackedUp, RowsOf, StoredRowsSurvive, Covered
<1>7. ServesAtHead'
  BY DEF ServesAtHead, Serialized, Resident, Locking, Changing, Serving
<1>8. StoredRowsSurvive'
  BY DEF StoredRowsSurvive, BackedUp, RowsOf, Covered
<1> QED
  BY <1>1, <1>2, <1>3, <1>4, <1>5, <1>6, <1>7, <1>8

\* The lock is freed.
LEMMA RaiseKeeps ==
  ASSUME FileInv, NEW p \in Procs, Raise(p), UNCHANGED scene
  PROVE  FileInv'
<1> USE DEF FileInv, Shapes, Raise, Goto
<1>1. Shapes'
  OBVIOUS
<1>2. Placed'
  BY DEF Placed, Resident
<1>3. Serialized'
  BY AbsentAssumption DEF Serialized, Placed, Resident, Locking, Changing, Serving
<1>4. Present'
  BY DEF Present, Writing
<1>5. Inherited'
  BY DEF Inherited, Resident, Covered
<1>6. BackedUp'
  BY DEF BackedUp, RowsOf, StoredRowsSurvive, Covered
<1>7. ServesAtHead'
  BY DEF ServesAtHead, Serialized, Resident, Locking, Changing, Serving
<1>8. StoredRowsSurvive'
  BY DEF StoredRowsSurvive, BackedUp, RowsOf, Covered
<1> QED
  BY <1>1, <1>2, <1>3, <1>4, <1>5, <1>6, <1>7, <1>8

\* A restore begins, with the others stopped.
LEMMA RestoreKeeps ==
  ASSUME FileInv, NEW p \in Procs, LockForRestore(p), UNCHANGED scene
  PROVE  FileInv'
<1> USE DEF FileInv, Shapes, LockForRestore, Stopped, Goto
<1>1. Shapes'
  OBVIOUS
<1>2. Placed'
  BY DEF Placed, Resident
<1>3. Serialized'
  BY AbsentAssumption DEF Serialized, Placed, Resident, Locking, Changing, Serving
<1>4. Present'
  BY DEF Present, Writing
<1>5. Inherited'
  BY DEF Inherited, Resident, Covered
<1>6. BackedUp'
  BY DEF BackedUp, RowsOf, StoredRowsSurvive, Covered
<1>7. ServesAtHead'
  BY DEF ServesAtHead, Serialized, Resident, Locking, Changing, Serving
<1>8. StoredRowsSurvive'
  BY DEF StoredRowsSurvive, BackedUp, RowsOf, Covered
<1> QED
  BY <1>1, <1>2, <1>3, <1>4, <1>5, <1>6, <1>7, <1>8

\* The database that is replaced is kept.
LEMMA KeepKeeps ==
  ASSUME FileInv, NEW p \in Procs, Keep(p), UNCHANGED scene
  PROVE  FileInv'
<1> USE DEF FileInv, Shapes, Keep, Kept, Goto
<1>1. Shapes'
  OBVIOUS
<1>2. Placed'
  BY DEF Placed, Resident
<1>3. Serialized'
  BY DEF Serialized, Placed, Resident, Locking, Changing, Serving
<1>4. Present'
  BY DEF Present, Writing
<1>5. Inherited'
  BY DEF Inherited, Resident, Covered
<1>6. BackedUp'
  BY DEF BackedUp, RowsOf, StoredRowsSurvive, Covered
<1>7. ServesAtHead'
  BY DEF ServesAtHead, Serialized, Resident, Locking, Changing, Serving
<1>8. StoredRowsSurvive'
  BY DEF StoredRowsSurvive, BackedUp, RowsOf, Covered
<1> QED
  BY <1>1, <1>2, <1>3, <1>4, <1>5, <1>6, <1>7, <1>8

\* A transaction is rolled back.
LEMMA RollbackKeeps ==
  ASSUME FileInv, NEW p \in Procs, Rollback(p, "over"), UNCHANGED scene
  PROVE  FileInv'
<1> USE DEF FileInv, Shapes, Rollback, Close, Goto
<1>1. Shapes'
  OBVIOUS
<1>2. Placed'
  BY DEF Placed, Resident
<1>3. Serialized'
  BY DEF Serialized, Placed, Resident, Locking, Changing, Serving
<1>4. Present'
  BY DEF Present, Writing
<1>5. Inherited'
  BY DEF Inherited, Resident, Covered
<1>6. BackedUp'
  BY DEF BackedUp, RowsOf, StoredRowsSurvive, Covered
<1>7. ServesAtHead'
  BY DEF ServesAtHead, Serialized, Resident, Locking, Changing, Serving
<1>8. StoredRowsSurvive'
  BY DEF StoredRowsSurvive, BackedUp, RowsOf, Covered
<1> QED
  BY <1>1, <1>2, <1>3, <1>4, <1>5, <1>6, <1>7, <1>8

\* A checkpoint.
LEMMA CheckpointKeeps ==
  ASSUME FileInv, NEW p \in Procs, Checkpoint, UNCHANGED scene
  PROVE  FileInv'
<1> USE DEF FileInv, Shapes, Checkpoint, File, Goto
<1>1. Shapes'
  OBVIOUS
<1>2. Placed'
  BY DEF Placed, Resident
<1>3. Serialized'
  BY DEF Serialized, Placed, Resident, Locking, Changing, Serving
<1>4. Present'
  BY DEF Present, Writing
<1>5. Inherited'
  BY DEF Inherited, Resident, Covered
<1>6. BackedUp'
  BY DEF BackedUp, RowsOf, StoredRowsSurvive, Covered
<1>7. ServesAtHead'
  BY DEF ServesAtHead, Serialized, Resident, Locking, Changing, Serving
<1>8. StoredRowsSurvive'
  BY DEF StoredRowsSurvive, BackedUp, RowsOf, Covered
<1> QED
  BY <1>1, <1>2, <1>3, <1>4, <1>5, <1>6, <1>7, <1>8

\* A process dies.
LEMMA DeathKeeps ==
  ASSUME FileInv, NEW p \in Procs, Die(p), UNCHANGED scene
  PROVE  FileInv'
<1> USE DEF FileInv, Shapes, Die, Close, Goto
<1>1. Shapes'
  OBVIOUS
<1>2. Placed'
  BY DEF Placed, Resident
<1>3. Serialized'
  BY AbsentAssumption DEF Serialized, Placed, Resident, Locking, Changing, Serving
<1>4. Present'
  BY DEF Present, Writing
<1>5. Inherited'
  BY DEF Inherited, Resident, Covered
<1>6. BackedUp'
  BY DEF BackedUp, RowsOf, StoredRowsSurvive, Covered
<1>7. ServesAtHead'
  BY DEF ServesAtHead, Serialized, Resident, Locking, Changing, Serving
<1>8. StoredRowsSurvive'
  BY DEF StoredRowsSurvive, BackedUp, RowsOf, Covered
<1> QED
  BY <1>1, <1>2, <1>3, <1>4, <1>5, <1>6, <1>7, <1>8

\* A transaction that stores nothing ends.
LEMMA CloseKeeps ==
  ASSUME FileInv, NEW p \in Procs, point[p] \in Writing, ~Resident(p), Close(p), Goto(p, "ready"),
         UNCHANGED <<live, backups, flock, saved, stored, window, scene>>
  PROVE  FileInv'
<1> USE DEF FileInv, Shapes, Goto, Close
<1>1. Shapes' /\ Placed' /\ Present' /\ Inherited' /\ BackedUp' /\ StoredRowsSurvive'
  BY DEF Placed, Present, Inherited, BackedUp, StoredRowsSurvive, Resident, Writing, Covered
<1>2. Serialized' /\ ServesAtHead'
  BY DEF Serialized, ServesAtHead, Placed, Resident, Locking, Changing, Serving, Writing
<1> QED
  BY <1>1, <1>2

LEMMA RowsAreAdded ==
  ASSUME NEW image, IsImage(image), NEW row
  PROVE  /\ Extends(Add(image, row), image, row)
         /\ Extends(Promoted(image, row), image, row)
         /\ Extends(Imported(image, row), image, row)
<1> DEFINE With(active, ledger) ==
             Image(image.schema, image.rev, image.rows \cup {row}, active, ledger)
<1>1. PICK schema, rev, rows, active, ledger :
        image = [schema |-> schema, rev |-> rev, rows |-> rows, active |-> active,
                 ledger |-> ledger]
  BY DEF IsImage, Image
<1>2. Add(image, row) = With(image.active, image.ledger)
  BY <1>1 DEF Image, Add
<1>3. Promoted(image, row) = With({row}, image.ledger)
  BY <1>1, <1>2 DEF Image, Promoted
<1>4. Imported(image, row) = With(image.active, image.ledger \cup {row})
  BY <1>1, <1>2 DEF Image, Imported
<1>5. ASSUME NEW a, NEW l PROVE Extends(With(a, l), image, row)
  BY DEF Extends, IsImage, Image
<1> QED
  BY <1>2, <1>3, <1>4, <1>5

LEMMA NextKeepsFileInv == FileInv /\ [Next]_vars => FileInv'
<1> SUFFICES ASSUME FileInv, [Next]_vars PROVE FileInv'
  OBVIOUS
<1>a. \A p \in Procs : Resident(p) => point[p] \in {"ready", "writing", "over"}
  BY DEF FileInv, Placed
<1>b. \A p \in Procs : scene.job[p] \in {"session", "promote", "import"} => ~Resident(p)
  BY DEF Resident
<1>c. \A p \in Procs : point[p] = "writing" => Resident(p)
  BY DEF FileInv, Placed
<1>d. IsImage(live.view)
  BY DEF FileInv, Shapes
<1>1. CASE UNCHANGED <<fileVars, scene>>
  BY <1>1
  DEF FileInv, Shapes, Placed, Serialized, Present, Inherited, BackedUp, ServesAtHead,
      StoredRowsSurvive, Resident, Reversible, fileVars
<1>2. ASSUME NEW p \in Procs, Session(p) PROVE FileInv'
  <2> UNCHANGED scene
    BY <1>2 DEF Session, StartTest, Telemetry, EndCapture, Conclude, Measure, BeginResult,
                RecordResult, BeginCompletion, CompleteRun, recordVars
  <2>1. CASE StartTest(p)
    BY <2>1, <1>b, MoveKeeps DEF StartTest, Serving, Writing
  <2>2. CASE Telemetry(p, "before", "test") \/ Telemetry(p, "after", "result")
    BY <2>2, <1>a, MoveKeeps DEF Telemetry, Serving, Writing
  <2>3. CASE EndCapture(p)
    BY <2>3, <1>a, MoveKeeps DEF EndCapture, Serving, Writing
  <2>4. CASE Conclude(p)
    BY <2>4, <1>a, MoveKeeps DEF Conclude, Serving, Writing
  <2>5. CASE Measure(p)
    BY <2>5, <1>a, MoveKeeps DEF Measure, Serving, Writing
  <2>6. CASE BeginResult(p)
    <3>1. Begin(p, "result", "recording") /\ ~Resident(p)
      BY <2>6, <1>a DEF BeginResult, Begin
    <3> QED
      BY <3>1, BeginKeeps DEF Serving, Writing
  <2>7. CASE RecordResult(p)
    <3>1. point[p] \in Writing /\ ~Resident(p) /\ Goto(p, "ready")
      BY <2>7, <1>a DEF RecordResult, Writing
    <3>2. Commit(p, Add(live.view, choice[p].test), choice[p].test)
      BY <2>7 DEF RecordResult
    <3> QED
      BY <3>1, <3>2, CommitKeeps, RowsAreAdded, <1>d
  <2>8. CASE BeginCompletion(p)
    <3>1. Begin(p, "ready", "completing") /\ ~Resident(p)
      BY <2>8, <1>b DEF BeginCompletion
    <3> QED
      BY <3>1, BeginKeeps DEF Serving, Writing
  <2>9. CASE CompleteRun(p)
    <3>1. point[p] \in Writing /\ Goto(p, "over")
      BY <2>9 DEF CompleteRun, Writing
    <3>2. Commit(p, Add(live.view, "run"), "run")
      BY <2>9 DEF CompleteRun
    <3> QED
      BY <3>1, <3>2, CommitKeeps, RowsAreAdded, <1>d
  <2> QED
    BY <1>2, <2>1, <2>2, <2>3, <2>4, <2>5, <2>6, <2>7, <2>8, <2>9 DEF Session
<1>3. ASSUME NEW p \in Procs, Check(p) \/ ImportEnds(p) PROVE FileInv'
  BY <1>3, <1>b, MoveKeeps DEF Check, ImportEnds, Serving, Writing, recordVars
<1>4. ASSUME NEW p \in Procs, BeginPromotion(p) PROVE FileInv'
  <2>1. Begin(p, "promotable", "promoting") /\ ~Resident(p) /\ UNCHANGED scene
    BY <1>4, <1>a DEF BeginPromotion, Begin, recordVars
  <2> QED
    BY <2>1, BeginKeeps DEF Serving, Writing
<1>5. ASSUME NEW p \in Procs, BeginImport(p) PROVE FileInv'
  <2>1. Begin(p, "ready", "importing") /\ ~Resident(p) /\ UNCHANGED scene
    BY <1>5, <1>b DEF BeginImport
  <2> QED
    BY <2>1, BeginKeeps DEF Serving, Writing
<1>6. ASSUME NEW p \in Procs, BeginResident(p) PROVE FileInv'
  <2>1. Begin(p, "ready", "writing") /\ Resident(p) /\ UNCHANGED scene
    BY <1>6 DEF BeginResident, Resident, recordVars
  <2> QED
    BY <2>1, BeginKeeps DEF Serving, Writing
<1>7. ASSUME NEW p \in Procs, Promote(p) PROVE FileInv'
  <2>1. point[p] \in Writing /\ Goto(p, "over") /\ UNCHANGED scene
    BY <1>7 DEF Promote, Writing, recordVars
  <2>2. Commit(p, Promoted(live.view, p), p)
    BY <1>7 DEF Promote
  <2> QED
    BY <2>1, <2>2, CommitKeeps, RowsAreAdded, <1>d
<1>8. ASSUME NEW p \in Procs, Import(p) PROVE FileInv'
  <2>1. /\ point[p] \in Writing /\ ~Resident(p) /\ Goto(p, "ready") /\ UNCHANGED scene
    BY <1>8, <1>a DEF Import, Writing, recordVars
  <2>2. CASE choice[p] \in live.view.ledger
    BY <2>1, <2>2, <1>8, CloseKeeps DEF Import
  <2>3. CASE choice[p] \notin live.view.ledger
    <3>1. Commit(p, Imported(live.view, choice[p]), choice[p])
      BY <1>8, <2>3 DEF Import
    <3> QED
      BY <2>1, <3>1, CommitKeeps, RowsAreAdded, <1>d
  <2> QED
    BY <2>2, <2>3
<1>9. ASSUME NEW p \in Procs, ResidentWrites(p) PROVE FileInv'
  <2>1. point[p] \in Writing /\ Goto(p, "over") /\ UNCHANGED scene
    BY <1>9 DEF ResidentWrites, Writing, recordVars
  <2>2. Commit(p, Add(live.view, p), p)
    BY <1>9 DEF ResidentWrites
  <2> QED
    BY <2>1, <2>2, CommitKeeps, RowsAreAdded, <1>d
<1>10. ASSUME NEW p \in Procs, Files(p) PROVE FileInv'
  <2> UNCHANGED scene
    BY <1>10 DEF Files, recordVars
  <2>1. CASE Initializing(p)
    BY <2>1, LockKeeps, InspectKeeps, BackupKeeps, MigrateKeeps, VerifyKeeps, FailureKeeps,
       UnlinkKeeps, ReplaceKeeps, RecoveryFailureKeeps, RaiseKeeps
    DEF Initializing
  <2> QED
    BY <1>10, <2>1, RestoreKeeps, KeepKeeps, RollbackKeeps, CheckpointKeeps, DeathKeeps DEF Files
<1>11. ASSUME NEW p \in Procs, Frames(p) PROVE FileInv'
  BY <1>11, <1>1 DEF Frames, recordVars
<1>12. CASE UNCHANGED vars
  BY <1>12, <1>1 DEF vars, recordVars
<1> QED
  BY <1>2, <1>3, <1>4, <1>5, <1>6, <1>7, <1>8, <1>9, <1>10, <1>11, <1>12 DEF Next

-----------------------------------------------------------------------------

THEOREM FilesAreKept == Spec => []FileInv
<1>1. Init => FileInv
  BY InitFileInv
<1>2. FileInv /\ [Next]_vars => FileInv'
  BY NextKeepsFileInv
<1> QED
  BY <1>1, <1>2, PTL DEF Spec

\* A process that has initialized finds the schema at its head: upgrades, their
\* recoveries and restores exclude it, by the lock or because it is stopped.
THEOREM EveryoneServesAtHead == Spec => []ServesAtHead
<1>1. FileInv => ServesAtHead
  BY DEF FileInv
<1> QED
  BY <1>1, FilesAreKept, PTL

\* A committed row is in the database or in a backup after any number of upgrades,
\* failed or killed half-way, and of restores; an upgrade that could undo it has
\* taken its backup, or the row is one of an earlier release written since.
THEOREM RowsSurvive == Spec => []StoredRowsSurvive
<1>1. FileInv => StoredRowsSurvive
  BY DEF FileInv
<1> QED
  BY <1>1, FilesAreKept, PTL
-----------------------------------------------------------------------------
(* What the processes work on, and what the files say of it.                *)

\* Points of a session with a test under way, and with its result in hand.
Testing == {"before", "test", "analyzed"}
Holding == {"after", "result", "recording"}

\* The results a Run can have.
Entries ==
  {r \in [test : Tests, status : TestStatus, criticality : Criticality, evidence : Evidence,
          product : BOOLEAN, unit : {None} \cup {Policy[t].unit : t \in Tests},
          samples : {<<>>} \cup Measurements] : Recordable(r)}

RunTyped ==
  /\ scene \in Scenes
  /\ candidate = [suite |-> candidate.suite, selected |-> candidate.selected,
                  seen |-> candidate.seen, results |-> candidate.results,
                  lifecycle |-> candidate.lifecycle, health |-> candidate.health,
                  outcome |-> candidate.outcome]
  /\ candidate.results \in Seq(Entries)
  /\ candidate.health \in Health /\ candidate.outcome \in Outcomes

\* What a process does is its job, on a test that is selected, on a Run that is
\* in the database, on a legacy row.
Works(p) ==
  /\ point[p] \in Testing => scene.job[p] = "session" /\ Untested # {}
  /\ point[p] \in Holding => scene.job[p] = "session" /\ choice[p] \in Entries
  /\ point[p] = "completing" => scene.job[p] = "session"
  /\ point[p] \in {"promotable", "promoting"} => choice[p] \in live.view.rows
  /\ point[p] = "importing" => choice[p] \in Legacy

Working == DOMAIN choice = Procs /\ \A p \in Procs : Works(p)

\* Who holds the lock, a connection or a saved copy is at a point that does.
Attached ==
  /\ open \in [Procs -> {"none", "live", "replaced"}] /\ flock \in Procs \cup {Absent}
  /\ window \subseteq stored
  /\ \A p \in Procs :
       /\ flock = p => point[p] \in Locking
       /\ open[p] # "none" => point[p] \in Writing
       /\ saved[p] # NoFile => point[p] \in Changing

\* A consistent file; whoever promoted its active baseline is done.
Sealed(image, where, what) ==
  /\ Cardinality(image.active) <= 1
  /\ image.ledger = image.rows \cap Legacy
  /\ \A p \in Procs \cap image.active : where[p] = "over" /\ what[p] \in image.rows

AllSealed == \A image \in {live.view, live.main} \cup backups : Sealed(image, point, choice)

RecordInv == RunTyped /\ Working /\ Attached /\ AllSealed

-----------------------------------------------------------------------------
(* Lemmas about the operators.                                              *)

\* A set of naturals has a least element.
LEMMA LeastNatural ==
  ASSUME NEW T, T \subseteq Nat, T # {}
  PROVE  \E m \in T : \A k \in T : m <= k
<1> DEFINE R == {ss \in Nat \X Nat : ss[1] < ss[2]}
<1>1. IsWellFoundedOn(R, Nat)
  BY NatLessThanWellFounded DEF OpToRel
<1>2. \A k, m \in Nat : k < m => <<k, m>> \in R
  OBVIOUS
<1> HIDE DEF R
<1>3. PICK m \in T : \A k \in T : <<k, m>> \notin R
  BY <1>1, WFMin
<1>4. \A k \in T : ~(k < m)
  BY <1>2, <1>3
<1> QED
  BY <1>4

\* The next test is one of those selected.
LEMMA NextIsSelected ==
  ASSUME RunTyped, Untested # {}
  PROVE  NextTest \in Tests
<1>1. DOMAIN scene.selected \subseteq Nat
  BY ScenesAssumption DEF RunTyped
<1>2. PICK m \in Untested : \A k \in Untested : m <= k
  BY <1>1, LeastNatural DEF Untested
<1>3. Min(Untested) \in Untested
  BY <1>2 DEF Min
<1> QED
  BY <1>3 DEF NextTest, Untested, Tests, ToSet

\* Whatever the results, one of the four outcomes is derived.
LEMMA DeriveType ==
  ASSUME NEW h, NEW selected, NEW results
  PROVE  Derive(h, selected, results) \in Outcomes
  BY DEF Derive, DeriveFromResults, Outcomes

\* Whatever pytest reports, it is mapped to a status other than UNVALIDATED.
LEMMA MappedType ==
  ASSUME NEW r \in Reports
  PROVE  Mapped(r) \in TestStatus \ {"UNVALIDATED"}
  BY DEF Mapped, Reports, TestStatus

LEMMA ResultIsEntry ==
  ASSUME NEW t \in Tests, NEW status \in TestStatus, NEW evidence \in Evidence,
         NEW unit \in {None, Policy[t].unit}, NEW samples \in {<<>>} \cup Measurements,
         status \in {"PASS", "XPASS"} => evidence \notin EvidenceMissing,
         status = "UNVALIDATED" => evidence # "COMPLETE"
  PROVE  Result(t, status, evidence, unit, samples) \in Entries
<1> DEFINE e == Result(t, status, evidence, unit, samples)
           Units == {None} \cup {Policy[x].unit : x \in Tests}
           Kinds == {<<>>} \cup Measurements
<1>1. e = [test |-> t, status |-> status, criticality |-> "BLOCKING", evidence |-> evidence,
           product |-> FALSE, unit |-> unit, samples |-> samples]
  BY DEF Result
<1>2. e.status = status /\ e.evidence = evidence
  BY <1>1
<1>3. Recordable(e)
  BY <1>2 DEF Recordable
<1>4. unit \in Units /\ samples \in Kinds /\ "BLOCKING" \in Criticality
  BY DEF Criticality
<1> HIDE DEF Units, Kinds
<1>5. e \in [test : Tests, status : TestStatus, criticality : Criticality, evidence : Evidence,
             product : BOOLEAN, unit : Units, samples : Kinds]
  BY <1>1, <1>4
<1> QED
  BY <1>3, <1>5 DEF Entries, Units, Kinds

\* What a session concludes or measures can be recorded.
LEMMA ConclusionIsEntry ==
  ASSUME NEW t \in Tests, NEW r \in Reports, NEW evidence \in EvidenceStates
  PROVE  Result(t, Trusted(Mapped(r), evidence), evidence, None, <<>>) \in Entries
<1>1. Mapped(r) \in TestStatus \ {"UNVALIDATED"}
  BY MappedType
<1>2. Trusted(Mapped(r), evidence) \in TestStatus /\ evidence \in Evidence
  BY <1>1 DEF Trusted, TestStatus, EvidenceStates, Evidence
<1>3. Trusted(Mapped(r), evidence) \in {"PASS", "XPASS"} => evidence \notin EvidenceMissing
  BY DEF Trusted
<1>4. Trusted(Mapped(r), evidence) = "UNVALIDATED" => evidence # "COMPLETE"
  BY <1>1 DEF Trusted, EvidenceMissing
<1> QED
  BY <1>2, <1>3, <1>4, ResultIsEntry

LEMMA MeasurementIsEntry ==
  ASSUME NEW t \in Tests, NEW r \in Reports, NEW samples \in {<<>>} \cup Measurements,
         NEW unit \in {None, Policy[t].unit}
  PROVE  Result(t, Mapped(r), "NOT_REQUIRED", unit, samples) \in Entries
<1>1. Mapped(r) \in TestStatus \ {"UNVALIDATED"}
  BY MappedType
<1>2. "NOT_REQUIRED" \in Evidence \ EvidenceMissing
  BY DEF Evidence, EvidenceMissing
<1> QED
  BY <1>1, <1>2, ResultIsEntry

\* Nothing consistent becomes inconsistent when processes go on.
LEMMA SealStays ==
  ASSUME NEW image, NEW where, NEW what, NEW where2, NEW what2, Sealed(image, where, what),
         \A p \in Procs : where[p] = "over" => where2[p] = "over" /\ what2[p] = what[p]
  PROVE  Sealed(image, where2, what2)
  BY DEF Sealed

LEMMA NoFileIsSealed == ASSUME NEW where, NEW what PROVE Sealed(NoFile, where, what)
<1>1. NoFile.active = {} /\ NoFile.ledger = {} /\ NoFile.rows = {}
  BY DEF NoFile, Image
<1> QED
  BY <1>1, FS_EmptySet DEF Sealed

LEMMA InitRecordInv == Init => RecordInv
<1> SUFFICES ASSUME Init PROVE RecordInv
  OBVIOUS
<1>1. /\ scene \in Scenes /\ live = File(scene.image) /\ backups = scene.backups
      /\ flock = Absent
      /\ point = [p \in Procs |-> First(scene.job[p])] /\ open = [p \in Procs |-> "none"]
      /\ saved = [p \in Procs |-> NoFile] /\ stored = scene.image.rows /\ window = {}
      /\ candidate = NewRun(scene.selected) /\ choice = [p \in Procs |-> None]
  BY DEF Init
<1>2. \A p \in Procs : point[p] \in {"ready", "restore", "over", "start"}
  BY <1>1 DEF First
<1>3. RunTyped
  BY <1>1 DEF RunTyped, NewRun, Health, Outcomes
<1>4. Working
  BY <1>1, <1>2 DEF Working, Works, Testing, Holding
<1>5. Attached
  BY <1>1, <1>2, AbsentAssumption DEF Attached
<1>6. \A image \in {scene.image} \cup scene.backups : Sealed(image, point, choice)
  BY <1>1, ScenesAssumption DEF Sealed
<1>7. AllSealed
  BY <1>1, <1>6 DEF AllSealed, File
<1> QED
  BY <1>3, <1>4, <1>5, <1>7 DEF RecordInv

-----------------------------------------------------------------------------
(* What steps keep.                                                         *)

\* The work of the others is not disturbed by a step of p.
LEMMA OthersWork ==
  ASSUME RecordInv, NEW p \in Procs, scene' = scene, DOMAIN choice' = Procs,
         \A q \in Procs \ {p} : point'[q] = point[q] /\ choice'[q] = choice[q],
         candidate'.results = candidate.results \/ scene.job[p] = "session",
         \A q \in Procs \ {p} : point[q] \in {"promotable", "promoting"} =>
           live.view.rows \subseteq live'.view.rows,
         Works(p)'
  PROVE  Working'
<1>1. ASSUME NEW q \in Procs \ {p} PROVE Works(q)'
  <2>1. Works(q) /\ point'[q] = point[q] /\ choice'[q] = choice[q]
    BY DEF RecordInv, Working
  <2>2. point[q] \in Testing => Untested' = Untested
    <3>1. scene.job[p] = "session" /\ point[q] \in Testing => FALSE
      BY <2>1, ScenesAssumption DEF Works, RecordInv, RunTyped
    <3> QED
      BY <3>1 DEF Untested
  <2>3. Entries' = Entries
    BY DEF Entries, Tests
  <2> QED
    BY <2>1, <2>2, <2>3 DEF Works
<1> QED
  BY <1>1 DEF Working

\* Files stay sealed when all are copies of one that was, or sealed anew.
LEMMA SealsStay ==
  ASSUME AllSealed,
         \A q \in Procs : point[q] = "over" => point'[q] = "over" /\ choice'[q] = choice[q],
         \A image \in {live'.view, live'.main} \cup backups' :
           image \in {live.view, live.main, NoFile} \cup backups \/ Sealed(image, point', choice')
  PROVE  AllSealed'
<1>1. \A image \in {live.view, live.main, NoFile} \cup backups : Sealed(image, point', choice')
  BY SealStays, NoFileIsSealed DEF AllSealed
<1> QED
  BY <1>1 DEF AllSealed

\* A step within the work of a process that serves, or its end.
LEMMA MoveKeepsWork ==
  ASSUME FileInv, RecordInv, NEW p \in Procs, NEW to \in (Serving \cup {"over"}) \ Writing,
         point[p] \in Serving \ Writing, Goto(p, to), DOMAIN choice' = Procs,
         \A q \in Procs \ {p} : choice'[q] = choice[q],
         UNCHANGED <<live, backups, flock, open, saved, stored, window, scene, candidate.results>>,
         RunTyped', Works(p)'
  PROVE  RecordInv'
<1>1. \A q \in Procs \ {p} : point'[q] = point[q]
  BY DEF Goto, FileInv, Shapes
<1>2. point'[p] = to /\ point[p] # "over"
  BY DEF Goto, FileInv, Shapes, Serving
<1>3. Working'
  BY <1>1, OthersWork
<1>4. Attached'
  BY <1>1, <1>2 DEF RecordInv, Attached, Locking, Changing, Serving, Writing
<1>5. AllSealed'
  BY <1>1, <1>2, SealsStay DEF RecordInv
<1> QED
  BY <1>3, <1>4, <1>5 DEF RecordInv

\* A transaction begins.
LEMMA BeginKeepsWork ==
  ASSUME FileInv, RecordInv, NEW p \in Procs, NEW from \in Serving \ Writing, NEW to \in Writing,
         Begin(p, from, to), DOMAIN choice' = Procs,
         \A q \in Procs \ {p} : choice'[q] = choice[q],
         UNCHANGED <<scene, candidate>>, Works(p)'
  PROVE  RecordInv'
<1>1. \A q \in Procs \ {p} : point'[q] = point[q] /\ open'[q] = open[q]
  BY DEF Begin, Goto, FileInv, Shapes
<1>2. point'[p] = to /\ point[p] = from /\ point[p] # "over"
  BY DEF Begin, Goto, FileInv, Shapes, Serving
<1>3. Working'
  BY <1>1, OthersWork DEF Begin
<1>4. Attached'
  <2>1. open' \in [Procs -> {"none", "live", "replaced"}]
    BY DEF RecordInv, Attached, Begin
  <2> QED
    BY <1>1, <1>2, <2>1 DEF RecordInv, Attached, Locking, Changing, Serving, Writing, Begin
<1>5. AllSealed'
  BY <1>1, <1>2, SealsStay DEF RecordInv, Begin
<1>6. RunTyped'
  BY DEF RecordInv, RunTyped, Entries, Tests
<1> QED
  BY <1>3, <1>4, <1>5, <1>6 DEF RecordInv

\* A transaction commits what leaves the file sealed.
LEMMA CommitKeepsWork ==
  ASSUME FileInv, RecordInv, NEW p \in Procs, NEW image, NEW row, NEW to \in {"ready", "over"},
         point[p] \in Writing, Commit(p, image, row), Goto(p, to), DOMAIN choice' = Procs,
         \A q \in Procs \ {p} : choice'[q] = choice[q], UNCHANGED scene,
         candidate'.results = candidate.results \/ scene.job[p] = "session",
         live.view.rows \subseteq image.rows, Sealed(image, point', choice'),
         RunTyped'
  PROVE  RecordInv'
<1>1. \A q \in Procs \ {p} : point'[q] = point[q] /\ open'[q] = open[q]
  BY DEF Commit, Close, Goto, FileInv, Shapes
<1>2. point'[p] = to /\ point[p] # "over" /\ open'[p] = "none"
  BY DEF Commit, Close, Goto, FileInv, Shapes, Writing
<1>3. /\ live' = [main |-> live.main, view |-> live'.view]
      /\ live'.view = IF open[p] = "live" THEN image ELSE live.view
  BY DEF Commit, FileInv, Shapes
<1>4. Working'
  <2>1. Works(p)'
    BY <1>2 DEF Works, Testing, Holding
  <2> QED
    BY <1>1, <1>3, <2>1, OthersWork
<1>5. Attached'
  <2>1. open' \in [Procs -> {"none", "live", "replaced"}]
    BY DEF RecordInv, Attached, Commit, Close
  <2>2. window' \subseteq stored'
    BY DEF RecordInv, Attached, Commit
  <2> QED
    BY <1>1, <1>2, <2>1, <2>2 DEF RecordInv, Attached, Locking, Changing, Writing, Commit
<1>6. AllSealed'
  BY <1>1, <1>2, <1>3, SealsStay DEF RecordInv, Commit
<1> QED
  BY <1>4, <1>5, <1>6 DEF RecordInv

\* A step on the files takes no part in the work, and leaves copies.
LEMMA FilesKeepWork ==
  ASSUME FileInv, RecordInv, NEW p \in Procs, UNCHANGED recordVars,
         \A q \in Procs \ {p} : point'[q] = point[q],
         \/ point'[p] = point[p]
         \/ point[p] # "over" /\ point'[p] \in Locking \cup {"ready", "over"},
         live.view.rows \subseteq live'.view.rows \/ point[p] \in Changing,
         \A image \in {live'.view, live'.main} \cup backups' :
           image \in {live.view, live.main, NoFile, saved[p]} \cup backups
             \/ Sealed(image, point', choice'),
         Attached'
  PROVE  RecordInv'
<1>1. saved[p] \in backups \cup {NoFile}
  BY DEF FileInv, Shapes
<1>2. \A q \in Procs : point[q] = "over" => point'[q] = "over" /\ choice'[q] = choice[q]
  BY DEF recordVars
<1>3. RunTyped'
  BY DEF RecordInv, RunTyped, Entries, Tests, recordVars
<1>4. AllSealed'
  BY <1>1, <1>2, SealsStay DEF RecordInv
<1>5. \A q \in Procs : point[q] \in {"promotable", "promoting"} =>
        live.view.rows \subseteq live'.view.rows
  BY DEF FileInv, Serialized, Placed, Resident, Serving, Changing, Locking
<1>6. Works(p)'
  <2>1. CASE point'[p] = point[p]
    BY <2>1, <1>5 DEF Works, RecordInv, Working, recordVars, Entries, Tests, Untested
  <2>2. CASE point'[p] \in Locking \cup {"ready", "over"}
    BY <2>2 DEF Works, Locking, Testing, Holding
  <2> QED
    BY <2>1, <2>2
<1>7. Working'
  BY <1>5, <1>6, OthersWork DEF recordVars, RecordInv, Working
<1> QED
  BY <1>3, <1>4, <1>7 DEF RecordInv

-----------------------------------------------------------------------------
(* initialize(), and a restore.                                             *)

\* The files are not touched by these steps.
LEMMA UntouchedKeepsWork ==
  ASSUME FileInv, RecordInv, NEW p \in Procs, UNCHANGED <<recordVars, live, backups>>,
         \/ Lock(p) \/ Inspect(p) \/ Verify(p) \/ MigrationFails(p) \/ RecoveryFails(p)
         \/ Raise(p) \/ LockForRestore(p) \/ Rollback(p, "over") \/ Die(p)
  PROVE  RecordInv'
<1> USE DEF FileInv, Shapes, RecordInv, Goto
<1>1. \A q \in Procs \ {p} : point'[q] = point[q]
  BY DEF Lock, Inspect, Verify, MigrationFails, RecoveryFails, Raise, LockForRestore, Rollback, Die
<1>2. point[p] # "over"
  BY DEF Lock, Inspect, Verify, MigrationFails, RecoveryFails, Raise, LockForRestore, Rollback,
         Die, Stopped, Attached, Writing
<1>3. point'[p] \in Locking \cup {"ready", "over"}
  BY DEF Lock, Inspect, Verify, MigrationFails, RecoveryFails, Raise, LockForRestore, Rollback,
         Die, Locking
<1>4. CASE Lock(p) \/ Inspect(p) \/ MigrationFails(p) \/ RecoveryFails(p)
  <2>1. open' = open /\ saved' = saved /\ window' = window /\ stored' = stored
    BY <1>4 DEF Lock, Inspect, MigrationFails, RecoveryFails
  <2>2. flock' \in Procs \cup {Absent} /\ \A q \in Procs : flock' = q => point'[q] \in Locking
    BY <1>1, <1>4, AbsentAssumption
    DEF Lock, Inspect, MigrationFails, RecoveryFails, Attached, Locking, Unlocked
  <2>3. \A q \in Procs : saved[q] # NoFile => point'[q] \in Changing
    BY <1>1, <1>4
    DEF Lock, Inspect, MigrationFails, RecoveryFails, Attached, Changing, Locking
  <2>4. \A q \in Procs : open[q] # "none" => point'[q] \in Writing
    BY <1>1, <1>4
    DEF Lock, Inspect, MigrationFails, RecoveryFails, Attached, Writing
  <2>5. Attached'
    BY <2>1, <2>2, <2>3, <2>4 DEF Attached
  <2> QED
    BY <1>1, <1>2, <1>3, <2>5, FilesKeepWork
<1>5. CASE Verify(p) \/ Raise(p) \/ Die(p)
  <2>1. window' = window /\ stored' = stored /\ saved' = [saved EXCEPT ![p] = NoFile]
    BY <1>5 DEF Verify, Raise, Die
  <2>2. flock' \in Procs \cup {Absent} /\ \A q \in Procs : flock' = q => point'[q] \in Locking
    BY <1>1, <1>5, AbsentAssumption DEF Verify, Raise, Die, Attached, Locking, Serialized
  <2>3. \A q \in Procs : saved'[q] # NoFile => point'[q] \in Changing
    BY <1>1, <2>1 DEF Attached
  <2>4. /\ open' \in [Procs -> {"none", "live", "replaced"}]
        /\ \A q \in Procs : open'[q] # "none" => point'[q] \in Writing
    BY <1>1, <1>5 DEF Verify, Raise, Die, Close, Attached, Writing
  <2>5. Attached'
    BY <2>1, <2>2, <2>3, <2>4 DEF Attached
  <2> QED
    BY <1>1, <1>2, <1>3, <2>5, FilesKeepWork
<1>6. CASE LockForRestore(p)
  <2>1. /\ flock' = p /\ point'[p] = "keep" /\ UNCHANGED <<open, window, stored>>
        /\ \E b \in backups : saved' = [saved EXCEPT ![p] = b]
    BY <1>6 DEF LockForRestore
  <2>2. \A q \in Procs : saved'[q] # NoFile => point'[q] \in Changing
    BY <1>1, <2>1 DEF Attached, Changing, Locking
  <2>3. open[p] = "none"
    BY <1>6 DEF LockForRestore, Attached, Writing
  <2>4. Attached'
    BY <1>1, <2>1, <2>2, <2>3 DEF Attached, Locking
  <2> QED
    BY <1>1, <1>2, <1>3, <2>4, FilesKeepWork
<1>7. CASE Rollback(p, "over")
  <2>1. point[p] \in Writing
    BY <1>7 DEF Rollback, Attached
  <2>2. Attached'
    BY <1>1, <1>7, <2>1 DEF Rollback, Close, Attached, Writing, Locking, Changing
  <2> QED
    BY <1>1, <1>2, <1>3, <2>2, FilesKeepWork
<1> QED
  BY <1>4, <1>5, <1>6, <1>7

\* A migrated image is as consistent as it was.
LEMMA MigratedIsSealed ==
  ASSUME NEW image, NEW where, NEW what, IsImage(image), Sealed(image, where, what)
  PROVE  Sealed(Migrated(image), where, what)
<1>1. /\ Migrated(image).rows = image.rows /\ Migrated(image).active = image.active
      /\ Migrated(image).ledger = image.ledger
  BY DEF IsImage, Image, Migrated
<1> QED
  BY <1>1 DEF Sealed

\* Copies, restores and migrations leave images that were sealed.
LEMMA TouchedKeepsWork ==
  ASSUME FileInv, RecordInv, NEW p \in Procs, UNCHANGED recordVars,
         Backup(p) \/ Migrate(p) \/ Unlink(p) \/ Replace(p) \/ Keep(p) \/ Checkpoint
  PROVE  RecordInv'
<1> USE DEF FileInv, Shapes, RecordInv, Goto
<1>1. \A q \in Procs \ {p} : point'[q] = point[q]
  BY DEF Backup, Migrate, Unlink, Replace, Keep, Checkpoint
<1>2. point'[p] = point[p] \/ (point[p] # "over" /\ point'[p] \in Locking \cup {"ready", "over"})
  BY DEF Backup, Migrate, Unlink, Replace, Keep, Checkpoint, Locking
<1>3. flock' = flock /\ UNCHANGED <<stored, window>>
  BY DEF Backup, Migrate, Unlink, Replace, Keep, Checkpoint
<1>4. ASSUME UNCHANGED saved \/ Backup(p), UNCHANGED open \/ open' = Orphaned PROVE Attached'
  <2>1. open' \in [Procs -> {"none", "live", "replaced"}]
    BY <1>4 DEF Attached, Orphaned
  <2>2. \A q \in Procs : open'[q] # "none" => point'[q] \in Writing
    <3>1. \A q \in Procs : open'[q] # "none" => point[q] \in Writing
      BY <1>4 DEF Attached, Orphaned
    <3>2. point'[p] # point[p] => point[p] \notin Writing
      BY DEF Backup, Migrate, Unlink, Replace, Keep, Checkpoint, Writing
    <3> QED
      BY <1>1, <3>1, <3>2
  <2>3. \A q \in Procs : flock = q => point'[q] \in Locking
    <3>1. point'[p] # point[p] => point'[p] \in Locking
      BY DEF Backup, Migrate, Unlink, Replace, Keep, Checkpoint, Locking
    <3> QED
      BY <1>1, <3>1 DEF Attached
  <2>4. \A q \in Procs : saved'[q] # NoFile => point'[q] \in Changing
    <3>1. point'[p] # point[p] \/ Backup(p) => point'[p] \in Changing
      BY DEF Backup, Migrate, Unlink, Replace, Keep, Checkpoint, Changing, Locking
    <3>2. \A q \in Procs \ {p} : saved'[q] = saved[q]
      BY <1>4 DEF Backup
    <3>3. ~Backup(p) => saved' = saved
      BY <1>4
    <3> QED
      BY <1>1, <3>1, <3>2, <3>3 DEF Attached
  <2> QED
    BY <1>3, <2>1, <2>2, <2>3, <2>4 DEF Attached
<1>5. CASE Backup(p) \/ Keep(p)
  <2>1. live' = live /\ backups' \subseteq backups \cup {live.view} /\ open' = open
    BY <1>5 DEF Backup, Keep, Kept
  <2>2. UNCHANGED saved \/ Backup(p)
    BY <1>5 DEF Keep
  <2> QED
    BY <1>1, <1>2, <1>4, <2>1, <2>2, FilesKeepWork
<1>6. CASE Migrate(p)
  <2>1. UNCHANGED <<open, saved, backups>>
    BY <1>6 DEF Migrate
  <2>2. /\ live'.main \in {live.main, live'.view}
        /\ live'.view = IF Exists(live.view) THEN Migrated(live.view) ELSE Migrated(NoFile)
    BY <1>6 DEF Migrate, File
  <2>3. point[p] \in Changing
    BY <1>6 DEF Migrate, Changing, Locking
  <2>4. \A q \in Procs : point[q] = "over" => point'[q] = "over"
    BY <1>1, <1>2
  <2>5. Sealed(live.view, point', choice')
    BY <2>4, SealStays DEF AllSealed, recordVars
  <2>6. Sealed(live'.view, point', choice')
    BY <2>2, <2>5, MigratedIsSealed, NoFileIsSealed, NoFileIsImage
  <2> QED
    BY <1>1, <1>2, <1>4, <2>1, <2>2, <2>3, <2>6, FilesKeepWork
<1>7. CASE Unlink(p)
  <2>1. UNCHANGED <<saved, backups>> /\ open' = Orphaned /\ point[p] \in Changing
    BY <1>7 DEF Unlink, Changing, Locking
  <2>2. live'.main \in {live.main, NoFile} /\ live'.view \in {live.main, NoFile}
    BY <1>7 DEF Unlink, File
  <2> QED
    BY <1>1, <1>2, <1>4, <2>1, <2>2, FilesKeepWork
<1>8. CASE Replace(p)
  <2>1. UNCHANGED <<saved, backups>> /\ open' = Orphaned /\ point[p] \in Changing
    BY <1>8 DEF Replace, Changing, Locking
  <2>2. live'.main = saved[p] /\ live'.view = saved[p]
    BY <1>8 DEF Replace, File
  <2> QED
    BY <1>1, <1>2, <1>4, <2>1, <2>2, FilesKeepWork
<1>9. CASE Checkpoint
  <2>1. UNCHANGED <<saved, backups, open>> /\ live'.main = live.view /\ live'.view = live.view
    BY <1>9 DEF Checkpoint, File
  <2> QED
    BY <1>1, <1>2, <1>4, <2>1, FilesKeepWork
<1> QED
  BY <1>5, <1>6, <1>7, <1>8, <1>9

-----------------------------------------------------------------------------
(* The session, promotions, and imports.                                    *)

\* What transactions leave is sealed: the ids of rows are none of an import's,
\* a promotion leaves its own baseline active, an import writes its ledger.
LEMMA AddedIsSealed ==
  ASSUME NEW image, IsImage(image), NEW where, NEW what, Sealed(image, where, what),
         NEW row, row \notin Legacy
  PROVE  Sealed(Add(image, row), where, what) /\ image.rows \subseteq Add(image, row).rows
<1>1. /\ Add(image, row).rows = image.rows \cup {row} /\ Add(image, row).active = image.active
      /\ Add(image, row).ledger = image.ledger
  BY DEF IsImage, Image, Add
<1> QED
  BY <1>1 DEF Sealed

LEMMA PromotedIsSealed ==
  ASSUME NEW image, IsImage(image), NEW where, NEW what, Sealed(image, where, what),
         NEW p \in Procs, p \notin Legacy, where[p] = "over", what[p] \in image.rows
  PROVE  Sealed(Promoted(image, p), where, what) /\ image.rows \subseteq Promoted(image, p).rows
<1>1. /\ Promoted(image, p).rows = image.rows \cup {p} /\ Promoted(image, p).active = {p}
      /\ Promoted(image, p).ledger = image.ledger
  BY DEF IsImage, Image, Add, Promoted
<1>2. Cardinality(Promoted(image, p).active) <= 1
  <2>1. Cardinality({p}) = 1
    BY FS_Singleton
  <2> QED
    BY <1>1, <2>1
<1> QED
  BY <1>1, <1>2 DEF Sealed

LEMMA ImportedIsSealed ==
  ASSUME NEW image, IsImage(image), NEW where, NEW what, Sealed(image, where, what),
         NEW l \in Legacy
  PROVE  Sealed(Imported(image, l), where, what) /\ image.rows \subseteq Imported(image, l).rows
<1>1. /\ Imported(image, l).rows = image.rows \cup {l}
      /\ Imported(image, l).active = image.active
      /\ Imported(image, l).ledger = image.ledger \cup {l}
  BY DEF IsImage, Image, Add, Imported
<1> QED
  BY <1>1 DEF Sealed

\* Telemetry only adds to what the Run has seen.
LEMMA TelemetryKeepsWork ==
  ASSUME FileInv, RecordInv, NEW p \in Procs,
         NEW from, NEW to, <<from, to>> \in {<<"before", "test">>, <<"after", "result">>},
         Telemetry(p, from, to)
  PROVE  RecordInv'
<1> USE DEF RecordInv
<1>1. PICK e : candidate' = [candidate EXCEPT !.seen = @ \cup e]
  BY DEF Telemetry
<1>2. /\ scene' = scene /\ choice' = choice /\ point[p] = from /\ Goto(p, to)
      /\ UNCHANGED <<live, backups, flock, open, saved, stored, window>>
  BY DEF Telemetry
<1>3. /\ candidate' = [suite |-> candidate.suite, selected |-> candidate.selected,
                       seen |-> candidate.seen \cup e, results |-> candidate.results,
                       lifecycle |-> candidate.lifecycle, health |-> candidate.health,
                       outcome |-> candidate.outcome]
  BY <1>1 DEF RunTyped
<1>4. Entries' = Entries /\ Tests' = Tests
  BY <1>2 DEF Entries, Tests
<1>5. RunTyped'
  BY <1>2, <1>3, <1>4 DEF RunTyped
<1>6. point[p] \in Serving \ Writing /\ to \in (Serving \cup {"over"}) \ Writing
  BY <1>2 DEF Serving, Writing
<1>7. Works(p)'
  <2>1. point'[p] = to
    BY <1>2 DEF Goto, FileInv, Shapes
  <2>2. Works(p) /\ Untested' = Untested
    BY <1>2, <1>3 DEF Working, Untested
  <2> QED
    BY <1>2, <1>4, <2>1, <2>2 DEF Works, Testing, Holding
<1> QED
  BY <1>2, <1>3, <1>5, <1>6, <1>7, MoveKeepsWork DEF Working

\* A test begins, its capture ends, and its result is drawn from it.
LEMMA TestKeepsWork ==
  ASSUME FileInv, RecordInv, NEW p \in Procs,
         StartTest(p) \/ EndCapture(p) \/ Conclude(p) \/ Measure(p)
  PROVE  RecordInv'
<1> USE DEF RecordInv
<1>1. /\ UNCHANGED <<live, backups, flock, open, saved, stored, window, scene, candidate>>
      /\ point[p] \in {"ready", "test", "analyzed"}
  BY DEF StartTest, EndCapture, Conclude, Measure, recordVars
<1>2. \E to \in {"before", "analyzed", "after"} : Goto(p, to)
  BY DEF StartTest, EndCapture, Conclude, Measure
<1>3. Entries' = Entries /\ Tests' = Tests /\ Untested' = Untested
  BY <1>1 DEF Entries, Tests, Untested
<1>4. RunTyped'
  BY <1>1, <1>3 DEF RunTyped
<1>5. DOMAIN choice' = Procs /\ \A q \in Procs \ {p} : choice'[q] = choice[q]
  BY DEF StartTest, EndCapture, Conclude, Measure, Working, recordVars
<1>6. Works(p)'
  <2> USE DEF Works, Testing, Holding
  <2>0. DOMAIN point = Procs /\ Works(p)
    BY DEF FileInv, Shapes, Working
  <2>1. CASE StartTest(p)
    BY <1>3, <2>0, <2>1 DEF StartTest, Goto, recordVars
  <2>2. CASE EndCapture(p)
    BY <1>3, <2>0, <2>2 DEF EndCapture, Goto
  <2>3. CASE Conclude(p)
    <3>1. NextTest \in Tests
      BY <2>0, <2>3, NextIsSelected DEF Conclude
    <3>2. choice'[p] \in Entries
      BY <2>3, <3>1, ConclusionIsEntry DEF Conclude, Working, ReportsOf
    <3> QED
      BY <1>1, <1>3, <2>0, <2>3, <3>2 DEF Conclude, Goto
  <2>4. CASE Measure(p)
    <3>1. NextTest \in Tests
      BY <2>0, <2>4, NextIsSelected DEF Measure
    <3>2. choice'[p] \in Entries
      BY <2>4, <3>1, MeasurementIsEntry DEF Measure, Working, ReportsOf
    <3> QED
      BY <1>1, <1>3, <2>0, <2>4, <3>2 DEF Measure, Goto
  <2> QED
    BY <2>1, <2>2, <2>3, <2>4
<1> QED
  BY <1>1, <1>2, <1>4, <1>5, <1>6, MoveKeepsWork DEF Serving, Writing

\* The result is stored with its test.
LEMMA RecordKeepsWork ==
  ASSUME FileInv, RecordInv, NEW p \in Procs, RecordResult(p)
  PROVE  RecordInv'
<1> USE DEF RecordInv
<1> DEFINE r == choice[p]
<1>1. /\ point[p] = "recording" /\ Goto(p, "ready") /\ scene' = scene
      /\ Commit(p, Add(live.view, r.test), r.test)
      /\ candidate' = [candidate EXCEPT !.results = Append(@, r)]
      /\ choice' = [choice EXCEPT ![p] = None]
  BY DEF RecordResult
<1>2. scene.job[p] = "session" /\ r \in Entries
  BY <1>1 DEF Working, Works, Holding
<1>3. r.test \notin Legacy
  <2>1. r.test \in Tests
    BY <1>2 DEF Entries
  <2> QED
    BY <2>1, ScenesAssumption DEF Tests, RunTyped
<1>4. RunTyped'
  <2>1. candidate' = [suite |-> candidate.suite, selected |-> candidate.selected,
                      seen |-> candidate.seen, results |-> Append(candidate.results, r),
                      lifecycle |-> candidate.lifecycle, health |-> candidate.health,
                      outcome |-> candidate.outcome]
    BY <1>1 DEF RunTyped
  <2>2. Append(candidate.results, r) \in Seq(Entries)
    BY <1>2, AppendProperties DEF RunTyped
  <2>3. Entries' = Entries
    BY <1>1 DEF Entries, Tests
  <2> QED
    BY <1>1, <2>1, <2>2, <2>3 DEF RunTyped
<1>5. \A q \in Procs : point[q] = "over" => point'[q] = "over" /\ choice'[q] = choice[q]
  BY <1>1 DEF Goto, FileInv, Shapes, Working
<1>6. IsImage(live.view) /\ Sealed(live.view, point', choice')
  BY <1>5, SealStays DEF AllSealed, FileInv, Shapes
<1>7. /\ Sealed(Add(live.view, r.test), point', choice')
      /\ live.view.rows \subseteq Add(live.view, r.test).rows
  BY <1>3, <1>6, AddedIsSealed
<1> QED
  BY <1>1, <1>2, <1>4, <1>7, CommitKeepsWork DEF Writing, Working

\* The Run completes with the outcome that is derived.
LEMMA CompletionKeepsWork ==
  ASSUME FileInv, RecordInv, NEW p \in Procs, CompleteRun(p)
  PROVE  RecordInv'
<1> USE DEF RecordInv
<1>1. /\ point[p] = "completing" /\ Goto(p, "over") /\ scene' = scene /\ choice' = choice
      /\ Commit(p, Add(live.view, "run"), "run")
  BY DEF CompleteRun
<1>2. PICK h \in {"HEALTHY", "DEGRADED"} :
        candidate' = [candidate EXCEPT
                        !.lifecycle = "COMPLETED", !.health = h,
                        !.outcome = Derive(h, candidate.selected, candidate.results)]
  BY DEF CompleteRun
<1>3. candidate' = [suite |-> candidate.suite, selected |-> candidate.selected,
                    seen |-> candidate.seen, results |-> candidate.results,
                    lifecycle |-> "COMPLETED", health |-> h,
                    outcome |-> Derive(h, candidate.selected, candidate.results)]
  BY <1>2 DEF RunTyped
<1>4. RunTyped'
  <2>1. Entries' = Entries
    BY <1>1 DEF Entries, Tests
  <2>2. candidate'.results = candidate.results /\ candidate'.health = h
        /\ candidate'.outcome \in Outcomes
    BY <1>3, DeriveType
  <2> QED
    BY <1>1, <1>3, <2>1, <2>2 DEF RunTyped, Health
<1>5. \A q \in Procs : point[q] = "over" => point'[q] = "over"
  BY <1>1 DEF Goto, FileInv, Shapes
<1>6. IsImage(live.view) /\ Sealed(live.view, point', choice')
  BY <1>1, <1>5, SealStays DEF AllSealed, FileInv, Shapes
<1>7. /\ Sealed(Add(live.view, "run"), point', choice')
      /\ live.view.rows \subseteq Add(live.view, "run").rows
  BY <1>6, AddedIsSealed DEF Legacy
<1>8. candidate'.results = candidate.results
  BY <1>3
<1> QED
  BY <1>1, <1>4, <1>7, <1>8, CommitKeepsWork DEF Writing, Working

\* What is chosen for a promotion is in the database.
LEMMA CheckKeepsWork ==
  ASSUME FileInv, RecordInv, NEW p \in Procs, Check(p)
  PROVE  RecordInv'
<1> USE DEF RecordInv
<1>1. /\ point[p] = "ready"
      /\ UNCHANGED <<live, backups, flock, open, saved, stored, window, scene, candidate>>
  BY DEF Check
<1>2. DOMAIN choice' = Procs /\ \A q \in Procs \ {p} : choice'[q] = choice[q]
  BY DEF Check, Working
<1>3. Promotable(Stored(candidate)) => "run" \in live.view.rows
  <2>1. Promotable(Stored(candidate)) => Stored(candidate).lifecycle = "COMPLETED"
    BY DEF Promotable
  <2>2. Stored(candidate).lifecycle =
          IF "run" \in live.view.rows THEN candidate.lifecycle ELSE "RUNNING"
    BY DEF Stored, RunTyped
  <2> QED
    BY <2>1, <2>2
<1>4. \/ Goto(p, "promotable") /\ choice'[p] \in live.view.rows
      \/ Goto(p, "over")
  BY <1>3 DEF Check, Working
<1>5. DOMAIN point = Procs
  BY DEF FileInv, Shapes
<1>6. Works(p)'
  BY <1>1, <1>4, <1>5 DEF Works, Goto, Testing, Holding
<1>7. RunTyped'
  BY <1>1 DEF RunTyped, Entries, Tests
<1> QED
  BY <1>1, <1>2, <1>4, <1>6, <1>7, MoveKeepsWork DEF Serving, Writing

\* Transactions begin on what was chosen.
LEMMA BeginningKeepsWork ==
  ASSUME FileInv, RecordInv, NEW p \in Procs,
         \/ BeginResult(p) \/ BeginCompletion(p) \/ BeginPromotion(p)
         \/ BeginImport(p) \/ BeginResident(p)
  PROVE  RecordInv'
<1> USE DEF RecordInv
<1>1. DOMAIN point = Procs /\ Works(p) /\ DOMAIN choice = Procs
  BY DEF FileInv, Shapes, Working
<1>2. \E from \in Serving \ Writing, to \in Writing : Begin(p, from, to)
  BY DEF BeginResult, BeginCompletion, BeginPromotion, BeginImport, BeginResident, Serving, Writing
<1>3. UNCHANGED <<scene, candidate, live>>
  BY DEF BeginResult, BeginCompletion, BeginPromotion, BeginImport, BeginResident, recordVars, Begin
<1>4. DOMAIN choice' = Procs /\ \A q \in Procs \ {p} : choice'[q] = choice[q]
  BY <1>1
  DEF BeginResult, BeginCompletion, BeginPromotion, BeginImport, BeginResident, recordVars
<1>5. Entries' = Entries
  BY <1>3 DEF Entries, Tests
<1>6. Works(p)'
  <2> USE DEF Works, Begin, Goto, Testing, Holding
  <2>1. CASE BeginResult(p)
    BY <1>1, <1>3, <1>5, <2>1 DEF BeginResult, recordVars
  <2>2. CASE BeginCompletion(p)
    BY <1>1, <2>2 DEF BeginCompletion, recordVars
  <2>3. CASE BeginPromotion(p)
    BY <1>1, <2>3 DEF BeginPromotion, recordVars
  <2>4. CASE BeginImport(p)
    BY <1>1, <2>4 DEF BeginImport
  <2>5. CASE BeginResident(p)
    BY <1>1, <2>5 DEF BeginResident
  <2> QED
    BY <2>1, <2>2, <2>3, <2>4, <2>5
<1> QED
  BY <1>2, <1>3, <1>4, <1>6, BeginKeepsWork

\* A baseline becomes active in the transaction that stores it.
LEMMA PromotionKeepsWork ==
  ASSUME FileInv, RecordInv, NEW p \in Procs, Promote(p)
  PROVE  RecordInv'
<1> USE DEF RecordInv
<1>1. /\ point[p] = "promoting" /\ Goto(p, "over") /\ UNCHANGED <<scene, choice, candidate>>
      /\ Commit(p, Promoted(live.view, p), p)
  BY DEF Promote, recordVars
<1>2. \A q \in Procs : point[q] = "over" => point'[q] = "over"
  BY <1>1 DEF Goto, FileInv, Shapes
<1>3. IsImage(live.view) /\ Sealed(live.view, point', choice')
  BY <1>1, <1>2, SealStays DEF AllSealed, FileInv, Shapes
<1>4. point'[p] = "over" /\ choice'[p] \in live.view.rows
  BY <1>1 DEF Goto, FileInv, Shapes, Working, Works
<1>5. p \notin Legacy
  BY ScenesAssumption DEF RunTyped
<1>6. /\ Sealed(Promoted(live.view, p), point', choice')
      /\ live.view.rows \subseteq Promoted(live.view, p).rows
  BY <1>3, <1>4, <1>5, PromotedIsSealed
<1>7. RunTyped'
  BY <1>1 DEF RunTyped, Entries, Tests
<1> QED
  BY <1>1, <1>6, <1>7, CommitKeepsWork DEF Writing, Working

\* An earlier release stores a row of its own.
LEMMA ResidentKeepsWork ==
  ASSUME FileInv, RecordInv, NEW p \in Procs, ResidentWrites(p)
  PROVE  RecordInv'
<1> USE DEF RecordInv
<1>1. /\ point[p] = "writing" /\ Goto(p, "over") /\ UNCHANGED <<scene, choice, candidate>>
      /\ Commit(p, Add(live.view, p), p)
  BY DEF ResidentWrites, recordVars
<1>2. \A q \in Procs : point[q] = "over" => point'[q] = "over"
  BY <1>1 DEF Goto, FileInv, Shapes
<1>3. IsImage(live.view) /\ Sealed(live.view, point', choice')
  BY <1>1, <1>2, SealStays DEF AllSealed, FileInv, Shapes
<1>4. p \notin Legacy
  BY ScenesAssumption DEF RunTyped
<1>5. /\ Sealed(Add(live.view, p), point', choice')
      /\ live.view.rows \subseteq Add(live.view, p).rows
  BY <1>3, <1>4, AddedIsSealed
<1>6. RunTyped'
  BY <1>1 DEF RunTyped, Entries, Tests
<1> QED
  BY <1>1, <1>5, <1>6, CommitKeepsWork DEF Writing, Working

\* A legacy row comes with its entry in the ledger, or is there already.
LEMMA ImportKeepsWork ==
  ASSUME FileInv, RecordInv, NEW p \in Procs, Import(p)
  PROVE  RecordInv'
<1> USE DEF RecordInv
<1> DEFINE l == choice[p]
<1>1. /\ point[p] = "importing" /\ Goto(p, "ready") /\ UNCHANGED <<scene, choice, candidate>>
      /\ DOMAIN point = Procs
  BY DEF Import, recordVars, FileInv, Shapes
<1>2. l \in Legacy
  BY <1>1 DEF Working, Works
<1>3. \A q \in Procs : point[q] = "over" => point'[q] = "over"
  BY <1>1 DEF Goto
<1>4. IsImage(live.view) /\ Sealed(live.view, point', choice')
  BY <1>1, <1>3, SealStays DEF AllSealed, FileInv, Shapes
<1>5. RunTyped'
  BY <1>1 DEF RunTyped, Entries, Tests
<1>6. CASE l \notin live.view.ledger
  <2>1. Commit(p, Imported(live.view, l), l)
    BY <1>6 DEF Import
  <2>2. /\ Sealed(Imported(live.view, l), point', choice')
        /\ live.view.rows \subseteq Imported(live.view, l).rows
    BY <1>2, <1>4, ImportedIsSealed
  <2> QED
    BY <1>1, <1>5, <2>1, <2>2, CommitKeepsWork DEF Writing, Working
<1>7. CASE l \in live.view.ledger
  <2>1. Close(p) /\ UNCHANGED <<live, backups, flock, saved, stored, window>>
    BY <1>7 DEF Import
  <2>2. \A q \in Procs \ {p} : point'[q] = point[q]
    BY <1>1 DEF Goto
  <2>3. Works(p)'
    BY <1>1 DEF Works, Goto, Testing, Holding
  <2>4. Working'
    BY <1>1, <2>1, <2>2, <2>3, OthersWork DEF Working
  <2>5. Attached'
    BY <1>1, <2>1 DEF Attached, Close, Goto, Locking, Changing, Writing
  <2>6. AllSealed'
    BY <1>1, <1>3, <2>1, SealsStay
  <2> QED
    BY <1>5, <2>4, <2>5, <2>6
<1> QED
  BY <1>6, <1>7

LEMMA ImportEndKeepsWork ==
  ASSUME FileInv, RecordInv, NEW p \in Procs, ImportEnds(p)
  PROVE  RecordInv'
<1> USE DEF RecordInv
<1>1. /\ point[p] = "ready" /\ Goto(p, "over") /\ UNCHANGED <<choice, candidate>>
      /\ UNCHANGED <<live, backups, flock, open, saved, stored, window, scene>>
  BY DEF ImportEnds, recordVars
<1>2. Works(p)'
  BY <1>1 DEF FileInv, Shapes, Works, Goto, Testing, Holding
<1>3. RunTyped'
  BY <1>1 DEF RunTyped, Entries, Tests
<1> QED
  BY <1>1, <1>2, <1>3, MoveKeepsWork DEF Serving, Writing, Working

LEMMA NextKeepsRecordInv == FileInv /\ RecordInv /\ [Next]_vars => RecordInv'
<1> SUFFICES ASSUME FileInv, RecordInv, [Next]_vars PROVE RecordInv'
  OBVIOUS
<1>1. CASE UNCHANGED <<fileVars, recordVars>>
  BY <1>1
  DEF RecordInv, RunTyped, Entries, Tests, Working, Works, Attached, AllSealed, Untested,
      fileVars, recordVars
<1>2. ASSUME NEW p \in Procs, Session(p) PROVE RecordInv'
  BY <1>2, TelemetryKeepsWork, TestKeepsWork, BeginningKeepsWork, RecordKeepsWork,
     CompletionKeepsWork
  DEF Session
<1>3. ASSUME NEW p \in Procs, Files(p) PROVE RecordInv'
  <2>1. UNCHANGED recordVars
    BY <1>3 DEF Files
  <2>2. CASE \/ Backup(p) \/ Migrate(p) \/ Unlink(p) \/ Replace(p) \/ Keep(p) \/ Checkpoint
    BY <2>1, <2>2, TouchedKeepsWork
  <2>3. CASE \/ Lock(p) \/ Inspect(p) \/ Verify(p) \/ MigrationFails(p) \/ RecoveryFails(p)
             \/ Raise(p) \/ LockForRestore(p) \/ Rollback(p, "over") \/ Die(p)
    <3>1. UNCHANGED <<live, backups>>
      BY <2>3 DEF Lock, Inspect, Verify, MigrationFails, RecoveryFails, Raise, LockForRestore,
                  Rollback, Die
    <3> QED
      BY <2>1, <2>3, <3>1, UntouchedKeepsWork
  <2> QED
    BY <1>3, <2>2, <2>3 DEF Files, Initializing
<1>4. ASSUME NEW p \in Procs,
             \/ Check(p) \/ BeginPromotion(p) \/ Promote(p) \/ BeginImport(p) \/ Import(p)
             \/ ImportEnds(p) \/ BeginResident(p) \/ ResidentWrites(p)
      PROVE  RecordInv'
  BY <1>4, CheckKeepsWork, BeginningKeepsWork, PromotionKeepsWork, ImportKeepsWork,
     ImportEndKeepsWork, ResidentKeepsWork
<1>5. ASSUME NEW p \in Procs, Frames(p) PROVE RecordInv'
  BY <1>5, <1>1 DEF Frames
<1>6. CASE UNCHANGED vars
  BY <1>6, <1>1 DEF vars
<1> QED
  BY <1>2, <1>3, <1>4, <1>5, <1>6 DEF Next

-----------------------------------------------------------------------------

THEOREM WorkIsKept == Spec => []RecordInv
<1>1. Init => RecordInv
  BY InitRecordInv
<1>2. FileInv /\ RecordInv /\ [Next]_vars => RecordInv'
  BY NextKeepsRecordInv
<1> QED
  BY <1>1, <1>2, FilesAreKept, PTL DEF Spec

\* A process that is over, however it ended, holds no connection, no lock and no
\* copy; what a Run records a TestResult can be, and its outcome is one of four.
THEOREM RecordsAreTyped == Spec => []TypeOK
<1>1. RecordInv => TypeOK
  <2> SUFFICES ASSUME RecordInv PROVE TypeOK
    OBVIOUS
  <2>1. \A p \in Procs : point[p] = "over" => open[p] = "none" /\ flock # p /\ saved[p] = NoFile
    BY DEF RecordInv, Attached, Locking, Changing, Writing
  <2>2. \A r \in ToSet(candidate.results) : Recordable(r)
    <3>1. \A i \in DOMAIN candidate.results : candidate.results[i] \in Entries
      BY DEF RecordInv, RunTyped
    <3> QED
      BY <3>1 DEF ToSet, Entries
  <2> QED
    BY <2>1, <2>2 DEF TypeOK, RecordInv, RunTyped, Attached
<1> QED
  BY <1>1, WorkIsKept, PTL

\* Whatever upgrades, restores, deaths and promotions come between, the database
\* and each backup hold at most one active baseline, with its Run, and the legacy
\* rows that the ledger names and no others.
THEOREM FilesStayConsistent == Spec => []FilesAreConsistent
<1>1. RecordInv => FilesAreConsistent
  BY DEF RecordInv, AllSealed, FilesAreConsistent, Sealed, Consistent
<1> QED
  BY <1>1, WorkIsKept, PTL

-----------------------------------------------------------------------------
(* The loop of analyze_dns.                                                 *)

\* What it has counted when it has seen i frames.
Count(g, frames, i, c, n) ==
  IF i = 0 THEN [pending |-> 0, correlated |-> 0]
  ELSE IF frames[i].from = c /\ frames[i].n = n THEN Counted(g[i - 1], frames[i])
  ELSE g[i - 1]

\* g is what it has counted after each of the first m frames.
Loop(g, frames, m, c, n) == g = [i \in 0..m |-> Count(g, frames, i, c, n)]

LEMMA LoopStep ==
  ASSUME NEW g, NEW frames, NEW m, NEW c, NEW n, Loop(g, frames, m, c, n)
  PROVE  \A i \in 0..m : g[i] = Count(g, frames, i, c, n)
<1> DEFINE Body(i) == Count(g, frames, i, c, n)
<1>1. g = [i \in 0..m |-> Body(i)]
  BY DEF Loop
<1> HIDE DEF Body
<1>2. \A i \in 0..m : g[i] = Body(i)
  BY <1>1
<1> QED
  BY <1>2 DEF Body

LEMMA LoopExists ==
  ASSUME NEW frames, NEW m \in Nat, NEW c, NEW n
  PROVE  \E g : Loop(g, frames, m, c, n)
<1> DEFINE Bad == {k \in Nat : \A g : ~Loop(g, frames, k, c, n)}
<1>1. Bad = {}
  <2> SUFFICES ASSUME Bad # {} PROVE FALSE
    OBVIOUS
  <2>1. PICK k \in Bad : \A j \in Bad : k <= j
    BY LeastNatural
  <2>2. k # 0
    <3> DEFINE g == [i \in 0..0 |-> [pending |-> 0, correlated |-> 0]]
    <3>1. Loop(g, frames, 0, c, n)
      BY DEF Loop, Count
    <3> QED
      BY <3>1, <2>1
  <2>3. k - 1 \in Nat /\ k - 1 \notin Bad
    BY <2>1, <2>2
  <2>4. PICK g : Loop(g, frames, k - 1, c, n)
    BY <2>3
  <2> DEFINE h == [i \in 0..k |-> IF i = k THEN Count(g, frames, k, c, n) ELSE g[i]]
  <2>5. \A i \in 0..k : h[i] = Count(h, frames, i, c, n)
    <3> TAKE i \in 0..k
    <3>1. CASE i = k
      <4>1. h[i - 1] = g[i - 1]
        BY <2>2, <3>1
      <4> QED
        BY <3>1, <4>1, <2>2 DEF Count
    <3>2. CASE i # k
      <4>0. i \in 0..(k - 1) /\ h[i] = g[i]
        BY <2>3, <3>2
      <4>1. h[i] = g[i] /\ g[i] = Count(g, frames, i, c, n)
        BY <4>0, <2>4, LoopStep
      <4>2. i # 0 => h[i - 1] = g[i - 1]
        BY <3>2
      <4> QED
        BY <4>1, <4>2 DEF Count
    <3> QED
      BY <3>1, <3>2
  <2>6. Loop(h, frames, k, c, n)
    BY <2>5 DEF Loop
  <2> QED
    BY <2>1, <2>6
<1> QED
  BY <1>1

\* The count of the first frames does not depend on those that follow.
LEMMA LoopUnique ==
  ASSUME NEW frames, NEW more, NEW m \in Nat, NEW l \in Nat, m <= l, NEW c, NEW n, NEW g, NEW h,
         Loop(g, frames, m, c, n), Loop(h, more, l, c, n), \A i \in 1..m : more[i] = frames[i]
  PROVE  \A i \in 0..m : g[i] = h[i]
<1> DEFINE Bad == {i \in 0..m : g[i] # h[i]}
<1> SUFFICES ASSUME Bad # {} PROVE FALSE
  OBVIOUS
<1>0. Bad \subseteq Nat /\ 0..m \subseteq 0..l
  OBVIOUS
<1>1. PICK k \in Bad : \A j \in Bad : k <= j
  BY <1>0, LeastNatural
<1>2. g[k] = Count(g, frames, k, c, n) /\ h[k] = Count(h, more, k, c, n)
  BY <1>0, LoopStep
<1>3. k # 0 => k \in 1..m /\ k - 1 \notin Bad /\ k - 1 \in 0..m
  BY <1>1
<1>4. k # 0 => g[k - 1] = h[k - 1] /\ more[k] = frames[k]
  BY <1>3
<1>5. Count(g, frames, k, c, n) = Count(h, more, k, c, n)
  BY <1>4 DEF Count
<1> QED
  BY <1>1, <1>2, <1>5

LEMMA AnalyzedLoop ==
  ASSUME NEW S, NEW frames \in Seq(S), NEW c, NEW n
  PROVE  \E g : /\ Loop(g, frames, Len(frames), c, n)
                /\ Analyzed(frames, c, n) = g[Len(frames)]
<1>1. Analyzed(frames, c, n) = (CHOOSE g : Loop(g, frames, Len(frames), c, n))[Len(frames)]
  BY DEF Analyzed, Loop, Count
<1>2. Len(frames) \in Nat
  OBVIOUS
<1> QED
  BY <1>1, <1>2, LoopExists

LEMMA AnalyzedEmpty ==
  ASSUME NEW c, NEW n
  PROVE  Analyzed(<<>>, c, n) = [pending |-> 0, correlated |-> 0]
<1>1. PICK g : Loop(g, <<>>, Len(<<>>), c, n) /\ Analyzed(<<>>, c, n) = g[Len(<<>>)]
  BY AnalyzedLoop, EmptySeq
<1> QED
  BY <1>1 DEF Loop, Count

LEMMA AnalyzedAppend ==
  ASSUME NEW S, NEW frames \in Seq(S), NEW f \in S, NEW c, NEW n
  PROVE  Analyzed(Append(frames, f), c, n) =
           IF f.from = c /\ f.n = n THEN Counted(Analyzed(frames, c, n), f)
           ELSE Analyzed(frames, c, n)
<1> DEFINE more == Append(frames, f)
           len == Len(frames)
<1>1. /\ more \in Seq(S) /\ Len(more) = len + 1 /\ more[len + 1] = f /\ len \in Nat
      /\ \A i \in 1..len : more[i] = frames[i]
  BY AppendProperties
<1>2. PICK g : Loop(g, frames, len, c, n) /\ Analyzed(frames, c, n) = g[len]
  BY AnalyzedLoop
<1>3. PICK h : Loop(h, more, len + 1, c, n) /\ Analyzed(more, c, n) = h[len + 1]
  BY <1>1, AnalyzedLoop
<1> HIDE DEF more, len
<1>4. g[len] = h[len]
  <2>1. len <= len + 1 /\ len + 1 \in Nat /\ len \in 0..len
    BY <1>1
  <2>2. \A i \in 0..len : g[i] = h[i]
    BY <1>1, <1>2, <1>3, <2>1, LoopUnique
  <2> QED
    BY <2>1, <2>2
<1>5. h[len + 1] = Count(h, more, len + 1, c, n)
  <2>1. len + 1 \in 0..(len + 1)
    BY <1>1
  <2> QED
    BY <1>3, <2>1, LoopStep
<1> QED
  BY <1>1, <1>2, <1>3, <1>4, <1>5 DEF Count, more

-----------------------------------------------------------------------------
(* What a capture and the air have in common, and how they grow.            *)

Kinds == {"M1", "M2", "M3", "M4", "DISCOVER", "OFFER", "REQUEST", "ACK", "NAK",
          "query", "response", "beacon"}
Words == {"", "select", "reboot", "RENEW", "REBIND", "CCMP", "none", "truncated"}
Notes == Nat \cup Words
AnyFrame == [kind : Kinds, from : Stations, n : Notes]
States == {"idle", "installed", "selecting", "requesting", "rebooting", "renewing", "rebinding",
           "CCMP", "none"}

\* The capture is a part of what was sent; without gaps, it is all of it.
Captured ==
  /\ air \in Seq(AnyFrame) /\ heard \in Seq(AnyFrame)
  /\ client \in [Stations -> States] /\ counter \in [Stations -> Nat]
  /\ DOMAIN truth = Stations
  /\ Len(heard) <= Len(air) /\ (Len(heard) = Len(air) => heard = air)
  /\ \A j \in DOMAIN heard : \E i \in DOMAIN air : air[i] = heard[j]

Grows(s, new, f) ==
  /\ new = Append(s, f) /\ DOMAIN s = 1..Len(s) /\ Len(s) \in Nat
  /\ DOMAIN new = 1..(Len(s) + 1) /\ Len(new) = Len(s) + 1
  /\ new[Len(s) + 1] = f /\ \A i \in DOMAIN s : i \in DOMAIN new /\ new[i] = s[i]

LEMMA AppendGrows ==
  ASSUME NEW S, NEW s \in Seq(S), NEW f \in S
  PROVE  Grows(s, Append(s, f), f) /\ Append(s, f) \in Seq(S)
<1>1. /\ Append(s, f) \in Seq(S) /\ Len(Append(s, f)) = Len(s) + 1 /\ Append(s, f)[Len(s) + 1] = f
      /\ \A i \in 1..Len(s) : Append(s, f)[i] = s[i]
  BY AppendProperties
<1>2. Len(s) \in Nat /\ DOMAIN s = 1..Len(s) /\ DOMAIN Append(s, f) = 1..(Len(s) + 1)
  BY <1>1
<1> QED
  BY <1>1, <1>2 DEF Grows

LEMMA FrameType ==
  ASSUME NEW kind \in Kinds, NEW c \in Stations, NEW n \in Notes
  PROVE  /\ Frame(kind, c, n) \in AnyFrame
         /\ Frame(kind, c, n).kind = kind /\ Frame(kind, c, n).from = c /\ Frame(kind, c, n).n = n
  BY DEF Frame, AnyFrame

\* A frame is sent: what was sent and heard before stays in place.
LEMMA TransmitGrows ==
  ASSUME Captured, NEW f \in AnyFrame, Transmit(f)
  PROVE  /\ Grows(air, air', f) /\ air' \in Seq(AnyFrame) /\ heard' \in Seq(AnyFrame)
         /\ heard' = heard \/ Grows(heard, heard', f)
         /\ Len(heard') <= Len(air') /\ (Len(heard') = Len(air') => heard' = air')
         /\ \A j \in DOMAIN heard' : \E i \in DOMAIN air' : air'[i] = heard'[j]
         /\ heard' = air' => heard = air /\ Grows(heard, heard', f)
<1>1. air' = Append(air, f) /\ heard' \in {heard, Append(heard, f)}
  BY DEF Transmit
<1>2. Grows(air, air', f) /\ air' \in Seq(AnyFrame)
  BY <1>1, AppendGrows DEF Captured
<1>3. Grows(heard, Append(heard, f), f) /\ Append(heard, f) \in Seq(AnyFrame)
  BY AppendGrows DEF Captured
<1>4. /\ Len(air) \in Nat /\ Len(heard) \in Nat /\ Len(air') = Len(air) + 1
      /\ Len(Append(heard, f)) = Len(heard) + 1
  BY <1>2, <1>3 DEF Grows
<1>5. heard' = heard => Len(heard') < Len(air')
  BY <1>4 DEF Captured
<1>6. heard' = Append(heard, f) => /\ Len(heard') <= Len(air')
                                   /\ Len(heard') = Len(air') => heard = air
  BY <1>4 DEF Captured
<1>7. \A j \in DOMAIN heard' : \E i \in DOMAIN air' : air'[i] = heard'[j]
  <2> TAKE j \in DOMAIN heard'
  <2>1. CASE j \in DOMAIN heard /\ heard'[j] = heard[j]
    BY <1>2, <2>1 DEF Grows, Captured
  <2>2. CASE heard'[j] = f
    BY <1>2, <2>2 DEF Grows
  <2> QED
    BY <1>1, <1>3, <2>1, <2>2 DEF Grows
<1>8. heard' = heard => heard' # air'
  <2>1. Len(heard) < Len(air')
    BY <1>4 DEF Captured
  <2> QED
    BY <1>4, <2>1
<1>9. Len(heard') <= Len(air') /\ (Len(heard') = Len(air') => heard' = air')
  BY <1>1, <1>4, <1>5, <1>6
<1>10. heard' = Append(heard, f) /\ heard' = air' => heard = air
  BY <1>6
<1>11. heard' = air' => heard = air /\ Grows(heard, heard', f)
  BY <1>1, <1>3, <1>8, <1>10
<1>12. heard' \in Seq(AnyFrame) /\ (heard' = heard \/ Grows(heard, heard', f))
  BY <1>1, <1>3 DEF Captured
<1> QED
  BY <1>2, <1>7, <1>9, <1>11, <1>12

\* Where a frame is, and how often it is there.
Places(s, e) == {i \in DOMAIN s : s[i] = e}

LEMMA PlacesGrow ==
  ASSUME NEW s, NEW new, NEW f, NEW e, Grows(s, new, f)
  PROVE  /\ IsFiniteSet(Places(s, e)) /\ Cardinality(Places(s, e)) \in Nat
         /\ Cardinality(Places(new, e)) = Cardinality(Places(s, e)) + (IF f = e THEN 1 ELSE 0)
<1> DEFINE before == {i \in DOMAIN s : s[i] = e}
           after == {i \in DOMAIN new : new[i] = e}
           len == Len(s)
<1> SUFFICES /\ IsFiniteSet(before) /\ Cardinality(before) \in Nat
             /\ Cardinality(after) = Cardinality(before) + (IF f = e THEN 1 ELSE 0)
  BY DEF Places
<1>1. /\ DOMAIN s = 1..len /\ len \in Nat /\ DOMAIN new = 1..(len + 1) /\ new[len + 1] = f
      /\ \A i \in DOMAIN s : new[i] = s[i]
  BY DEF Grows
<1>2. IsFiniteSet(before) /\ Cardinality(before) \in Nat
  <2>1. IsFiniteSet(1..len)
    BY <1>1, FS_Interval
  <2>2. before \subseteq 1..len
    BY <1>1
  <2> QED
    BY <2>1, <2>2, FS_Subset, FS_CardinalityType
<1>3. CASE f = e
  <2>1. after = before \cup {len + 1} /\ len + 1 \notin before
    BY <1>1, <1>3
  <2>2. Cardinality(before \cup {len + 1}) = Cardinality(before) + 1
    BY <1>2, <2>1, FS_AddElement
  <2> QED
    BY <1>2, <1>3, <2>1, <2>2
<1>4. CASE f # e
  <2>1. after = before
    BY <1>1, <1>4
  <2> QED
    BY <1>2, <1>4, <2>1
<1> QED
  BY <1>2, <1>3, <1>4

-----------------------------------------------------------------------------
(* The four-way handshake.                                                  *)

Is(f, kind, c) == f.kind = kind /\ f.from = c

\* Every message was sent for an earlier one, M3 with a counter of its own.
HandshakesOf(c) ==
  /\ \A i \in DOMAIN air : air[i].from = c => air[i].n \in Nat /\ air[i].n <= counter[c]
  /\ \A j \in DOMAIN air : Is(air[j], "M2", c) =>
       \E i \in DOMAIN air : i < j /\ Is(air[i], "M1", c) /\ air[i].n = air[j].n
  /\ \A k \in DOMAIN air : Is(air[k], "M3", c) =>
       \E j \in DOMAIN air : j < k /\ Is(air[j], "M2", c) /\ air[j].n < air[k].n
  /\ \A l \in DOMAIN air : Is(air[l], "M4", c) =>
       /\ "installed" \in truth[c]
       /\ \E k \in DOMAIN air : k < l /\ Is(air[k], "M3", c) /\ air[k].n = air[l].n
  /\ "installed" \in truth[c] => \E l \in DOMAIN air : Is(air[l], "M4", c)

Handshakes == \A c \in Stations : HandshakesOf(c)

LEMMA HandshakesGrow ==
  ASSUME Captured, Handshakes, NEW c \in Stations, NEW f, Grows(air, air', f), f.from = c,
         f.n \in Nat, f.n <= counter'[c], counter[c] <= counter'[c], counter'[c] \in Nat,
         \A d \in Stations \ {c} : counter'[d] = counter[d],
         f.kind = "M2" => \E i \in DOMAIN air : Is(air[i], "M1", c) /\ air[i].n = f.n,
         f.kind = "M3" => \E j \in DOMAIN air : Is(air[j], "M2", c) /\ air[j].n < f.n,
         f.kind = "M4" => \E k \in DOMAIN air : Is(air[k], "M3", c) /\ air[k].n = f.n,
         f.kind = "M4" => truth' = [truth EXCEPT ![c] = @ \cup {"installed"}],
         f.kind # "M4" => truth' = truth
  PROVE  Handshakes'
<1> DEFINE z == Len(air) + 1
<1>1. /\ DOMAIN air = 1..(z - 1) /\ z \in Nat \ {0} /\ DOMAIN air' = 1..z /\ air'[z] = f
      /\ \A i \in DOMAIN air : i \in DOMAIN air' /\ air'[i] = air[i] /\ i < z
  BY DEF Grows
<1> HIDE DEF z
<1>2. \A i \in DOMAIN air' : i \in DOMAIN air \/ i = z
  BY <1>1
<1>3. \A d \in Stations : /\ truth[d] \subseteq truth'[d]
                          /\ d # c \/ f.kind # "M4" => truth'[d] = truth[d]
                          /\ d = c /\ f.kind = "M4" => "installed" \in truth'[d]
  BY DEF Captured
<1> SUFFICES ASSUME NEW d \in Stations PROVE HandshakesOf(d)'
  BY DEF Handshakes
<1>4. \A i \in DOMAIN air' : air'[i].from = d => air'[i].n \in Nat /\ air'[i].n <= counter'[d]
  <2>1. \A i \in DOMAIN air : air[i].from = d => air[i].n \in Nat /\ air[i].n <= counter[d]
    BY DEF Handshakes, HandshakesOf
  <2>2. counter[d] \in Nat /\ counter'[d] \in Nat /\ counter[d] <= counter'[d]
    BY DEF Captured
  <2> QED
    BY <1>1, <1>2, <2>1, <2>2
<1>5. \A j \in DOMAIN air' : Is(air'[j], "M2", d) =>
        \E i \in DOMAIN air' : i < j /\ Is(air'[i], "M1", d) /\ air'[i].n = air'[j].n
  <2> TAKE j \in DOMAIN air'
  <2>1. CASE j \in DOMAIN air
    BY <1>1, <2>1 DEF Handshakes, HandshakesOf
  <2>2. CASE j = z
    BY <1>1, <2>2 DEF Is
  <2> QED
    BY <1>2, <2>1, <2>2
<1>6. \A k \in DOMAIN air' : Is(air'[k], "M3", d) =>
        \E j \in DOMAIN air' : j < k /\ Is(air'[j], "M2", d) /\ air'[j].n < air'[k].n
  <2> TAKE k \in DOMAIN air'
  <2>1. CASE k \in DOMAIN air
    BY <1>1, <2>1 DEF Handshakes, HandshakesOf
  <2>2. CASE k = z
    BY <1>1, <2>2 DEF Is
  <2> QED
    BY <1>2, <2>1, <2>2
<1>7. \A l \in DOMAIN air' : Is(air'[l], "M4", d) =>
        /\ "installed" \in truth'[d]
        /\ \E k \in DOMAIN air' : k < l /\ Is(air'[k], "M3", d) /\ air'[k].n = air'[l].n
  <2> TAKE l \in DOMAIN air'
  <2>1. CASE l \in DOMAIN air
    <3> SUFFICES ASSUME Is(air[l], "M4", d)
                 PROVE  /\ "installed" \in truth'[d]
                        /\ \E k \in DOMAIN air : k < l /\ Is(air[k], "M3", d) /\ air[k].n = air[l].n
      BY <1>1, <2>1 DEF Is
    <3>1. "installed" \in truth[d]
      BY <2>1 DEF Handshakes, HandshakesOf
    <3>2. \E k \in DOMAIN air : k < l /\ Is(air[k], "M3", d) /\ air[k].n = air[l].n
      BY <2>1 DEF Handshakes, HandshakesOf
    <3> QED
      BY <1>3, <3>1, <3>2
  <2>2. CASE l = z
    BY <1>1, <1>3, <2>2 DEF Is
  <2> QED
    BY <1>2, <2>1, <2>2
<1>8. "installed" \in truth'[d] => \E l \in DOMAIN air' : Is(air'[l], "M4", d)
  <2>1. CASE "installed" \in truth[d]
    BY <1>1, <2>1 DEF Handshakes, HandshakesOf
  <2>2. CASE d = c /\ f.kind = "M4"
    BY <1>1, <2>2 DEF Is
  <2> QED
    BY <1>3, <2>1, <2>2
<1> QED
  BY <1>4, <1>5, <1>6, <1>7, <1>8 DEF HandshakesOf

\* A frame that the peers of c send: it is added, and the types are kept.
LEMMA SentKeepsCaptured ==
  ASSUME Captured, NEW c \in Stations, NEW f \in AnyFrame, Transmit(f),
         client' \in [Stations -> States], counter' \in [Stations -> Nat], DOMAIN truth' = Stations
  PROVE  Captured'
  BY TransmitGrows DEF Captured

LEMMA HandshakeStep ==
  ASSUME Captured, Handshakes, NEW c \in Stations, M1(c) \/ M2(c) \/ M3(c) \/ M4(c)
  PROVE  Captured' /\ Handshakes'
<1>1. /\ counter[c] \in Nat /\ counter[c] + 1 \in Nat /\ counter[c] + 1 \in Notes
      /\ {"M1", "M2", "M3", "M4"} \subseteq Kinds
  <2>1. counter[c] \in Nat /\ counter[c] + 1 \in Nat
    BY DEF Captured
  <2>2. counter[c] + 1 \in Notes
    BY <2>1, Zenon DEF Notes
  <2>3. {"M1", "M2", "M3", "M4"} \subseteq Kinds
    BY DEF Kinds
  <2> QED
    BY <2>1, <2>2, <2>3, Zenon
<1>2. ASSUME NEW kind, NEW m \in Got(c, kind)
      PROVE  /\ m.n \in Notes /\ m.n \in Nat /\ m.n <= counter[c]
             /\ \E i \in DOMAIN air : Is(air[i], kind, c) /\ air[i].n = m.n
  <2>1. PICK i \in DOMAIN air : air[i] = m /\ m.from = c /\ m.kind = kind
    BY <1>2 DEF Got, ToSet
  <2> QED
    BY <2>1 DEF Handshakes, HandshakesOf, Is, Notes
<1>3. CASE M1(c)
  <2> DEFINE f == Frame("M1", c, counter[c] + 1)
  <2>1. /\ Transmit(f) /\ counter' = [counter EXCEPT ![c] = @ + 1] /\ truth' = truth
        /\ client' = client
    BY <1>3 DEF M1
  <2>2. f \in AnyFrame /\ f.kind = "M1" /\ f.from = c /\ f.n = counter[c] + 1
    BY <1>1, FrameType
  <2>3. counter' \in [Stations -> Nat] /\ counter'[c] = counter[c] + 1
    BY <1>1, <2>1 DEF Captured
  <2> HIDE DEF f
  <2>4. Captured' /\ Grows(air, air', f)
    BY <2>1, <2>2, <2>3, SentKeepsCaptured, TransmitGrows DEF Captured
  <2>5. Handshakes'
    BY <1>1, <2>1, <2>2, <2>3, <2>4, HandshakesGrow
  <2> QED
    BY <2>4, <2>5
<1>4. CASE M2(c)
  <2>1. PICK m \in Got(c, "M1") : Transmit(Frame("M2", c, m.n))
    BY <1>4 DEF M2
  <2> DEFINE f == Frame("M2", c, m.n)
  <2>2. UNCHANGED <<client, counter, truth>>
    BY <1>4 DEF M2
  <2>3. f \in AnyFrame /\ f.kind = "M2" /\ f.from = c /\ f.n = m.n
    BY <1>1, <1>2, FrameType
  <2>4. Transmit(f)
    BY <2>1
  <2> HIDE DEF f
  <2>5. Captured' /\ Grows(air, air', f)
    BY <2>2, <2>3, <2>4, SentKeepsCaptured, TransmitGrows DEF Captured
  <2>6. Handshakes'
    BY <1>1, <1>2, <2>2, <2>3, <2>5, HandshakesGrow
  <2> QED
    BY <2>5, <2>6
<1>5. CASE M3(c)
  <2> DEFINE f == Frame("M3", c, counter[c] + 1)
  <2>1. /\ Transmit(f) /\ counter' = [counter EXCEPT ![c] = @ + 1] /\ truth' = truth
        /\ client' = client
    BY <1>5 DEF M3
  <2>2. f \in AnyFrame /\ f.kind = "M3" /\ f.from = c /\ f.n = counter[c] + 1
    BY <1>1, FrameType
  <2>3. counter' \in [Stations -> Nat] /\ counter'[c] = counter[c] + 1
    BY <1>1, <2>1 DEF Captured
  <2> HIDE DEF f
  <2>4. Captured' /\ Grows(air, air', f)
    BY <2>1, <2>2, <2>3, SentKeepsCaptured, TransmitGrows DEF Captured
  <2>5. PICK m : m \in Got(c, "M2")
    BY <1>5 DEF M3
  <2>6. \E j \in DOMAIN air : Is(air[j], "M2", c) /\ air[j].n < f.n
    <3>1. PICK j \in DOMAIN air : Is(air[j], "M2", c) /\ air[j].n = m.n
      BY <1>2, <2>5
    <3>2. m.n < f.n
      BY <1>1, <1>2, <2>2, <2>5
    <3> QED
      BY <3>1, <3>2
  <2>7. Handshakes'
    BY <1>1, <2>1, <2>2, <2>3, <2>4, <2>6, HandshakesGrow
  <2> QED
    BY <2>4, <2>7
<1>6. CASE M4(c)
  <2>1. PICK m \in Got(c, "M3") : Transmit(Frame("M4", c, m.n))
    BY <1>6 DEF M4
  <2> DEFINE f == Frame("M4", c, m.n)
  <2>2. /\ counter' = counter /\ truth' = [truth EXCEPT ![c] = @ \cup {"installed"}]
        /\ client' = [client EXCEPT ![c] = "installed"]
    BY <1>6 DEF M4, Learn, Become
  <2>3. f \in AnyFrame /\ f.kind = "M4" /\ f.from = c /\ f.n = m.n
    BY <1>1, <1>2, FrameType
  <2>4. Transmit(f)
    BY <2>1
  <2> HIDE DEF f
  <2>a. /\ client' \in [Stations -> States] /\ counter' \in [Stations -> Nat]
        /\ DOMAIN truth' = Stations
    <3>1. client' \in [Stations -> States]
      <4>1. "installed" \in States
        BY DEF States
      <4>2. client' = [client EXCEPT ![c] = "installed"] /\ client \in [Stations -> States]
        BY <2>2 DEF Captured
      <4> QED
        BY <4>1, <4>2
    <3>2. counter' \in [Stations -> Nat]
      BY <2>2 DEF Captured
    <3>3. DOMAIN truth' = Stations
      BY <2>2 DEF Captured
    <3> QED
      BY <3>1, <3>2, <3>3
  <2>b. PICK k \in DOMAIN air : Is(air[k], "M3", c) /\ air[k].n = m.n
    BY <1>2
  <2>5. Captured' /\ Grows(air, air', f)
    BY <2>a, <2>2, <2>3, <2>4, SentKeepsCaptured, TransmitGrows DEF Captured
  <2>6. /\ f.n \in Nat /\ f.n <= counter'[c] /\ f.kind # "M2" /\ f.kind # "M3"
        /\ \A d \in Stations : counter'[d] = counter[d] /\ counter'[d] \in Nat
    BY <1>2, <2>2, <2>3 DEF Captured
  <2>c. \E j \in DOMAIN air : Is(air[j], "M3", c) /\ air[j].n = f.n
    BY <2>3, <2>b
  <2>d. truth' = [truth EXCEPT ![c] = @ \cup {"installed"}] /\ counter[c] <= counter'[c]
    BY <1>1, <2>2
  <2>7. Handshakes'
    BY <2>3, <2>5, <2>6, <2>c, <2>d, HandshakesGrow
  <2> QED
    BY <2>5, <2>7
<1> QED
  BY <1>3, <1>4, <1>5, <1>6

\* The analyzer's claim and the installed key.
LEMMA HandshakesAreExact ==
  ASSUME Captured, Handshakes, NEW c \in Stations
  PROVE  Exact(HandshakeIsComplete(Of(c)), "installed" \in truth[c])
<1>1. HandshakeIsComplete(Of(c)) => "installed" \in truth[c]
  <2> SUFFICES ASSUME HandshakeIsComplete(Of(c)) PROVE "installed" \in truth[c]
    OBVIOUS
  <2>1. PICK l \in DOMAIN heard : Is(heard[l], "M4", c)
    BY DEF HandshakeIsComplete, InOrder, Of, Is
  <2>2. PICK i \in DOMAIN air : air[i] = heard[l]
    BY DEF Captured
  <2> QED
    BY <2>1, <2>2 DEF Handshakes, HandshakesOf
<1>2. ASSUME "installed" \in truth[c], heard = air PROVE HandshakeIsComplete(Of(c))
  <2>1. PICK l \in DOMAIN air : Is(air[l], "M4", c)
    BY <1>2 DEF Handshakes, HandshakesOf
  <2>2. PICK k \in DOMAIN air : k < l /\ Is(air[k], "M3", c) /\ air[k].n = air[l].n
    BY <2>1 DEF Handshakes, HandshakesOf
  <2>3. PICK j \in DOMAIN air : j < k /\ Is(air[j], "M2", c) /\ air[j].n < air[k].n
    BY <2>2 DEF Handshakes, HandshakesOf
  <2>4. PICK i \in DOMAIN air : i < j /\ Is(air[i], "M1", c) /\ air[i].n = air[j].n
    BY <2>3 DEF Handshakes, HandshakesOf
  <2>5. InOrder(i, j, k, l, <<"M1", "M2", "M3", "M4">>)
    BY <1>2, <2>1, <2>2, <2>3, <2>4 DEF InOrder, Is
  <2>6. {i, j, k, l} \subseteq Of(c)
    BY <1>2, <2>1, <2>2, <2>3, <2>4 DEF Of, Is
  <2>7. heard[k].n > heard[i].n /\ heard[j].n = heard[i].n /\ heard[l].n = heard[k].n
    BY <1>2, <2>1, <2>2, <2>3, <2>4 DEF Handshakes, HandshakesOf, Is
  <2> QED
    BY <2>5, <2>6, <2>7 DEF HandshakeIsComplete
<1> QED
  BY <1>1, <1>2 DEF Exact

-----------------------------------------------------------------------------
(* DHCP.                                                                    *)

Joining == {"selecting", "requesting"}

\* What a station sent, in which order, and what the server granted for it.
LeasesOf(c) ==
  /\ \A i \in DOMAIN air : Is(air[i], "DISCOVER", c) => client[c] \in Joining
  /\ \A j \in DOMAIN air : Is(air[j], "OFFER", c) =>
       \E i \in DOMAIN air : i < j /\ Is(air[i], "DISCOVER", c)
  /\ \A k \in DOMAIN air : Is(air[k], "REQUEST", c) /\ air[k].n = "select" =>
       \E j \in DOMAIN air : j < k /\ Is(air[j], "OFFER", c)
  /\ \A x \in truth[c] : \E k, l \in DOMAIN air :
       k < l /\ Is(air[k], "REQUEST", c) /\ air[k].n = x /\ Is(air[l], "ACK", c)
  /\ \A k, l \in DOMAIN heard :
       k < l /\ Is(heard[k], "REQUEST", c) /\ Is(heard[l], "ACK", c) => heard[k].n \in truth[c]
  /\ \A i, k \in DOMAIN heard :
       i < k /\ Is(heard[i], "DISCOVER", c) /\ Is(heard[k], "REQUEST", c) => heard[k].n = "select"

Leases == \A c \in Stations : LeasesOf(c)

LEMMA LeasesGrow ==
  ASSUME Captured, Leases, NEW c \in Stations, NEW f, Grows(air, air', f), f.from = c,
         heard' = heard \/ Grows(heard, heard', f), DOMAIN truth' = Stations,
         \A d \in Stations \ {c} : client'[d] = client[d] /\ truth'[d] = truth[d],
         f.kind = "DISCOVER" \/ client[c] \in Joining => client'[c] \in Joining,
         f.kind = "OFFER" => \E i \in DOMAIN air : Is(air[i], "DISCOVER", c),
         f.kind = "REQUEST" /\ f.n = "select" => \E j \in DOMAIN air : Is(air[j], "OFFER", c),
         f.kind = "REQUEST" /\ client[c] \in Joining => f.n = "select",
         f.kind = "ACK" => truth'[c] = truth[c] \cup {m.n : m \in Got(c, "REQUEST")},
         f.kind # "ACK" => truth'[c] = truth[c]
  PROVE  Leases'
<1> DEFINE z == Len(air) + 1
           y == Len(heard) + 1
<1>1. /\ DOMAIN air = 1..(z - 1) /\ z \in Nat \ {0} /\ DOMAIN air' = 1..z /\ air'[z] = f
      /\ \A i \in DOMAIN air : i \in DOMAIN air' /\ air'[i] = air[i] /\ i < z
      /\ z \in DOMAIN air' /\ \A i \in DOMAIN air' : i \in DOMAIN air \/ i = z
  BY DEF Grows
<1>2. \A k, l \in DOMAIN heard' : k < l =>
        /\ k \in DOMAIN heard /\ heard'[k] = heard[k]
        /\ (l \in DOMAIN heard /\ heard'[l] = heard[l]) \/ heard'[l] = f
  BY DEF Grows
<1> HIDE DEF z, y
<1>3. \A j \in DOMAIN heard : \E i \in DOMAIN air : air[i] = heard[j]
  BY DEF Captured
<1>4. \A d \in Stations : truth[d] \subseteq truth'[d]
  OBVIOUS
<1>5. \A m : m \in Got(c, "REQUEST") <=> \E i \in DOMAIN air : air[i] = m /\ Is(m, "REQUEST", c)
  BY DEF Got, ToSet, Is
<1> SUFFICES ASSUME NEW d \in Stations PROVE LeasesOf(d)'
  BY DEF Leases
<1>6. LeasesOf(d)
  BY DEF Leases
<1>7. \A i \in DOMAIN air' : Is(air'[i], "DISCOVER", d) => client'[d] \in Joining
  BY <1>1, <1>6 DEF LeasesOf, Is
<1>8. \A j \in DOMAIN air' : Is(air'[j], "OFFER", d) =>
        \E i \in DOMAIN air' : i < j /\ Is(air'[i], "DISCOVER", d)
  <2> TAKE j \in DOMAIN air'
  <2>1. CASE j \in DOMAIN air
    BY <1>1, <1>6, <2>1 DEF LeasesOf
  <2>2. CASE j = z
    BY <1>1, <2>2 DEF Is
  <2> QED
    BY <1>1, <2>1, <2>2
<1>9. \A k \in DOMAIN air' : Is(air'[k], "REQUEST", d) /\ air'[k].n = "select" =>
        \E j \in DOMAIN air' : j < k /\ Is(air'[j], "OFFER", d)
  <2> TAKE k \in DOMAIN air'
  <2>1. CASE k \in DOMAIN air
    BY <1>1, <1>6, <2>1 DEF LeasesOf
  <2>2. CASE k = z
    BY <1>1, <2>2 DEF Is
  <2> QED
    BY <1>1, <2>1, <2>2
<1>10. \A x \in truth'[d] : \E k, l \in DOMAIN air' :
         k < l /\ Is(air'[k], "REQUEST", d) /\ air'[k].n = x /\ Is(air'[l], "ACK", d)
  <2> TAKE x \in truth'[d]
  <2>1. CASE x \in truth[d]
    <3>1. PICK k, l \in DOMAIN air :
            k < l /\ Is(air[k], "REQUEST", d) /\ air[k].n = x /\ Is(air[l], "ACK", d)
      BY <1>6, <2>1 DEF LeasesOf
    <3> QED
      BY <1>1, <3>1
  <2>2. CASE x \notin truth[d]
    <3>1. d = c /\ f.kind = "ACK"
      BY <2>2
    <3>2. PICK m \in Got(c, "REQUEST") : x = m.n
      BY <2>2, <3>1
    <3>3. PICK k \in DOMAIN air : air[k] = m /\ Is(m, "REQUEST", c)
      BY <1>5, <3>2
    <3>4. k \in DOMAIN air' /\ k < z /\ air'[k] = m /\ Is(air'[z], "ACK", c)
      BY <1>1, <3>1, <3>3 DEF Is
    <3> QED
      BY <1>1, <3>1, <3>2, <3>3, <3>4
  <2> QED
    BY <2>1, <2>2
<1>11. \A k, l \in DOMAIN heard' :
         k < l /\ Is(heard'[k], "REQUEST", d) /\ Is(heard'[l], "ACK", d) =>
           heard'[k].n \in truth'[d]
  <2> SUFFICES ASSUME NEW k \in DOMAIN heard', NEW l \in DOMAIN heard', k < l,
                      Is(heard'[k], "REQUEST", d), Is(heard'[l], "ACK", d)
               PROVE  heard'[k].n \in truth'[d]
    OBVIOUS
  <2>1. k \in DOMAIN heard /\ heard'[k] = heard[k]
    BY <1>2
  <2>2. CASE l \in DOMAIN heard /\ heard'[l] = heard[l]
    BY <1>4, <1>6, <2>1, <2>2 DEF LeasesOf
  <2>3. CASE heard'[l] = f
    <3>1. PICK i \in DOMAIN air : air[i] = heard[k]
      BY <1>3, <2>1
    <3>2. d = c /\ f.kind = "ACK" /\ heard[k] \in Got(c, "REQUEST")
      BY <1>5, <2>1, <2>3, <3>1 DEF Is
    <3> QED
      BY <2>1, <3>2
  <2> QED
    BY <1>2, <2>2, <2>3
<1>12. \A i, k \in DOMAIN heard' :
         i < k /\ Is(heard'[i], "DISCOVER", d) /\ Is(heard'[k], "REQUEST", d)
           => heard'[k].n = "select"
  <2> SUFFICES ASSUME NEW i \in DOMAIN heard', NEW k \in DOMAIN heard', i < k,
                      Is(heard'[i], "DISCOVER", d), Is(heard'[k], "REQUEST", d)
               PROVE  heard'[k].n = "select"
    OBVIOUS
  <2>1. i \in DOMAIN heard /\ heard'[i] = heard[i]
    BY <1>2
  <2>2. CASE k \in DOMAIN heard /\ heard'[k] = heard[k]
    BY <1>6, <2>1, <2>2 DEF LeasesOf
  <2>3. CASE heard'[k] = f
    <3>1. PICK j \in DOMAIN air : air[j] = heard[i]
      BY <1>3, <2>1
    <3>2. client[d] \in Joining
      BY <1>6, <2>1, <3>1 DEF LeasesOf
    <3> QED
      BY <2>3, <3>2 DEF Is
  <2> QED
    BY <1>2, <2>2, <2>3
<1> QED
  BY <1>7, <1>8, <1>9, <1>10, <1>11, <1>12 DEF LeasesOf

\* The analyzer's claims and what the server granted.
LEMMA LeasesAreExact ==
  ASSUME Captured, Leases, NEW c \in Stations
  PROVE  /\ Exact(OrderedDora(Transaction(c)), "select" \in truth[c])
         /\ Exact(\E phase \in {"RENEW", "REBIND"} : Extended(Transaction(c), phase),
                  truth[c] \cap {"RENEW", "REBIND"} # {})
         /\ Extended(Transaction(c), "REBIND") => "REBIND" \in truth[c]
<1>1. LeasesOf(c)
  BY DEF Leases
<1>2. OrderedDora(Transaction(c)) => "select" \in truth[c]
  <2> SUFFICES ASSUME OrderedDora(Transaction(c)) PROVE "select" \in truth[c]
    OBVIOUS
  <2>1. PICK i, j, k, l \in Of(c) : InOrder(i, j, k, l, <<"DISCOVER", "OFFER", "REQUEST", "ACK">>)
    BY DEF OrderedDora, Transaction
  <2>a. Of(c) \subseteq 1..Len(heard)
    BY DEF Of, Captured
  <2>b. i < k /\ k < l
    BY <2>1, <2>a DEF InOrder
  <2>2. /\ i < k /\ k < l /\ {i, k, l} \subseteq DOMAIN heard
        /\ Is(heard[i], "DISCOVER", c) /\ Is(heard[k], "REQUEST", c) /\ Is(heard[l], "ACK", c)
    BY <2>1, <2>b DEF InOrder, Of, Is
  <2> QED
    BY <1>1, <2>2 DEF LeasesOf
<1>3. ASSUME "select" \in truth[c], heard = air PROVE OrderedDora(Transaction(c))
  <2>1. PICK k, l \in DOMAIN air :
          k < l /\ Is(air[k], "REQUEST", c) /\ air[k].n = "select" /\ Is(air[l], "ACK", c)
    BY <1>1, <1>3 DEF LeasesOf
  <2>2. PICK j \in DOMAIN air : j < k /\ Is(air[j], "OFFER", c)
    BY <1>1, <2>1 DEF LeasesOf
  <2>3. PICK i \in DOMAIN air : i < j /\ Is(air[i], "DISCOVER", c)
    BY <1>1, <2>2 DEF LeasesOf
  <2>4. InOrder(i, j, k, l, <<"DISCOVER", "OFFER", "REQUEST", "ACK">>)
    BY <1>3, <2>1, <2>2, <2>3 DEF InOrder, Is
  <2>5. {i, j, k, l} \subseteq Of(c)
    BY <1>3, <2>1, <2>2, <2>3 DEF Of, Is
  <2> QED
    BY <2>4, <2>5 DEF OrderedDora, Transaction
<1>4. ASSUME NEW phase \in {"RENEW", "REBIND"}, Extended(Transaction(c), phase)
      PROVE  phase \in truth[c]
  <2>1. PICK i, j \in Of(c) :
          i < j /\ heard[i].kind = "REQUEST" /\ heard[i].n = phase /\ heard[j].kind = "ACK"
    BY <1>4 DEF Extended, Transaction
  <2> QED
    BY <1>1, <2>1 DEF LeasesOf, Of, Is
<1>5. ASSUME NEW phase \in truth[c], heard = air PROVE Extended(Transaction(c), phase)
  <2>1. PICK k, l \in DOMAIN air :
          k < l /\ Is(air[k], "REQUEST", c) /\ air[k].n = phase /\ Is(air[l], "ACK", c)
    BY <1>1 DEF LeasesOf
  <2> QED
    BY <1>5, <2>1 DEF Extended, Transaction, Of, Is
<1> QED
  BY <1>2, <1>3, <1>4, <1>5 DEF Exact

\* A frame of c, after which c is in a certain state.
LEMMA SendStep ==
  ASSUME Captured, NEW c \in Stations, NEW kind \in Kinds, NEW n \in Notes, NEW state \in States,
         Send(c, kind, n, state)
  PROVE  LET f == Frame(kind, c, n)
         IN /\ Captured' /\ Grows(air, air', f) /\ (heard' = heard \/ Grows(heard, heard', f))
            /\ f.kind = kind /\ f.from = c /\ f.n = n /\ f \in AnyFrame
            /\ client'[c] = state /\ \A d \in Stations \ {c} : client'[d] = client[d]
            /\ truth' = truth /\ counter' = counter
<1> DEFINE f == Frame(kind, c, n)
<1>1. Transmit(f) /\ client' = [client EXCEPT ![c] = state] /\ UNCHANGED <<counter, truth>>
  BY DEF Send, Become
<1>2. f \in AnyFrame /\ f.kind = kind /\ f.from = c /\ f.n = n
  BY FrameType
<1> HIDE DEF f
<1>3. client' \in [Stations -> States] /\ counter' \in [Stations -> Nat] /\ DOMAIN truth' = Stations
  BY <1>1 DEF Captured
<1>4. client'[c] = state /\ \A d \in Stations \ {c} : client'[d] = client[d]
  BY <1>1 DEF Captured
<1>5. Captured' /\ Grows(air, air', f) /\ (heard' = heard \/ Grows(heard, heard', f))
  BY <1>1, <1>2, <1>3, SentKeepsCaptured, TransmitGrows
<1> QED
  BY <1>1, <1>2, <1>4, <1>5 DEF f

LEMMA LeasesStep ==
  ASSUME Captured, Leases, NEW c \in Stations,
         \/ Discover(c) \/ Offer(c) \/ Select(c) \/ Reboot(c)
         \/ Renew(c) \/ Rebind(c) \/ Ack(c) \/ Nak(c)
  PROVE  Captured' /\ Leases'
<1>1. /\ DOMAIN truth = Stations /\ client[c] \in States
      /\ {"DISCOVER", "OFFER", "REQUEST", "NAK", "ACK"} \subseteq Kinds
      /\ {"selecting", "requesting", "rebooting", "renewing", "rebinding"} \subseteq States
  BY DEF Captured, Kinds, States
<1>2. {"", "select", "reboot", "RENEW", "REBIND"} \subseteq Notes
  BY Zenon DEF Notes, Words
<1>3. \A kind : Got(c, kind) # {} => \E i \in DOMAIN air : Is(air[i], kind, c)
  BY DEF Got, ToSet, Is
<1>4. ASSUME NEW kind \in Kinds, NEW n \in Notes, NEW state \in States, Send(c, kind, n, state),
             kind = "DISCOVER" \/ client[c] \in Joining => state \in Joining,
             kind = "OFFER" => Got(c, "DISCOVER") # {},
             kind = "REQUEST" /\ n = "select" => Got(c, "OFFER") # {},
             kind = "REQUEST" /\ client[c] \in Joining => n = "select",
             kind # "ACK"
      PROVE  Captured' /\ Leases'
  <2> DEFINE f == Frame(kind, c, n)
  <2>1. /\ Captured' /\ Grows(air, air', f) /\ (heard' = heard \/ Grows(heard, heard', f))
        /\ f.kind = kind /\ f.from = c /\ f.n = n
        /\ client'[c] = state /\ \A d \in Stations \ {c} : client'[d] = client[d]
        /\ truth' = truth
    BY <1>4, SendStep
  <2> HIDE DEF f
  <2>2. DOMAIN truth' = Stations
    BY <1>1, <2>1
  <2>3. Leases'
    BY <1>3, <1>4, <2>1, <2>2, LeasesGrow
  <2> QED
    BY <2>1, <2>3
<1>5. CASE Discover(c)
  BY <1>1, <1>2, <1>4, <1>5 DEF Discover, Joining
<1>6. CASE Offer(c)
  BY <1>1, <1>2, <1>4, <1>6 DEF Offer, Joining
<1>7. CASE Select(c)
  BY <1>1, <1>2, <1>4, <1>7 DEF Select, Joining
<1>8. CASE Reboot(c)
  BY <1>1, <1>2, <1>4, <1>8 DEF Reboot, Joining
<1>9. CASE Renew(c)
  BY <1>1, <1>2, <1>4, <1>9 DEF Renew, Joining
<1>10. CASE Rebind(c)
  BY <1>1, <1>2, <1>4, <1>10 DEF Rebind, Joining
<1>11. CASE Nak(c)
  BY <1>1, <1>2, <1>4, <1>11 DEF Nak, Joining
<1>12. CASE Ack(c)
  <2> DEFINE f == Frame("ACK", c, "")
             granted == {m.n : m \in Got(c, "REQUEST")}
  <2>1. /\ Transmit(f) /\ truth' = [truth EXCEPT ![c] = @ \cup granted]
        /\ client' = client /\ counter' = counter
    BY <1>12 DEF Ack, Learn
  <2>2. f \in AnyFrame /\ f.kind = "ACK" /\ f.from = c
    <3>1. "ACK" \in Kinds /\ "" \in Notes
      BY <1>1, <1>2
    <3>2. f \in AnyFrame
      BY <3>1, FrameType
    <3>3. f.kind = "ACK" /\ f.from = c
      BY DEF Frame
    <3> QED
      BY <3>2, <3>3
  <2> HIDE DEF f, granted
  <2>3. /\ truth'[c] = truth[c] \cup granted /\ DOMAIN truth' = Stations
        /\ \A d \in Stations \ {c} : client'[d] = client[d] /\ truth'[d] = truth[d]
    BY <1>1, <2>1
  <2>4. client' \in [Stations -> States] /\ counter' \in [Stations -> Nat]
    BY <2>1 DEF Captured
  <2>5. Captured' /\ Grows(air, air', f) /\ (heard' = heard \/ Grows(heard, heard', f))
    BY <2>1, <2>2, <2>3, <2>4, SentKeepsCaptured, TransmitGrows
  <2>6. Leases'
    BY <2>1, <2>2, <2>3, <2>5, LeasesGrow DEF granted
  <2> QED
    BY <2>5, <2>6
<1> QED
  BY <1>5, <1>6, <1>7, <1>8, <1>9, <1>10, <1>11, <1>12

-----------------------------------------------------------------------------
(* DNS.                                                                     *)

\* No response without a query of its own; and what was counted follows what
\* was sent.
AnswersOf(c, n) ==
  LET a == Analyzed(heard, c, n) IN
  /\ a.pending \in Nat /\ a.correlated \in Nat
  /\ a = [pending |-> a.pending, correlated |-> a.correlated]
  /\ Times("response", c, n) \in Nat /\ Times("query", c, n) \in Nat
  /\ a.correlated <= Times("response", c, n)
  /\ Times("response", c, n) <= Times("query", c, n)
  /\ heard = air => /\ a.correlated = Times("response", c, n)
                    /\ a.pending = Times("query", c, n) - Times("response", c, n)

Answers == \A c \in Stations, n \in Flows : AnswersOf(c, n)

LEMMA TimesGrow ==
  ASSUME NEW f, Grows(air, air', f), NEW kind, NEW c, NEW n, Times(kind, c, n) \in Nat
  PROVE  Times(kind, c, n)' = Times(kind, c, n) + (IF f = Frame(kind, c, n) THEN 1 ELSE 0)
<1>1. Times(kind, c, n) = Cardinality(Places(air, Frame(kind, c, n)))
  BY DEF Times, Places
<1>2. Times(kind, c, n)' = Cardinality(Places(air', Frame(kind, c, n)))
  BY DEF Times, Places
<1> QED
  BY <1>1, <1>2, PlacesGrow

LEMMA AnalyzedGrows ==
  ASSUME Captured, NEW f \in AnyFrame, Grows(heard, heard', f), NEW c, NEW n
  PROVE  Analyzed(heard, c, n)' =
           IF f.from = c /\ f.n = n THEN Counted(Analyzed(heard, c, n), f)
           ELSE Analyzed(heard, c, n)
<1>1. heard \in Seq(AnyFrame) /\ heard' = Append(heard, f)
  BY DEF Captured, Grows
<1>2. Analyzed(heard, c, n)' = Analyzed(Append(heard, f), c, n)
  BY <1>1 DEF Analyzed
<1> QED
  BY <1>1, <1>2, AnalyzedAppend

LEMMA AnswersStep ==
  ASSUME Captured, Answers, NEW c \in Stations, Query(c) \/ Respond(c)
  PROVE  Captured' /\ Answers'
<1>1. client[c] \in States /\ {"query", "response"} \subseteq Kinds
  BY DEF Captured, Kinds
<1>2. Flows \subseteq Notes
  <2>1. Flows \subseteq Nat
    BY DEF Flows
  <2> QED
    BY <2>1, Zenon DEF Notes
<1>3. PICK kind \in {"query", "response"}, n \in Flows :
        /\ Send(c, kind, n, client[c])
        /\ kind = "response" => Times("response", c, n) < Times("query", c, n)
  BY DEF Query, Respond
<1> DEFINE f == Frame(kind, c, n)
<1>4. kind \in Kinds /\ n \in Notes
  BY <1>1, <1>2, <1>3
<1>5. /\ Captured' /\ Grows(air, air', f) /\ (heard' = heard \/ Grows(heard, heard', f))
      /\ f.kind = kind /\ f.from = c /\ f.n = n /\ f \in AnyFrame
  BY <1>1, <1>3, <1>4, SendStep
<1>6. \A k, d, x : f = Frame(k, d, x) <=> k = kind /\ d = c /\ x = n
  BY DEF Frame
<1> HIDE DEF f
<1>7. heard' = air' => heard = air /\ Grows(heard, heard', f)
  <2>1. Transmit(f)
    BY <1>3 DEF Send, f
  <2> QED
    BY <1>5, <2>1, TransmitGrows
<1> SUFFICES ASSUME NEW d \in Stations, NEW x \in Flows PROVE AnswersOf(d, x)'
  <2>1. Flows' = Flows
    BY DEF Flows
  <2> QED
    BY <1>5, <2>1 DEF Answers
<1> DEFINE a == Analyzed(heard, d, x)
           b == Analyzed(heard, d, x)'
           q == Times("query", d, x)
           r == Times("response", d, x)
<1>8. /\ a.pending \in Nat /\ a.correlated \in Nat
      /\ a = [pending |-> a.pending, correlated |-> a.correlated]
      /\ q \in Nat /\ r \in Nat /\ a.correlated <= r /\ r <= q
      /\ heard = air => a.correlated = r /\ a.pending = q - r
  BY DEF Answers, AnswersOf
<1>9. /\ q' = q + (IF f = Frame("query", d, x) THEN 1 ELSE 0)
      /\ r' = r + (IF f = Frame("response", d, x) THEN 1 ELSE 0)
  BY <1>5, <1>8, TimesGrow
<1>10. \/ heard' = heard /\ b = a
       \/ Grows(heard, heard', f) /\ b = IF d = c /\ x = n THEN Counted(a, f) ELSE a
  <2>1. heard' = heard => b = a
    BY DEF Analyzed
  <2>2. Grows(heard, heard', f) => b = IF f.from = d /\ f.n = x THEN Counted(a, f) ELSE a
    BY <1>5, AnalyzedGrows
  <2> QED
    BY <1>5, <2>1, <2>2
<1>11. d = c /\ x = n /\ kind = "response" => r < q
  BY <1>3
<1> HIDE DEF a, b, q, r
<1> SUFFICES /\ b.pending \in Nat /\ b.correlated \in Nat
             /\ b = [pending |-> b.pending, correlated |-> b.correlated]
             /\ r' \in Nat /\ q' \in Nat /\ b.correlated <= r' /\ r' <= q'
             /\ heard' = air' => b.correlated = r' /\ b.pending = q' - r'
  BY DEF AnswersOf, b, q, r
<1>12. CASE d # c \/ x # n
  <2>1. q' = q /\ r' = r /\ b = a
    BY <1>6, <1>8, <1>9, <1>10, <1>12
  <2> QED
    BY <1>7, <1>8, <2>1
<1>13. CASE d = c /\ x = n /\ kind = "query"
  <2>1. q' = q + 1 /\ r' = r
    BY <1>6, <1>8, <1>9, <1>13
  <2>2. Counted(a, f) = [pending |-> a.pending + 1, correlated |-> a.correlated]
    BY <1>5, <1>8, <1>13 DEF Counted
  <2>3. CASE b = a /\ heard' = heard
    BY <1>5, <1>7, <1>8, <2>1, <2>3 DEF Grows
  <2>4. CASE b = [pending |-> a.pending + 1, correlated |-> a.correlated]
    <3>1. b.pending = a.pending + 1 /\ b.correlated = a.correlated
      BY <2>4
    <3> QED
      BY <1>7, <1>8, <2>1, <2>4, <3>1
  <2> QED
    BY <1>10, <1>13, <2>2, <2>3, <2>4
<1>14. CASE d = c /\ x = n /\ kind = "response"
  <2>1. q' = q /\ r' = r + 1 /\ r < q
    BY <1>6, <1>8, <1>9, <1>11, <1>14
  <2>2. Counted(a, f) = IF a.pending > 0 THEN Matched(a) ELSE a
    BY <1>5, <1>14 DEF Counted
  <2>3. Matched(a) = [pending |-> a.pending - 1, correlated |-> a.correlated + 1]
    BY DEF Matched
  <2>4. CASE b = a /\ heard' = heard
    BY <1>5, <1>7, <1>8, <2>1, <2>4 DEF Grows
  <2>5. CASE b = a /\ a.pending = 0
    BY <1>7, <1>8, <2>1, <2>5
  <2>6. CASE b = Matched(a) /\ a.pending > 0
    <3>1. b.pending = a.pending - 1 /\ b.correlated = a.correlated + 1
      BY <2>3, <2>6
    <3> QED
      BY <1>7, <1>8, <2>1, <2>3, <2>6, <3>1
  <2> QED
    BY <1>8, <1>10, <1>14, <2>2, <2>4, <2>5, <2>6
<1> QED
  BY <1>3, <1>12, <1>13, <1>14

-----------------------------------------------------------------------------
(* Beacons.                                                                 *)

\* A network announces what it was brought up with, and nothing before that.
BeaconsOf(c) ==
  /\ client[c] \in {"idle", "CCMP", "none"}
  /\ client[c] = "CCMP" <=> "CCMP" \in truth[c]
  /\ \A i \in DOMAIN air : air[i].from = c =>
       /\ air[i].kind = "beacon" /\ client[c] # "idle"
       /\ air[i].n \in {client[c], "truncated"}

Beacons == \A c \in Stations : BeaconsOf(c)

LEMMA OpenKeepsBeacons ==
  ASSUME Captured, Beacons, NEW c \in Stations, Open(c)
  PROVE  Captured' /\ Beacons'
<1>1. PICK rsn \in {"CCMP", "none"} :
        /\ client' = [client EXCEPT ![c] = rsn] /\ truth' = [truth EXCEPT ![c] = @ \cup {rsn}]
        /\ client[c] = "idle" /\ UNCHANGED <<air, heard, counter>>
  BY DEF Open, Become, Learn
<1>2. Captured'
  BY <1>1 DEF Captured, States
<1>3. ASSUME NEW d \in Stations PROVE BeaconsOf(d)'
  <2>1. BeaconsOf(d)
    BY DEF Beacons
  <2>2. CASE d = c
    <3>1. client'[d] = rsn /\ truth'[d] = truth[d] \cup {rsn}
      BY <1>1, <2>2 DEF Captured
    <3>2. \A i \in DOMAIN air : air[i].from # d
      BY <1>1, <2>1, <2>2 DEF BeaconsOf
    <3> QED
      BY <1>1, <2>1, <2>2, <3>1, <3>2 DEF BeaconsOf
  <2>3. CASE d # c
    <3>1. client'[d] = client[d] /\ truth'[d] = truth[d] /\ air' = air
      BY <1>1, <2>3 DEF Captured
    <3> QED
      BY <2>1, <3>1 DEF BeaconsOf
  <2> QED
    BY <2>2, <2>3
<1> QED
  BY <1>2, <1>3 DEF Beacons

LEMMA BeaconKeepsBeacons ==
  ASSUME Captured, Beacons, NEW c \in Stations, Beacon(c)
  PROVE  Captured' /\ Beacons'
<1>1. PICK rsn \in {client[c], "truncated"} : Send(c, "beacon", rsn, client[c])
  BY DEF Beacon
<1>2. client[c] \in States /\ client[c] # "idle" /\ "beacon" \in Kinds /\ BeaconsOf(c)
  BY DEF Captured, Kinds, Beacon, Beacons
<1>3. rsn \in Notes
  <2>1. rsn \in {"CCMP", "none", "truncated"}
    BY <1>2 DEF BeaconsOf
  <2>2. {"CCMP", "none", "truncated"} \subseteq Notes
    BY Zenon DEF Notes, Words
  <2> QED
    BY <2>1, <2>2
<1> DEFINE f == Frame("beacon", c, rsn)
<1>4. /\ Captured' /\ Grows(air, air', f) /\ f.kind = "beacon" /\ f.from = c /\ f.n = rsn
      /\ client'[c] = client[c] /\ \A d \in Stations \ {c} : client'[d] = client[d]
      /\ truth' = truth
  BY <1>1, <1>2, <1>3, SendStep
<1> HIDE DEF f
<1>5. \A i \in DOMAIN air' : (i \in DOMAIN air /\ air'[i] = air[i]) \/ air'[i] = f
  BY <1>4 DEF Grows
<1>6. ASSUME NEW d \in Stations PROVE BeaconsOf(d)'
  <2>1. BeaconsOf(d) /\ client'[d] = client[d]
    BY <1>4 DEF Beacons
  <2>2. ASSUME NEW i \in DOMAIN air', air'[i].from = d
        PROVE  /\ air'[i].kind = "beacon" /\ client[d] # "idle"
               /\ air'[i].n \in {client[d], "truncated"}
    <3>1. CASE i \in DOMAIN air /\ air'[i] = air[i]
      BY <2>1, <2>2, <3>1 DEF BeaconsOf
    <3>2. CASE air'[i] = f
      BY <1>2, <1>4, <2>2, <3>2
    <3> QED
      BY <1>5, <3>1, <3>2
  <2> QED
    BY <1>4, <2>1, <2>2 DEF BeaconsOf
<1> QED
  BY <1>4, <1>6 DEF Beacons

\* What the test accepts and how the network was brought up.
LEMMA BeaconsAreExact ==
  ASSUME Captured, Beacons
  PROVE  /\ BeaconAccepted => "CCMP" \in truth[Target]
         /\ "CCMP" \in truth[Target] /\ heard = air /\ Whole(Target) /\ Of(Target) # {}
              => BeaconAccepted
<1> DEFINE m == IF Of(Target) # {} THEN Min(Of(Target)) ELSE 1
<1>1. Target \in Stations /\ BeaconsOf(Target)
  BY TargetAssumption DEF Beacons
<1>2. Of(Target) # {} => Min(Of(Target)) \in Of(Target)
  <2> SUFFICES ASSUME Of(Target) # {} PROVE Min(Of(Target)) \in Of(Target)
    OBVIOUS
  <2>1. Of(Target) \subseteq Nat
    BY DEF Of, Captured
  <2>2. \E k \in Of(Target) : \A j \in Of(Target) : k <= j
    BY <2>1, LeastNatural
  <2> QED
    BY <2>2 DEF Min
<1>3. heard # <<>> => m \in DOMAIN heard
  BY <1>2 DEF Of, Captured
<1>4. Chosen = heard[m]
  BY DEF Chosen
<1> HIDE DEF m
<1>5. ASSUME BeaconAccepted PROVE "CCMP" \in truth[Target]
  <2>1. m \in DOMAIN heard /\ heard[m] = Frame("beacon", Target, "CCMP")
    BY <1>3, <1>4, <1>5 DEF BeaconAccepted
  <2>2. PICK i \in DOMAIN air : air[i] = heard[m]
    BY <2>1 DEF Captured
  <2>3. air[i].from = Target /\ air[i].n = "CCMP"
    BY <2>1, <2>2 DEF Frame
  <2> QED
    BY <1>1, <2>2, <2>3 DEF BeaconsOf
<1>6. ASSUME "CCMP" \in truth[Target], heard = air, Whole(Target), Of(Target) # {}
      PROVE  BeaconAccepted
  <2>1. heard # <<>> /\ m \in Of(Target)
    BY <1>2, <1>6 DEF Of, m
  <2>2. m \in DOMAIN air /\ air[m].from = Target
    BY <1>6, <2>1 DEF Of
  <2>3. air[m].n # "truncated"
    BY <1>6, <2>2 DEF Whole, ToSet
  <2>4. air[m].kind = "beacon" /\ air[m].n = "CCMP"
    BY <1>1, <1>6, <2>2, <2>3 DEF BeaconsOf
  <2>5. air[m] \in AnyFrame
    BY <2>2 DEF Captured
  <2>6. air[m] = Frame("beacon", Target, "CCMP")
    BY <2>2, <2>4, <2>5 DEF AnyFrame, Frame
  <2> QED
    BY <1>4, <1>6, <2>1, <2>6 DEF BeaconAccepted
<1> QED
  BY <1>5, <1>6

-----------------------------------------------------------------------------
(* Every capture.                                                           *)

EvidenceInv ==
  /\ Captured
  /\ protocol = "eapol" => Handshakes
  /\ protocol = "dhcp" => Leases
  /\ protocol = "dns" => Answers
  /\ protocol = "beacon" => Beacons

\* Nothing was sent yet.
Silent ==
  /\ air = <<>> /\ heard = <<>>
  /\ client = [c \in Stations |-> "idle"]
  /\ counter = [c \in Stations |-> 0]
  /\ truth = [c \in Stations |-> {}]

LEMMA SilenceIsEvidence == Silent => EvidenceInv
<1> SUFFICES ASSUME Silent PROVE EvidenceInv
  OBVIOUS
<1>1. /\ air = <<>> /\ heard = <<>> /\ DOMAIN air = {} /\ DOMAIN heard = {} /\ heard = air
      /\ \A c \in Stations : client[c] = "idle" /\ counter[c] = 0 /\ truth[c] = {}
  BY DEF Silent
<1>2. Captured
  <2>1. <<>> \in Seq(AnyFrame) /\ Len(heard) <= Len(air)
    BY <1>1
  <2> QED
    BY <1>1, <2>1 DEF Captured, Silent, States
<1>3. Handshakes
  BY <1>1 DEF Handshakes, HandshakesOf
<1>4. Leases
  BY <1>1 DEF Leases, LeasesOf
<1>5. Answers
  <2> SUFFICES ASSUME NEW c \in Stations, NEW n \in Flows PROVE AnswersOf(c, n)
    BY DEF Answers
  <2>1. Analyzed(heard, c, n) = [pending |-> 0, correlated |-> 0]
    BY <1>1, AnalyzedEmpty
  <2>2. Times("query", c, n) = 0 /\ Times("response", c, n) = 0
    BY <1>1, FS_EmptySet DEF Times
  <2> QED
    BY <2>1, <2>2 DEF AnswersOf
<1>6. Beacons
  BY <1>1 DEF Beacons, BeaconsOf
<1> QED
  BY <1>2, <1>3, <1>4, <1>5, <1>6 DEF EvidenceInv

LEMMA ListenStartsSilent == ASSUME NEW p, Listen(p) PROVE EvidenceInv'
<1>1. Silent'
  BY DEF Listen, Silent
<1>2. Silent' => EvidenceInv'
  BY SilenceIsEvidence, PTL
<1> QED
  BY <1>1, <1>2

LEMMA CapturingKeepsEvidence ==
  ASSUME EvidenceInv, NEW c \in Stations, Capturing(c)
  PROVE  EvidenceInv'
<1>1. protocol' = protocol
  BY DEF Capturing
<1>2. CASE protocol = "eapol"
  <2>1. Captured' /\ Handshakes'
    BY <1>2, HandshakeStep DEF Capturing, EvidenceInv
  <2> QED
    BY <1>1, <1>2, <2>1 DEF EvidenceInv
<1>3. CASE protocol = "dhcp"
  <2>1. Captured' /\ Leases'
    BY <1>3, LeasesStep DEF Capturing, EvidenceInv
  <2> QED
    BY <1>1, <1>3, <2>1 DEF EvidenceInv
<1>4. CASE protocol = "dns"
  <2>1. Captured' /\ Answers'
    BY <1>4, AnswersStep DEF Capturing, EvidenceInv
  <2> QED
    BY <1>1, <1>4, <2>1 DEF EvidenceInv
<1>5. CASE protocol = "beacon"
  <2>1. Captured' /\ Beacons'
    BY <1>5, OpenKeepsBeacons, BeaconKeepsBeacons DEF Capturing, EvidenceInv
  <2> QED
    BY <1>1, <1>5, <2>1 DEF EvidenceInv
<1> QED
  BY <1>2, <1>3, <1>4, <1>5 DEF Capturing

LEMMA UnheardKeepsEvidence == ASSUME EvidenceInv, UNCHANGED captureVars PROVE EvidenceInv'
<1>1. Captured' = Captured /\ Handshakes' = Handshakes /\ protocol' = protocol
  BY DEF captureVars, Captured, Handshakes, HandshakesOf
<1>2. Leases' = Leases
  BY DEF captureVars, Leases, LeasesOf
<1>3. Beacons' = Beacons
  BY DEF captureVars, Beacons, BeaconsOf
<1>4. Answers' = Answers
  BY DEF captureVars, Answers, AnswersOf, Analyzed, Times, Flows
<1> QED
  BY <1>1, <1>2, <1>3, <1>4 DEF EvidenceInv

LEMMA EvidenceIsExact == EvidenceInv => ClaimsAreExact
<1> SUFFICES ASSUME EvidenceInv PROVE ClaimsAreExact
  OBVIOUS
<1>1. Captured
  BY DEF EvidenceInv
<1>2. protocol = "eapol" =>
        \A c \in Stations : Exact(HandshakeIsComplete(Of(c)), "installed" \in truth[c])
  BY <1>1, HandshakesAreExact DEF EvidenceInv
<1>3. protocol = "dhcp" =>
       \A c \in Stations :
         /\ Exact(OrderedDora(Transaction(c)), "select" \in truth[c])
         /\ Exact(\E phase \in {"RENEW", "REBIND"} : Extended(Transaction(c), phase),
                  truth[c] \cap {"RENEW", "REBIND"} # {})
         /\ Extended(Transaction(c), "REBIND") => "REBIND" \in truth[c]
  BY <1>1, LeasesAreExact DEF EvidenceInv
<1>4. protocol = "dns" =>
       \A c \in Stations, n \in Flows :
         /\ Correlated(c, n) <= Times("response", c, n)
         /\ heard = air => Correlated(c, n) = Times("response", c, n)
  BY DEF EvidenceInv, Answers, AnswersOf, Correlated
<1>5. protocol = "beacon" =>
       /\ BeaconAccepted => "CCMP" \in truth[Target]
       /\ "CCMP" \in truth[Target] /\ heard = air /\ Whole(Target) /\ Of(Target) # {}
            => BeaconAccepted
  BY <1>1, BeaconsAreExact DEF EvidenceInv
<1> QED
  BY <1>2, <1>3, <1>4, <1>5 DEF ClaimsAreExact

\* What a test claims of its capture happened.
LEMMA ClaimedHappened == EvidenceInv => (Claimed => Happened)
<1> SUFFICES ASSUME EvidenceInv, Claimed PROVE Happened
  OBVIOUS
<1>1. ClaimsAreExact
  BY EvidenceIsExact
<1>2. protocol \in {"eapol", "dhcp", "dns", "beacon"}
  BY DEF Claimed
<1>3. CASE protocol = "eapol"
  BY <1>1, <1>3, TargetAssumption DEF ClaimsAreExact, Claimed, Happened, Exact
<1>4. CASE protocol = "dhcp"
  BY <1>1, <1>4 DEF ClaimsAreExact, Claimed, Happened, Exact
<1>5. CASE protocol = "dns"
  <2>1. PICK c \in Stations, n \in Flows : Correlated(c, n) > 0
    BY <1>5 DEF Claimed
  <2>2. Correlated(c, n) \in Nat /\ Times("response", c, n) \in Nat
    BY <1>5 DEF EvidenceInv, Answers, AnswersOf, Correlated
  <2>3. Times("response", c, n) > 0
    BY <1>1, <1>5, <2>1, <2>2 DEF ClaimsAreExact
  <2> QED
    BY <1>5, <2>3 DEF Happened
<1>6. CASE protocol = "beacon"
  BY <1>1, <1>6 DEF ClaimsAreExact, Claimed, Happened
<1> QED
  BY <1>2, <1>3, <1>4, <1>5, <1>6

\* Only the start and the end of a capture, and the frames, change it.
LEMMA NextKeepsEvidence == EvidenceInv /\ [Next]_vars => EvidenceInv'
<1> SUFFICES ASSUME EvidenceInv, [Next]_vars PROVE EvidenceInv'
  OBVIOUS
<1>1. CASE UNCHANGED captureVars
  BY <1>1, UnheardKeepsEvidence
<1>2. CASE UNCHANGED vars
  BY <1>1, <1>2 DEF vars
<1>3. ASSUME NEW p \in Procs, Session(p) PROVE EvidenceInv'
  <2>1. CASE StartTest(p)
    BY <1>1, <2>1, ListenStartsSilent DEF StartTest
  <2>2. CASE EndCapture(p)
    BY <2>2, ListenStartsSilent DEF EndCapture
  <2>3. CASE \/ Telemetry(p, "before", "test") \/ Telemetry(p, "after", "result")
             \/ Conclude(p) \/ Measure(p) \/ BeginResult(p) \/ RecordResult(p)
             \/ BeginCompletion(p) \/ CompleteRun(p)
    BY <1>1, <2>3
    DEF Telemetry, Conclude, Measure, BeginResult, RecordResult, BeginCompletion, CompleteRun
  <2> QED
    BY <1>3, <2>1, <2>2, <2>3 DEF Session
<1>4. ASSUME NEW p \in Procs, Frames(p) PROVE EvidenceInv'
  BY <1>4, CapturingKeepsEvidence DEF Frames
<1>5. ASSUME NEW p \in Procs,
             \/ Check(p) \/ BeginPromotion(p) \/ Promote(p) \/ BeginImport(p) \/ Import(p)
             \/ ImportEnds(p) \/ BeginResident(p) \/ ResidentWrites(p) \/ Files(p)
      PROVE  EvidenceInv'
  BY <1>1, <1>5 DEF Check, BeginPromotion, Promote, BeginImport, Import, ImportEnds,
                    BeginResident, ResidentWrites, Files
<1> QED
  BY <1>2, <1>3, <1>4, <1>5 DEF Next

THEOREM EvidenceIsKept == Spec => []EvidenceInv
<1>1. Init => EvidenceInv
  BY SilenceIsEvidence DEF Init, Quiet, Silent
<1> QED
  BY <1>1, NextKeepsEvidence, PTL DEF Spec

\* Whatever frames are lost, late, repeated or missed: an analyzer claims what a
\* station has done, and from a capture without gaps everything it has done.
THEOREM ClaimsStayExact == Spec => []ClaimsAreExact
  BY EvidenceIsKept, EvidenceIsExact, PTL

\* What a capture is recorded to prove has happened.
Proven ==
  /\ DOMAIN proved = DOMAIN Policy
  /\ \A t \in DOMAIN Policy : proved[t].claimed => proved[t].happened

THEOREM ProofsAreTrue == Spec => []Proven
<1>1. Init => Proven
  BY DEF Init, Proven
<1>2. EvidenceInv /\ Proven /\ [Next]_vars => Proven'
  <2> SUFFICES ASSUME EvidenceInv, Proven, [Next]_vars PROVE Proven'
    OBVIOUS
  <2>1. CASE UNCHANGED proved
    BY <2>1 DEF Proven
  <2>2. ASSUME NEW p \in Procs, EndCapture(p) PROVE Proven'
    BY <2>2, ClaimedHappened DEF EndCapture, Proven
  <2>3. (\E p \in Procs : EndCapture(p)) \/ UNCHANGED proved
    BY DEF Next, vars, recordVars, Session, StartTest, Telemetry, Conclude, Measure, BeginResult,
           RecordResult, BeginCompletion, CompleteRun, Frames, Check, BeginPromotion, Promote,
           BeginImport, Import, ImportEnds, BeginResident, ResidentWrites, Files
  <2> QED
    BY <2>1, <2>2, <2>3
<1> QED
  BY <1>1, <1>2, EvidenceIsKept, PTL DEF Spec
-----------------------------------------------------------------------------
(* Arithmetic.                                                              *)

LEMMA ProductGrows ==
  ASSUME NEW a \in Nat, NEW x \in Nat, NEW y \in Nat, x <= y PROVE a * x <= a * y
<1>1. y - x \in Nat /\ a * (y - x) = a * y - a * x
  OBVIOUS
<1>2. \A b \in Nat : a * b \in Nat
  OBVIOUS
<1> QED
  BY <1>1, <1>2

LEMMA QuotientBounds ==
  ASSUME NEW a \in Nat, NEW b \in Nat \ {0}, NEW k \in Nat
  PROVE  /\ a \div b \in Nat
         /\ b * k <= a => k <= a \div b
         /\ a <= b * k => a \div b <= k
<1> DEFINE q == a \div b
<1>1. q \in Nat /\ b * q <= a /\ a < b * q + b
  OBVIOUS
<1> HIDE DEF q
<1>2. b * k <= a => k <= q
  <2> SUFFICES ASSUME b * k <= a, k >= q + 1 PROVE FALSE
    BY <1>1
  <2>1. b * (q + 1) <= b * k
    BY <1>1, ProductGrows
  <2>2. b * (q + 1) = b * q + b
    BY <1>1
  <2> QED
    BY <1>1, <2>1, <2>2
<1>3. a <= b * k => q <= k
  <2> SUFFICES ASSUME a <= b * k, q >= k + 1 PROVE FALSE
    BY <1>1
  <2>1. b * (k + 1) <= b * q
    BY <1>1, ProductGrows
  <2>2. b * (k + 1) = b * k + b
    OBVIOUS
  <2> QED
    BY <1>1, <2>1, <2>2
<1> QED
  BY <1>1, <1>2, <1>3 DEF q

-----------------------------------------------------------------------------
(* Recursion along the naturals.                                            *)

\* A function that is given at 0, and at i by i and its value before.
Follows(f, n, a, g) ==
  /\ DOMAIN f = 0..n
  /\ f[0] = a
  /\ \A i \in 1..n : f[i] = g[<<i, f[i - 1]>>]

LEMMA RecursionExists ==
  ASSUME NEW n \in Nat, NEW S, NEW a \in S, NEW g \in [(1..n) \X S -> S]
  PROVE  \E f \in [0..n -> S] : Follows(f, n, a, g)
<1> DEFINE Bad == {k \in 0..n : \A f \in [0..k -> S] : ~Follows(f, k, a, g)}
<1> SUFFICES Bad = {}
  OBVIOUS
<1> SUFFICES ASSUME Bad # {} PROVE FALSE
  OBVIOUS
<1>0. Bad \subseteq Nat
  OBVIOUS
<1>1. PICK k \in Bad : \A j \in Bad : k <= j
  BY <1>0, LeastNatural
<1>2. k # 0
  <2> DEFINE f == [i \in 0..0 |-> a]
  <2>1. f \in [0..0 -> S] /\ Follows(f, 0, a, g)
    BY DEF Follows
  <2> QED
    BY <1>1, <2>1
<1>3. k - 1 \in 0..n /\ k - 1 \notin Bad /\ k \in 1..n
  BY <1>1, <1>2
<1>4. PICK f \in [0..(k - 1) -> S] : Follows(f, k - 1, a, g)
  BY <1>3
<1> DEFINE h == [i \in 0..k |-> IF i = k THEN g[<<k, f[k - 1]>>] ELSE f[i]]
<1>5. h \in [0..k -> S]
  <2>1. f[k - 1] \in S /\ <<k, f[k - 1]>> \in (1..n) \X S
    BY <1>3, <1>4
  <2>2. g[<<k, f[k - 1]>>] \in S
    BY <2>1
  <2>3. \A i \in 0..k : i # k => i \in 0..(k - 1)
    BY <1>3
  <2> QED
    BY <1>4, <2>2, <2>3
<1>6. Follows(h, k, a, g)
  <2>1. h[0] = a
    BY <1>3, <1>4 DEF Follows
  <2>2. ASSUME NEW i \in 1..k PROVE h[i] = g[<<i, h[i - 1]>>]
    <3>1. i - 1 \in 0..k /\ i \in 0..k /\ i - 1 # k
      BY <1>3
    <3>2. h[i - 1] = f[i - 1]
      BY <3>1
    <3>3. CASE i = k
      BY <3>1, <3>2, <3>3
    <3>4. CASE i # k
      <4>1. i \in 1..(k - 1)
        BY <1>3, <3>4
      <4> QED
        BY <1>4, <3>1, <3>2, <3>4, <4>1 DEF Follows
    <3> QED
      BY <3>3, <3>4
  <2> QED
    BY <2>1, <2>2 DEF Follows
<1> QED
  BY <1>1, <1>5, <1>6

-----------------------------------------------------------------------------
(* Greatest, least and ranked values.                                       *)

LEMMA GreatestNatural ==
  ASSUME NEW T, T \subseteq Nat, T # {}, NEW bound \in Nat, \A v \in T : v <= bound
  PROVE  \E m \in T : \A k \in T : k <= m
<1> DEFINE U == {u \in Nat : \A v \in T : v <= u}
<1>1. PICK u \in U : \A w \in U : u <= w
  BY LeastNatural
<1>2. u \in T
  <2> SUFFICES ASSUME u \notin T PROVE FALSE
    OBVIOUS
  <2>1. \A v \in T : v < u
    BY <1>1
  <2>2. u \in Nat /\ u # 0
    <3>1. PICK v \in T : v < u
      BY <2>1
    <3> QED
      BY <1>1, <3>1
  <2>3. u - 1 \in Nat /\ \A v \in T : v <= u - 1
    BY <2>1, <2>2
  <2>4. u - 1 \in U /\ ~(u <= u - 1)
    BY <2>2, <2>3
  <2> QED
    BY <1>1, <2>4
<1> QED
  BY <1>1, <1>2

\* The values at these places are naturals, and finite in number.
Valued(samples, places) ==
  /\ IsFiniteSet(places)
  /\ \A i \in places : samples[i].value \in Nat

Bounds(samples, places, low, high) ==
  \A i \in places : low <= samples[i].value /\ samples[i].value <= high

LEMMA RankedIsValue ==
  ASSUME NEW samples, NEW places, Valued(samples, places),
         NEW low \in Nat, NEW high \in Nat, Bounds(samples, places, low, high),
         NEW k \in 1..Cardinality(places)
  PROVE  /\ Ranked(samples, places, k) \in Nat
         /\ low <= Ranked(samples, places, k) /\ Ranked(samples, places, k) <= high
<1> DEFINE V == ValuesAt(samples, places)
           UpTo(v) == {i \in places : samples[i].value <= v}
           W == {v \in V : Cardinality(UpTo(v)) >= k}
<1>1. V \subseteq Nat /\ \A v \in V : low <= v /\ v <= high
  BY DEF Valued, ValuesAt, Bounds
<1>2. V # {}
  <2>1. places # {}
    BY FS_EmptySet DEF Valued
  <2> QED
    BY <2>1 DEF ValuesAt
<1>3. PICK top \in V : \A v \in V : v <= top
  BY <1>1, <1>2, GreatestNatural
<1>4. UpTo(top) = places
  BY <1>3 DEF ValuesAt
<1>5. top \in W
  <2>1. Cardinality(places) \in Nat
    BY FS_CardinalityType DEF Valued
  <2>2. Cardinality(UpTo(top)) = Cardinality(places)
    BY <1>4
  <2>3. Cardinality(UpTo(top)) >= k
    <3> HIDE DEF UpTo
    <3> QED
      BY <2>1, <2>2
  <2> HIDE DEF UpTo, V
  <2> QED
    BY <1>3, <2>3
<1>6. PICK m \in W : \A v \in W : m <= v
  BY <1>1, <1>5, LeastNatural
<1>7. Ranked(samples, places, k) = Min(W)
  BY DEF Ranked
<1>8. Min(W) \in W
  BY <1>6 DEF Min
<1> QED
  BY <1>1, <1>7, <1>8

\* Between two ranks at most.
LEMMA PercentileBounds ==
  ASSUME NEW samples, NEW places, Valued(samples, places), places # {},
         NEW low \in Nat, NEW high \in Nat, Bounds(samples, places, low, high),
         NEW percent \in {50, 90, 95}
  PROVE  /\ Percentile(samples, places, percent) \in Nat
         /\ 100 * low <= Percentile(samples, places, percent)
         /\ Percentile(samples, places, percent) <= 100 * high
<1> DEFINE n == Cardinality(places)
           index == (n - 1) * percent
           lower == index \div 100 + 1
           upper == IF lower + 1 > n THEN n ELSE lower + 1
           part == index % 100
           x == Ranked(samples, places, lower)
           y == Ranked(samples, places, upper)
<1>1. n \in Nat /\ n >= 1
  BY FS_CardinalityType, FS_EmptySet DEF Valued
<1>2. index \in Nat /\ index <= 100 * (n - 1)
  BY <1>1
<1>3. part \in 0..99 /\ lower \in 1..n
  <2> HIDE DEF index
  <2>1. n - 1 \in Nat /\ 100 \in Nat \ {0}
    BY <1>1
  <2>2. index \div 100 \in Nat /\ index \div 100 <= n - 1
    BY <1>2, <2>1, QuotientBounds
  <2>3. part \in 0..99
    BY <1>2
  <2>4. lower \in 1..n
    BY <1>1, <2>2
  <2> QED
    BY <2>3, <2>4
<1>4. upper \in 1..n
  BY <1>1, <1>3
<1>5. Percentile(samples, places, percent) = x * (100 - part) + y * part
  BY DEF Percentile
<1>6. x \in Nat /\ y \in Nat /\ low <= x /\ x <= high /\ low <= y /\ y <= high
  BY <1>3, <1>4, RankedIsValue
<1> HIDE DEF x, y, part, lower, upper, index, n
<1>7. 100 - part \in Nat /\ part \in Nat
  BY <1>3
<1>8. /\ (100 - part) * low <= (100 - part) * x /\ (100 - part) * x <= (100 - part) * high
      /\ part * low <= part * y /\ part * y <= part * high
  BY <1>6, <1>7, ProductGrows
<1>9. /\ (100 - part) * low + part * low = 100 * low
      /\ (100 - part) * high + part * high = 100 * high
      /\ x * (100 - part) = (100 - part) * x /\ y * part = part * y
      /\ (100 - part) * x \in Nat /\ part * y \in Nat
  BY <1>6, <1>7
<1> QED
  BY <1>5, <1>6, <1>7, <1>8, <1>9
\* The mean lies between them as well.
LEMMA TotalBounds ==
  ASSUME NEW samples, Len(samples) \in Nat,
         NEW places \in SUBSET (1..Len(samples)), Valued(samples, places),
         NEW low \in Nat, NEW high \in Nat, Bounds(samples, places, low, high)
  PROVE  /\ Total(samples, places) \in Nat
         /\ low * Cardinality(places) <= Total(samples, places)
         /\ Total(samples, places) <= high * Cardinality(places)
<1> DEFINE n == Len(samples)
           Value(i) == IF i \in places THEN samples[i].value ELSE 0
           g == [x \in (1..n) \X Nat |-> x[2] + Value(x[1])]
           Sum(f) == f = [i \in 0..n |-> IF i = 0 THEN 0 ELSE f[i - 1] + Value(i)]
           total == CHOOSE f : Sum(f)
           Upto(i) == places \cap (1..i)
           Right(i) == /\ total[i] \in Nat
                       /\ low * Cardinality(Upto(i)) <= total[i]
                       /\ total[i] <= high * Cardinality(Upto(i))
<1>1. \A i \in 1..n : Value(i) \in Nat
  BY DEF Valued
<1>2. g \in [(1..n) \X Nat -> Nat]
  BY <1>1
<1>3. PICK f \in [0..n -> Nat] : Follows(f, n, 0, g)
  BY <1>2, RecursionExists
<1>4. Sum(f)
  <2>1. ASSUME NEW i \in 0..n, i # 0 PROVE f[i] = f[i - 1] + Value(i)
    <3>1. i \in 1..n /\ i - 1 \in 0..n
      BY <2>1
    <3>2. f[i] = g[<<i, f[i - 1]>>] /\ <<i, f[i - 1]>> \in (1..n) \X Nat
      BY <1>3, <3>1 DEF Follows
    <3> QED
      BY <3>2
  <2>2. f[0] = 0 /\ f = [i \in 0..n |-> f[i]]
    BY <1>3 DEF Follows
  <2> QED
    BY <2>1, <2>2
<1>5. Sum(total)
  BY <1>4
<1>6. Total(samples, places) = total[n]
  BY DEF Total
<1> HIDE DEF total, g
<1>7. Right(0)
  <2>1. Upto(0) = {} /\ total[0] = 0
    BY <1>5
  <2> QED
    BY <2>1, FS_EmptySet
<1>8. ASSUME NEW i \in 1..n, Right(i - 1) PROVE Right(i)
  <2> DEFINE c == Cardinality(Upto(i - 1))
  <2>1. total[i] = total[i - 1] + Value(i)
    BY <1>5
  <2>2. IsFiniteSet(Upto(i - 1)) /\ c \in Nat
    BY FS_Subset, FS_CardinalityType DEF Valued
  <2>3. CASE i \in places
    <3>1. Upto(i) = Upto(i - 1) \cup {i} /\ i \notin Upto(i - 1)
      BY <2>3
    <3>2. Cardinality(Upto(i)) = c + 1
      BY <2>2, <3>1, FS_AddElement
    <3>3. low <= Value(i) /\ Value(i) <= high /\ Value(i) \in Nat
      BY <1>1, <2>3 DEF Bounds
    <3>4. low * (c + 1) = low * c + low /\ high * (c + 1) = high * c + high
      BY <2>2
    <3>5. low * c \in Nat /\ high * c \in Nat
      BY <2>2
    <3> HIDE DEF c, Value
    <3> QED
      BY <1>8, <2>1, <3>2, <3>3, <3>4, <3>5 DEF c
  <2>4. CASE i \notin places
    <3>1. Upto(i) = Upto(i - 1) /\ Value(i) = 0
      BY <2>4
    <3>2. total[i - 1] \in Nat
      BY <1>8
    <3>3. total[i] = total[i - 1]
      BY <2>1, <3>1, <3>2
    <3> HIDE DEF Upto
    <3> QED
      BY <1>8, <3>1, <3>3
  <2> QED
    BY <2>3, <2>4
<1>9. Right(n)
  <2> DEFINE Wrong == {i \in 0..n : ~Right(i)}
  <2> HIDE DEF Right
  <2> SUFFICES ASSUME Wrong # {} PROVE FALSE
    OBVIOUS
  <2>1. PICK k \in Wrong : \A j \in Wrong : k <= j
    <3>1. Wrong \subseteq Nat
      OBVIOUS
    <3> QED
      BY <3>1, LeastNatural
  <2>2. k # 0 /\ k \in 1..n
    BY <1>7, <2>1
  <2>3. Right(k - 1)
    BY <2>1, <2>2
  <2> QED
    BY <1>8, <2>1, <2>2, <2>3
<1>10. Upto(n) = places
  OBVIOUS
<1> QED
  BY <1>6, <1>9, <1>10
-----------------------------------------------------------------------------
(* What is decided by.                                                      *)

Sampled(samples) ==
  /\ Len(samples) \in Nat /\ DOMAIN samples = 1..Len(samples)
  /\ \A i \in DOMAIN samples : samples[i].value \in Nat

Decides(policy) == policy.aggregate \in {"mean", "median", "p90", "p95", "max", "min"}

LEMMA EligibleValues ==
  ASSUME NEW policy, NEW samples, Sampled(samples)
  PROVE  /\ Eligible(policy, samples) \in SUBSET (1..Len(samples))
         /\ Valued(samples, Eligible(policy, samples))
         /\ ValuesAt(samples, Eligible(policy, samples)) \subseteq Nat
<1>1. Eligible(policy, samples) \subseteq 1..Len(samples)
  BY DEF Eligible, Sampled
<1>2. IsFiniteSet(1..Len(samples))
  BY FS_Interval DEF Sampled
<1>3. IsFiniteSet(Eligible(policy, samples))
  BY <1>1, <1>2, FS_Subset
<1> QED
  BY <1>1, <1>3 DEF Valued, ValuesAt, Sampled

LEMMA Larger ==
  ASSUME NEW a \in Nat, NEW b \in Nat
  PROVE  \E c \in Nat : a <= c /\ b <= c
  OBVIOUS

LEMMA SequenceBound ==
  ASSUME NEW n \in Nat, NEW f \in [1..n -> Nat]
  PROVE  \E bound \in Nat : \A i \in 1..n : f[i] <= bound
<1> DEFINE Bad == {k \in 0..n : \A m \in Nat : \E i \in 1..k : ~(f[i] <= m)}
<1>0. Bad = {} => \E bound \in Nat : \A i \in 1..n : f[i] <= bound
  <2>1. n \in 0..n
    OBVIOUS
  <2> QED
    BY <2>1
<1> SUFFICES ASSUME Bad # {} PROVE FALSE
  BY <1>0
<1>1. Bad \subseteq Nat
  OBVIOUS
<1>2. PICK k \in Bad : \A j \in Bad : k <= j
  BY <1>1, LeastNatural
<1>3. k # 0
  <2>1. 0 \in Nat /\ 1..0 = {}
    OBVIOUS
  <2> QED
    BY <1>2, <2>1
<1>4. k \in 1..n /\ k - 1 \in 0..n /\ ~(k <= k - 1)
  BY <1>2, <1>3
<1>5. PICK bound \in Nat : \A i \in 1..(k - 1) : f[i] <= bound
  BY <1>2, <1>4
<1>6. f[k] \in Nat
  BY <1>4
<1> HIDE DEF Bad
<1>7. PICK top \in Nat : bound <= top /\ f[k] <= top
  BY <1>6, Larger
<1>8. ASSUME NEW i \in 1..k PROVE f[i] <= top
  <2>1. CASE i = k
    BY <1>7, <2>1
  <2>2. CASE i # k
    <3>1. i \in 1..(k - 1) /\ i \in 1..n
      BY <1>4, <2>2
    <3> QED
      BY <1>5, <1>7, <3>1
  <2> QED
    BY <2>1, <2>2
<1> QED
  BY <1>2, <1>7, <1>8 DEF Bad

\* Samples have a greatest value, and a least.
LEMMA ValuesEnd ==
  ASSUME NEW samples, Sampled(samples), NEW places \in SUBSET DOMAIN samples, places # {}
  PROVE  \E low, high \in ValuesAt(samples, places) :
           \A v \in ValuesAt(samples, places) : low <= v /\ v <= high
<1> DEFINE n == Len(samples)
           V == ValuesAt(samples, places)
           f == [i \in 1..n |-> samples[i].value]
<1>1. n \in Nat /\ f \in [1..n -> Nat]
  BY DEF Sampled
<1>2. PICK bound \in Nat : \A i \in 1..n : samples[i].value <= bound
  <2>1. PICK bound \in Nat : \A i \in 1..n : f[i] <= bound
    BY <1>1, SequenceBound
  <2> QED
    BY <2>1
<1>3. V \subseteq Nat /\ V # {} /\ \A v \in V : v <= bound
  BY <1>2 DEF ValuesAt, Sampled
<1>4. PICK low \in V : \A v \in V : low <= v
  BY <1>3, LeastNatural
<1>5. PICK high \in V : \A v \in V : v <= high
  BY <1>3, GreatestNatural
<1> QED
  BY <1>4, <1>5

\* Whatever the aggregate: the decision value lies between the least and the
\* greatest sample that counts.
LEMMA DecisionBounds ==
  ASSUME NEW policy, Decides(policy), NEW samples, Sampled(samples),
         Eligible(policy, samples) # {}, NEW low \in Nat, NEW high \in Nat,
         Bounds(samples, Eligible(policy, samples), low, high)
  PROVE  /\ DecisionValue(policy, samples) \in Nat
         /\ 100 * low <= DecisionValue(policy, samples)
         /\ DecisionValue(policy, samples) <= 100 * high
<1> DEFINE places == Eligible(policy, samples)
           n == Cardinality(places)
           D == DecisionValue(policy, samples)
           Between(d) == d \in Nat /\ 100 * low <= d /\ d <= 100 * high
<1>1. places \in SUBSET (1..Len(samples)) /\ Valued(samples, places)
  BY EligibleValues
<1>2. n \in Nat \ {0}
  BY <1>1, FS_CardinalityType, FS_EmptySet DEF Valued
<1> HIDE DEF places, n
<1>3. CASE policy.aggregate = "mean"
  <2> DEFINE total == Total(samples, places)
  <2>1. total \in Nat /\ low * n <= total /\ total <= high * n
    BY <1>1, TotalBounds DEF n, places, Sampled
  <2>2. D = (100 * total) \div n
    BY <1>3 DEF DecisionValue, n, places
  <2> HIDE DEF total, D
  <2>3. low * n \in Nat /\ high * n \in Nat
    BY <1>2
  <2>4. 100 * (low * n) <= 100 * total /\ 100 * total <= 100 * (high * n)
    BY <2>1, <2>3
  <2>5. n * (100 * low) = 100 * (low * n) /\ n * (100 * high) = 100 * (high * n)
    BY <1>2
  <2>6. 100 * total \in Nat /\ 100 * low \in Nat /\ 100 * high \in Nat
    BY <2>1
  <2>7. Between((100 * total) \div n)
    BY <1>2, <2>4, <2>5, <2>6, QuotientBounds
  <2> QED
    BY <2>2, <2>7 DEF D
<1>4. ASSUME NEW percent \in {50, 90, 95} PROVE Between(Percentile(samples, places, percent))
  BY <1>1, PercentileBounds DEF places
<1>5. ASSUME NEW k \in {1, n} PROVE Between(100 * Ranked(samples, places, k))
  <2> DEFINE v == Ranked(samples, places, k)
  <2>1. k \in 1..n
    BY <1>2
  <2>2. v \in Nat /\ low <= v /\ v <= high
    BY <1>1, <2>1, RankedIsValue DEF n, places
  <2> HIDE DEF v
  <2>3. Between(100 * v)
    BY <2>2
  <2> QED
    BY <2>3 DEF v
<1>6. D \in {Percentile(samples, places, percent) : percent \in {50, 90, 95}}
            \cup {100 * Ranked(samples, places, k) : k \in {1, n}}
      \/ policy.aggregate = "mean"
  BY DEF DecisionValue, Decides, n, places
<1>7. Between(D)
  BY <1>3, <1>4, <1>5, <1>6
<1> QED
  BY <1>7

\* A quotient that is rounded is at least what the quotient is.
LEMMA RoundedBound ==
  ASSUME NEW x \in Nat, NEW y \in Nat \ {0}, NEW k \in Nat, y * k <= x
  PROVE  Rounded(x, y) >= k
<1>1. 2 * x + y \in Nat /\ 2 * y \in Nat \ {0}
  OBVIOUS
<1>2. (2 * y) * k = 2 * (y * k)
  OBVIOUS
<1>3. y * k \in Nat
  OBVIOUS
<1>4. (2 * y) * k <= 2 * x + y
  BY <1>2, <1>3
<1>5. k <= (2 * x + y) \div (2 * y) /\ (2 * x + y) \div (2 * y) \in Nat
  BY <1>1, <1>4, QuotientBounds
<1> QED
  BY <1>5 DEF Rounded

\* A metric that has degraded is a regression.
LEMMA DegradedDelta ==
  ASSUME NEW policy, Decides(policy), NEW b, NEW c, Sampled(b.samples), Sampled(c.samples),
         Degraded(policy, b, c)
  PROVE  Delta(DecisionValue(policy, b.samples), DecisionValue(policy, c.samples), policy.unit)
           >= 100 * Threshold
<1> DEFINE X == ValuesAt(b.samples, Eligible(policy, b.samples))
           Y == ValuesAt(c.samples, Eligible(policy, c.samples))
           B == DecisionValue(policy, b.samples)
           C == DecisionValue(policy, c.samples)
           T == Threshold
<1>1. /\ X # {} /\ Y # {}
      /\ T > 100 => 0 \notin X
      /\ \A x \in X, y \in Y : IF policy.unit \in LowerIsBetter
                               THEN 100 * (y - x) >= T * x /\ y > x
                               ELSE 100 * (x - y) >= T * x /\ y < x
  BY DEF Degraded
<1>2. X \subseteq Nat /\ Y \subseteq Nat
  BY EligibleValues
<1>3. Eligible(policy, b.samples) # {} /\ Eligible(policy, c.samples) # {}
  <2>1. \A samples : ValuesAt(samples, {}) = {}
    BY DEF ValuesAt
  <2>2. X # {} /\ Y # {}
    BY <1>1
  <2> QED
    BY <2>1, <2>2
<1>4. ASSUME NEW low \in Nat, NEW high \in Nat, \A x \in X : low <= x /\ x <= high
      PROVE  B \in Nat /\ 100 * low <= B /\ B <= 100 * high
  <2>1. Bounds(b.samples, Eligible(policy, b.samples), low, high)
    BY <1>4 DEF Bounds, ValuesAt
  <2> QED
    BY <1>3, <2>1, DecisionBounds
<1>5. ASSUME NEW low \in Nat, NEW high \in Nat, \A y \in Y : low <= y /\ y <= high
      PROVE  C \in Nat /\ 100 * low <= C /\ C <= 100 * high
  <2>1. Bounds(c.samples, Eligible(policy, c.samples), low, high)
    BY <1>5 DEF Bounds, ValuesAt
  <2> QED
    BY <1>3, <2>1, DecisionBounds
<1>6. T \in Nat \ {0}
  BY ThresholdAssumption
<1>7. PICK least, greatest \in X : \A x \in X : least <= x /\ x <= greatest
  BY <1>3, EligibleValues, ValuesEnd DEF Sampled
<1>8. PICK first, last \in Y : \A y \in Y : first <= y /\ y <= last
  BY <1>3, EligibleValues, ValuesEnd DEF Sampled
<1>9. /\ B \in Nat /\ 100 * least <= B /\ B <= 100 * greatest
      /\ C \in Nat /\ 100 * first <= C /\ C <= 100 * last
  BY <1>2, <1>4, <1>5, <1>7, <1>8
<1> HIDE DEF X, Y, B, C, T
<1>10. ASSUME NEW d \in Nat, T * B <= 100 * d, B # 0
       PROVE  Rounded(10000 * d, B) >= 100 * T
  <2>1. B * (100 * T) = 100 * (T * B) /\ 10000 * d = 100 * (100 * d)
    BY <1>6, <1>9
  <2>2. T * B \in Nat /\ 100 * d \in Nat /\ 10000 * d \in Nat /\ 100 * T \in Nat
    BY <1>6, <1>9
  <2>3. B * (100 * T) <= 10000 * d
    BY <1>10, <2>1, <2>2
  <2> QED
    BY <1>9, <1>10, <2>2, <2>3, RoundedBound
<1>11. CASE policy.unit \in LowerIsBetter
  <2>1. 100 * (first - greatest) >= T * greatest /\ first > greatest
    BY <1>1, <1>7, <1>8, <1>11
  <2>2. C > B /\ C - B \in Nat
    BY <1>2, <1>7, <1>8, <1>9, <2>1
  <2>3. CASE B = 0
    <3>1. T <= 100
      <4> SUFFICES ASSUME T > 100 PROVE FALSE
        BY <1>6
      <4>1. least = 0
        BY <1>2, <1>7, <1>9, <2>3
      <4> QED
        BY <1>1, <1>7, <4>1
    <3> QED
      BY <1>6, <2>2, <2>3, <3>1 DEF Delta, B, C, T
  <2>4. CASE B # 0
    <3>1. T * B <= T * (100 * greatest)
      <4>1. T \in Nat /\ 100 * greatest \in Nat /\ B <= 100 * greatest
        BY <1>2, <1>6, <1>7, <1>9
      <4> QED
        BY <1>9, <4>1, ProductGrows
    <3>2. T * (100 * greatest) = 100 * (T * greatest) /\ T * greatest \in Nat
      BY <1>2, <1>6, <1>7
    <3>3. 100 * (T * greatest) <= 100 * (100 * (first - greatest))
      BY <1>2, <1>7, <1>8, <2>1, <3>2
    <3>4. T * B <= 100 * (C - B)
      BY <1>2, <1>6, <1>7, <1>8, <1>9, <3>1, <3>2, <3>3
    <3>5. Rounded(10000 * (C - B), B) >= 100 * T
      BY <1>10, <2>2, <2>4, <3>4
    <3> QED
      BY <1>11, <2>4, <3>5 DEF Delta, B, C, T
  <2> QED
    BY <2>3, <2>4
<1>12. CASE policy.unit \notin LowerIsBetter
  <2>1. 100 * (least - last) >= T * least /\ last < least
    BY <1>1, <1>7, <1>8, <1>12
  <2>2. least \in Nat /\ last \in Nat /\ T * least \in Nat
    BY <1>2, <1>6, <1>7, <1>8
  <2>3. T * least <= 100 * least - 100 * last /\ least # 0
    BY <2>1, <2>2
  <2>4. T <= 100
    <3> SUFFICES ASSUME T >= 101 PROVE FALSE
      BY <1>6
    <3>1. least * 101 <= least * T
      BY <1>6, <2>2, ProductGrows
    <3> QED
      BY <1>6, <2>2, <2>3, <3>1
  <2>5. (100 - T) * (100 * least) <= (100 - T) * B
    BY <1>6, <1>9, <2>2, <2>4, ProductGrows
  <2>6. (100 - T) * (100 * least) = 100 * (100 * least - T * least)
    BY <1>6, <2>2
  <2>7. (100 - T) * B = 100 * B - T * B /\ T * B \in Nat
    BY <1>6, <1>9
  <2>8. T * B <= 100 * (B - C)
    BY <1>9, <2>2, <2>3, <2>5, <2>6, <2>7
  <2>9. B - C \in Nat /\ B # 0
    BY <1>9, <2>1, <2>2
  <2>10. Rounded(10000 * (B - C), B) >= 100 * T
    BY <1>10, <2>8, <2>9
  <2> QED
    BY <1>12, <2>9, <2>10 DEF Delta, B, C, T
<1> QED
  BY <1>11, <1>12 DEF B, C, T
-----------------------------------------------------------------------------
(* What results rest on.                                                    *)

\* A result that passed on a capture rests on an exchange that took place; what
\* is measured has the unit of its policy.
Backed(r) ==
  /\ r.status = "PASS" /\ Captures[r.test] # "none" => proved[r.test].happened
  /\ r.unit \in {None, Policy[r.test].unit}

AllBacked ==
  /\ \A i \in DOMAIN candidate.results : Backed(candidate.results[i])
  /\ \A p \in Procs : point[p] \in Holding => Backed(choice[p])

\* Steps that prove nothing and draw no result.
LEMMA CalmKeepsBacked ==
  ASSUME AllBacked, UNCHANGED <<proved, candidate.results>>,
         \A q \in Procs : point'[q] \in Holding => point[q] \in Holding /\ choice'[q] = choice[q]
  PROVE  AllBacked'
  BY DEF AllBacked, Backed

LEMMA FilesKeepBacked ==
  ASSUME FileInv, AllBacked, NEW p \in Procs, Files(p)
  PROVE  AllBacked'
<1>1. UNCHANGED recordVars
  BY DEF Files
<1>2. point' = point \/ \E to : to \notin Holding /\ Goto(p, to)
  <2>1. CASE Initializing(p)
    BY <2>1
    DEF Initializing, Lock, Inspect, Backup, Migrate, Verify, MigrationFails, Unlink, Replace,
        RecoveryFails, Raise, Holding
  <2>2. CASE ~Initializing(p)
    BY <2>2 DEF Files, LockForRestore, Keep, Rollback, Checkpoint, Die, Holding
  <2> QED
    BY <2>1, <2>2
<1>3. \A q \in Procs : point'[q] \in Holding => point[q] \in Holding
  BY <1>2 DEF Goto, FileInv, Shapes
<1> QED
  BY <1>1, <1>3, CalmKeepsBacked DEF recordVars

LEMMA OthersKeepBacked ==
  ASSUME FileInv, RecordInv, AllBacked, NEW p \in Procs,
         \/ StartTest(p) \/ Telemetry(p, "before", "test") \/ Telemetry(p, "after", "result")
         \/ BeginResult(p) \/ BeginCompletion(p) \/ CompleteRun(p)
         \/ Check(p) \/ BeginPromotion(p) \/ Promote(p) \/ BeginImport(p) \/ Import(p)
         \/ ImportEnds(p) \/ BeginResident(p) \/ ResidentWrites(p)
  PROVE  AllBacked'
<1>1. DOMAIN point = Procs /\ DOMAIN choice = Procs
  BY DEF FileInv, Shapes, RecordInv, Working
<1>2. UNCHANGED <<proved, candidate.results>>
  BY DEF StartTest, Telemetry, BeginResult, BeginCompletion, CompleteRun, Check, BeginPromotion,
         Promote, BeginImport, Import, ImportEnds, BeginResident, ResidentWrites, recordVars,
         RecordInv, RunTyped
<1>3. \/ \E to : to \notin Holding /\ Goto(p, to)
      \/ point[p] \in Holding /\ (\E to : Goto(p, to)) /\ choice' = choice
  BY DEF StartTest, Telemetry, BeginResult, BeginCompletion, CompleteRun, Check, BeginPromotion,
         Promote, BeginImport, Import, ImportEnds, BeginResident, ResidentWrites, recordVars,
         Begin, Holding
<1>4. \A q \in Procs \ {p} : choice'[q] = choice[q] /\ point'[q] = point[q]
  <2>1. \A q \in Procs \ {p} : choice'[q] = choice[q]
    BY <1>1
    DEF StartTest, Telemetry, BeginResult, BeginCompletion, CompleteRun, Check, BeginPromotion,
        Promote, BeginImport, Import, ImportEnds, BeginResident, ResidentWrites, recordVars
  <2>2. \A q \in Procs \ {p} : point'[q] = point[q]
    BY <1>1, <1>3 DEF Goto
  <2> QED
    BY <2>1, <2>2
<1>5. point'[p] \in Holding => point[p] \in Holding /\ choice'[p] = choice[p]
  BY <1>1, <1>3 DEF Goto
<1> QED
  BY <1>2, <1>4, <1>5, CalmKeepsBacked

\* The capture that ends proves nothing of a test that has a result.
LEMMA CaptureKeepsBacked ==
  ASSUME FileInv, RecordInv, AllBacked, NEW p \in Procs, EndCapture(p)
  PROVE  AllBacked'
<1>1. /\ point[p] = "test" /\ Goto(p, "analyzed")
      /\ proved' = [proved EXCEPT ![NextTest] = [claimed |-> Claimed, happened |-> Happened]]
      /\ UNCHANGED <<scene, candidate, choice>>
  BY DEF EndCapture
<1>2. scene.job[p] = "session" /\ Untested # {}
  BY <1>1 DEF RecordInv, Working, Works, Testing
<1>3. ResultsOf(NextTest, candidate.results) = {}
  <2>1. DOMAIN scene.selected \subseteq Nat
    BY ScenesAssumption DEF RecordInv, RunTyped
  <2>2. PICK m \in Untested : \A k \in Untested : m <= k
    BY <1>2, <2>1, LeastNatural DEF Untested
  <2>3. Min(Untested) \in Untested
    BY <2>2 DEF Min
  <2> QED
    BY <2>3 DEF NextTest, Untested
<1>4. \A i \in DOMAIN candidate.results : candidate.results[i].test # NextTest
  BY <1>3 DEF ResultsOf
<1>5. \A t : t # NextTest => proved'[t] = proved[t]
  BY <1>1
<1>6. \A q \in Procs : point'[q] \notin Holding
  <2>1. ASSUME NEW q \in Procs, point[q] \in Holding PROVE q = p
    BY <1>2, <2>1, ScenesAssumption DEF RecordInv, RunTyped, Working, Works
  <2>2. point'[p] = "analyzed" /\ \A q \in Procs \ {p} : point'[q] = point[q]
    BY <1>1 DEF Goto, FileInv, Shapes
  <2> QED
    BY <1>1, <2>1, <2>2 DEF Holding
<1> QED
  BY <1>1, <1>4, <1>5, <1>6 DEF AllBacked, Backed

\* A body that passes found its exchange in the capture.
LEMMA ResultKeepsBacked ==
  ASSUME FileInv, RecordInv, Proven, AllBacked, NEW p \in Procs, Conclude(p) \/ Measure(p)
  PROVE  AllBacked'
<1>1. /\ Goto(p, "after") /\ UNCHANGED <<scene, candidate, proved>>
      /\ \A q \in Procs \ {p} : choice'[q] = choice[q]
  BY DEF Conclude, Measure, RecordInv, Working
<1>2. p \in DOMAIN choice
  BY DEF RecordInv, Working
<1>3. NextTest \in DOMAIN Policy
  <2>1. point[p] \in Testing
    BY DEF Conclude, Measure, Testing
  <2>2. NextTest \in Tests
    BY <2>1, NextIsSelected DEF RecordInv, Working, Works
  <2> QED
    BY <2>2, ScenesAssumption DEF RecordInv, RunTyped, Tests, ToSet
<1>4. Backed(choice'[p])
  <2>1. CASE Conclude(p)
    <3>1. PICK raises \in BOOLEAN, evidence \in EvidenceStates :
          \E r \in ReportsOf(proved[NextTest].claimed /\ ~raises) :
            choice' = [choice EXCEPT ![p] =
                         Result(NextTest, Trusted(Mapped(r), evidence), evidence, None, <<>>)]
      BY <2>1 DEF Conclude
    <3>2. PICK r \in ReportsOf(proved[NextTest].claimed /\ ~raises) :
            choice' = [choice EXCEPT ![p] =
                         Result(NextTest, Trusted(Mapped(r), evidence), evidence, None, <<>>)]
      BY <3>1
    <3> DEFINE e == choice'[p]
    <3>3. /\ e.test = NextTest /\ e.unit = None
          /\ e.status = Trusted(Mapped(r), evidence)
      BY <1>2, <3>2 DEF Result
    <3>4. e.status = "PASS" => proved[NextTest].happened
      <4>1. e.status = "PASS" => Mapped(r) = "PASS"
        BY <3>3 DEF Trusted
      <4>2. Mapped(r) = "PASS" => r.call = "passed"
        BY DEF Mapped
      <4>3. r.call = "passed" => proved[NextTest].claimed
        BY <3>2 DEF ReportsOf
      <4> QED
        BY <1>3, <4>1, <4>2, <4>3 DEF Proven
    <3> QED
      BY <3>3, <3>4 DEF Backed
  <2>2. CASE Measure(p)
    <3>1. choice'[p].test = NextTest /\ choice'[p].unit \in {None, Policy[NextTest].unit}
      BY <1>2, <2>2 DEF Measure, Result
    <3> QED
      BY <2>2, <3>1 DEF Measure, Backed
  <2> QED
    BY <2>1, <2>2
<1>5. \A q \in Procs \ {p} : point'[q] = point[q]
  BY <1>1 DEF Goto, FileInv, Shapes
<1> QED
  BY <1>1, <1>4, <1>5 DEF AllBacked, Backed

LEMMA RecordKeepsBacked ==
  ASSUME FileInv, RecordInv, AllBacked, NEW p \in Procs, RecordResult(p)
  PROVE  AllBacked'
<1>1. /\ point[p] = "recording" /\ Goto(p, "ready") /\ proved' = proved
      /\ candidate' = [candidate EXCEPT !.results = Append(@, choice[p])]
      /\ choice' = [choice EXCEPT ![p] = None]
  BY DEF RecordResult
<1>2. candidate'.results = Append(candidate.results, choice[p])
  BY <1>1 DEF RecordInv, RunTyped
<1>3. Backed(choice[p])
  BY <1>1 DEF AllBacked, Holding
<1>4. candidate.results \in Seq(Entries) /\ choice[p] \in Entries
  BY <1>1 DEF RecordInv, RunTyped, Working, Works, Holding
<1>5. \A i \in DOMAIN candidate'.results : Backed(candidate'.results[i])
  BY <1>2, <1>3, <1>4, AppendProperties DEF AllBacked
<1>6. \A q \in Procs : point'[q] \in Holding =>
        q # p /\ point[q] \in Holding /\ choice'[q] = choice[q]
  BY <1>1 DEF Goto, FileInv, Shapes, RecordInv, Working, Holding
<1> QED
  BY <1>1, <1>5, <1>6 DEF AllBacked, Backed

LEMMA NextKeepsBacked == FileInv /\ RecordInv /\ Proven /\ AllBacked /\ [Next]_vars => AllBacked'
<1> SUFFICES ASSUME FileInv, RecordInv, Proven, AllBacked, [Next]_vars PROVE AllBacked'
  OBVIOUS
<1>1. CASE UNCHANGED <<fileVars, recordVars>>
  BY <1>1, CalmKeepsBacked DEF fileVars, recordVars
<1>2. ASSUME NEW p \in Procs, Session(p) PROVE AllBacked'
  BY <1>2, OthersKeepBacked, CaptureKeepsBacked, ResultKeepsBacked, RecordKeepsBacked
  DEF Session
<1>3. ASSUME NEW p \in Procs, Files(p) PROVE AllBacked'
  BY <1>3, FilesKeepBacked
<1>4. ASSUME NEW p \in Procs,
             \/ Check(p) \/ BeginPromotion(p) \/ Promote(p) \/ BeginImport(p) \/ Import(p)
             \/ ImportEnds(p) \/ BeginResident(p) \/ ResidentWrites(p)
      PROVE  AllBacked'
  BY <1>4, OthersKeepBacked
<1>5. ASSUME NEW p \in Procs, Frames(p) PROVE AllBacked'
  BY <1>5, <1>1 DEF Frames
<1>6. CASE UNCHANGED vars
  BY <1>6, <1>1 DEF vars
<1> QED
  BY <1>2, <1>3, <1>4, <1>5, <1>6 DEF Next

\* Every result rests on what it claims.
THEOREM ResultsAreBacked == Spec => []AllBacked
<1>1. Init => AllBacked
  <2> SUFFICES ASSUME Init PROVE AllBacked
    OBVIOUS
  <2>1. candidate.results = <<>> /\ point = [p \in Procs |-> First(scene.job[p])]
    BY DEF Init, NewRun
  <2>2. \A p \in Procs : point[p] \notin Holding
    BY <2>1 DEF First, Holding
  <2> QED
    BY <2>1, <2>2 DEF AllBacked
<1> QED
  BY <1>1, NextKeepsBacked, FilesAreKept, WorkIsKept, ProofsAreTrue, PTL DEF Spec
-----------------------------------------------------------------------------
(* The release gate.                                                        *)

\* What is read of results are some of them.
LEMMA ReadType ==
  ASSUME NEW S, NEW results \in Seq(S)
  PROVE  Read(results) \in Seq(S)
<1> DEFINE n == Len(results)
           With(i, seen) == IF results[i].test \in live.view.rows THEN Append(seen, results[i])
                            ELSE seen
           g == [x \in (1..n) \X Seq(S) |-> With(x[1], x[2])]
           Reads(f) == f = [i \in 0..n |-> IF i = 0 THEN <<>> ELSE With(i, f[i - 1])]
           read == CHOOSE f : Reads(f)
<1>1. n \in Nat /\ \A i \in 1..n : results[i] \in S
  OBVIOUS
<1>2. g \in [(1..n) \X Seq(S) -> Seq(S)]
  <2> SUFFICES ASSUME NEW i \in 1..n, NEW seen \in Seq(S) PROVE With(i, seen) \in Seq(S)
    OBVIOUS
  <2> QED
    BY <1>1, AppendProperties
<1>3. <<>> \in Seq(S)
  OBVIOUS
<1>4. PICK f \in [0..n -> Seq(S)] : Follows(f, n, <<>>, g)
  BY <1>1, <1>2, <1>3, RecursionExists
<1> HIDE DEF With
<1>5. Reads(f)
  <2>1. ASSUME NEW i \in 0..n, i # 0 PROVE f[i] = With(i, f[i - 1])
    <3>1. i \in 1..n /\ i - 1 \in 0..n
      BY <1>1, <2>1
    <3>2. f[i] = g[<<i, f[i - 1]>>] /\ <<i, f[i - 1]>> \in (1..n) \X Seq(S)
      BY <1>4, <3>1 DEF Follows
    <3> QED
      BY <3>2
  <2>2. f[0] = <<>> /\ f = [i \in 0..n |-> f[i]]
    BY <1>1, <1>4 DEF Follows
  <2> QED
    BY <2>1, <2>2
<1>6. Reads(read)
  BY <1>5
<1>7. Read(results) = read[n]
  BY DEF Read, With
<1> HIDE DEF read, g
<1>8. ASSUME NEW i \in 1..n, read[i - 1] \in Seq(S) PROVE read[i] \in Seq(S)
  <2>1. read[i] = With(i, read[i - 1])
    <3>1. i \in 0..n /\ i # 0
      BY <1>1
    <3> QED
      BY <1>6, <3>1
  <2>2. results[i] \in S
    BY <1>1
  <2>3. Append(read[i - 1], results[i]) \in Seq(S)
    BY <1>8, <2>2, AppendProperties
  <2> QED
    BY <1>8, <2>1, <2>3 DEF With
<1>9. read[0] = <<>>
  BY <1>1, <1>6
<1>10. read[n] \in Seq(S)
  <2> DEFINE Wrong == {i \in 0..n : read[i] \notin Seq(S)}
  <2> SUFFICES ASSUME Wrong # {} PROVE FALSE
    BY <1>1
  <2>1. PICK k \in Wrong : \A j \in Wrong : k <= j
    <3>1. Wrong \subseteq Nat
      BY <1>1
    <3> QED
      BY <3>1, LeastNatural
  <2>2. k \in 1..n /\ k - 1 \in 0..n
    <3>1. k # 0
      BY <1>3, <1>9, <2>1
    <3> QED
      BY <1>1, <2>1, <3>1
  <2>3. k - 1 \notin Wrong
    BY <1>1, <2>1, <2>2
  <2> QED
    BY <1>8, <2>1, <2>2, <2>3
<1> QED
  BY <1>7, <1>10

\* The gate reads what the Runner has recorded.
LEMMA ReadResults ==
  ASSUME RecordInv, AllBacked
  PROVE  \A i \in DOMAIN Stored(candidate).results :
           Stored(candidate).results[i] \in Entries /\ Backed(Stored(candidate).results[i])
<1> DEFINE S == {e \in Entries : Backed(e)}
           results == candidate.results
<1>1. results \in Seq(S)
  <2>1. results \in Seq(Entries)
    BY DEF RecordInv, RunTyped
  <2>2. \A i \in 1..Len(results) : results[i] \in S
    BY <2>1 DEF AllBacked
  <2>3. Len(results) \in Nat /\ results = [i \in 1..Len(results) |-> results[i]]
    BY <2>1
  <2> HIDE DEF S, results
  <2> QED
    BY <2>2, <2>3
<1>2. Read(results) \in Seq(S)
  BY <1>1, ReadType
<1>3. Stored(candidate).results = Read(results)
  BY DEF Stored, RecordInv, RunTyped
<1> HIDE DEF S
<1>4. \A i \in DOMAIN Stored(candidate).results : Stored(candidate).results[i] \in S
  BY <1>2, <1>3
<1> QED
  BY <1>4 DEF S

\* An active waiver with this code and target.
WaivedBy(W, code, t) ==
  \E w \in W : w.code = code /\ w.target \in {"*", IF w.scope = "RUN" THEN "run" ELSE t}

LEMMA RunIssueIsWaived ==
  ASSUME NEW W \in SUBSET Waivers, NEW b, NEW c, Accepts(b, c, W),
         NEW code, Issue(code, None) \in RunIssues(b, c)
  PROVE  WaivedBy(W, code, "run")
<1>1. PICK w \in W : Waives(w, Issue(code, None))
  BY DEF Accepts, Issues
<1>2. w.scope \in {"TEST", "REGRESSION", "RUN", "RELEASE"}
  BY WaiversAssumption
<1>3. Issue(code, None).test = None /\ Issue(code, None).code = code
  BY DEF Issue
<1> QED
  BY <1>1, <1>2, <1>3 DEF Waives, WaivedBy

LEMMA TestIssueIsWaived ==
  ASSUME NEW W \in SUBSET Waivers, NEW b, NEW c, Accepts(b, c, W),
         NEW code, NEW t, Issue(code, t) \in Issues(b, c)
  PROVE  WaivedBy(W, code, t) 
<1>1. PICK w \in W : Waives(w, Issue(code, t))
  BY DEF Accepts
<1>2. w.scope \in {"TEST", "REGRESSION", "RUN", "RELEASE"}
  BY WaiversAssumption
<1>3. Issue(code, t).test = t /\ Issue(code, t).code = code
  BY DEF Issue
<1> QED
  BY <1>1, <1>2, <1>3 DEF Waives, WaivedBy

\* Runs are compared that each saw one environment, the same.
LEMMA ComparableSeen ==
  ASSUME NEW b, NEW c, Comparable(b, c)
  PROVE  c.seen # {} /\ c.seen = b.seen
<1>1. ASSUME NEW run, EnvironmentClass(run) # None
      PROVE  run.seen = {EnvironmentClass(run)}
  <2>1. PICK e \in run.seen : run.seen = {e}
    BY <1>1 DEF EnvironmentClass
  <2>2. EnvironmentClass(run) = e
    BY <2>1 DEF EnvironmentClass
  <2> QED
    BY <2>1, <2>2
<1>2. /\ EnvironmentClass(b) # None /\ EnvironmentClass(c) # None
      /\ EnvironmentClass(b) = EnvironmentClass(c)
  BY DEF Comparable
<1> QED
  BY <1>1, <1>2

\* A metric that is no regression was measured enough, and has not degraded.
LEMMA MetricSound ==
  ASSUME NEW policy, policy # None => Decides(policy) /\ policy.minimum \in Nat \ {0},
         NEW b, NEW r, Sampled(b.samples), Sampled(r.samples),
         r.unit # None, policy # None => r.unit = policy.unit,
         MetricClass(policy, b, r) \notin Disallowed
  PROVE  /\ Cardinality({i \in DOMAIN r.samples : ~r.samples[i].warmup}) >= policy.minimum
         /\ ~Degraded(policy, b, r)
<1>1. MetricClass(policy, b, r) \notin {"UNVALIDATED", "SOFT_REGRESSION"}
  BY DEF Disallowed
<1>2. /\ policy # None /\ Enough(policy, r.samples)
      /\ ~(Delta(DecisionValue(policy, b.samples), DecisionValue(policy, r.samples), r.unit)
             >= 100 * Threshold)
  BY <1>1 DEF MetricClass
<1>3. ~Degraded(policy, b, r)
  BY <1>2, DegradedDelta
<1>4. Cardinality({i \in DOMAIN r.samples : ~r.samples[i].warmup}) >= policy.minimum
  <2> DEFINE some == Eligible(policy, r.samples)
             all == {i \in DOMAIN r.samples : ~r.samples[i].warmup}
  <2>1. some \subseteq all
    BY DEF Eligible
  <2>2. IsFiniteSet(all)
    <3>1. IsFiniteSet(1..Len(r.samples))
      BY FS_Interval DEF Sampled
    <3>2. all \subseteq 1..Len(r.samples)
      BY DEF Sampled
    <3> QED
      BY <3>1, <3>2, FS_Subset
  <2>3. /\ Cardinality(some) \in Nat /\ Cardinality(all) \in Nat
        /\ Cardinality(some) <= Cardinality(all)
    BY <2>1, <2>2, FS_Subset, FS_CardinalityType
  <2>4. Cardinality(some) >= policy.minimum
    BY <1>2 DEF Enough
  <2> HIDE DEF some, all
  <2>5. Cardinality(all) >= policy.minimum
    BY <1>2, <2>3, <2>4
  <2> QED
    BY <2>5 DEF all
<1> QED
  BY <1>3, <1>4

\* Samples are numbers.
LEMMA SamplesAreSampled == \A s \in Samples : Sampled(s)
<1> DEFINE Sample == [value : Nat, status : STRING, warmup : BOOLEAN, retried : BOOLEAN]
<1> SUFFICES ASSUME NEW s \in Seq(Sample) PROVE Sampled(s)
  BY DEF Samples
<1>1. \A x \in Sample : x.value \in Nat
  OBVIOUS
<1> HIDE DEF Sample
<1>2. Len(s) \in Nat /\ DOMAIN s = 1..Len(s) /\ \A i \in DOMAIN s : s[i] \in Sample
  OBVIOUS
<1> QED
  BY <1>1, <1>2 DEF Sampled

\* The result of a test is one of those of the Run.
LEMMA ResultForIsOne ==
  ASSUME NEW t, NEW results, ResultsOf(t, results) # {}
  PROVE  /\ ResultFor(t, results).test = t
         /\ \E i \in DOMAIN results : ResultFor(t, results) = results[i]
  BY DEF ResultFor, ResultsOf

\* What the gate says of a result that it neither refuses nor misses.
LEMMA ResultIsGenuine ==
  ASSUME RecordInv, AllBacked, NEW c, c = Stored(candidate), NEW t,
         ResultsOf(t, c.results) # {},
         ResultFor(t, c.results).status \notin NonPassing,
         Classification(base, c, t) \notin Disallowed
  PROVE  Genuine(ResultFor(t, c.results)) /\ Comparable(base, c)
<1> DEFINE r == ResultFor(t, c.results)
           b == ResultFor(t, base.results)
<1>1. r \in Entries /\ Backed(r) /\ r.test = t
  BY ResultForIsOne, ReadResults
<1>2. Comparable(base, c)
  BY DEF Classification, Disallowed
<1>3. CASE ResultsOf(t, base.results) = {}
  <2>1. r.status = "PASS"
    BY <1>2, <1>3 DEF Classification, Disallowed
  <2>2. r.evidence \in {"COMPLETE", "NOT_REQUIRED"}
    BY <1>1, <2>1 DEF Entries, Recordable, Evidence, EvidenceMissing
  <2> QED
    BY <1>1, <1>2, <1>3, <2>1, <2>2 DEF Genuine, Backed
<1>4. CASE ResultsOf(t, base.results) # {}
  <2>1. CompareTest(b, r) \notin Disallowed
    BY <1>2, <1>4 DEF Classification
  <2>2. r.status \notin NotEvidence
    BY <2>1 DEF CompareTest, Disallowed
  <2>3. r.status \in {"PASS", "XPASS", "KNOWN_FAILURE"}
    BY <1>1, <2>2 DEF NotEvidence, NonPassing, Entries, TestStatus
  <2>4. r.status \in {"PASS", "XPASS"} => r.evidence \in {"COMPLETE", "NOT_REQUIRED"}
    BY <1>1 DEF Entries, Recordable, Evidence, EvidenceMissing
  <2>5. ASSUME r.status = "PASS", r.unit # None, b.status = "PASS"
        PROVE  /\ Cardinality({i \in DOMAIN r.samples : ~r.samples[i].warmup})
                    >= Policy[t].minimum
               /\ ~Degraded(Policy[t], b, r)
    <3>1. MetricClass(Policy[t], b, r) \notin Disallowed
      BY <1>1, <2>1, <2>5 DEF CompareTest, NotEvidence, Disallowed
    <3>2. Policy[t] # None => Decides(Policy[t]) /\ Policy[t].minimum \in Nat \ {0}
      <4>1. t \in DOMAIN Policy
        BY <1>1, ScenesAssumption DEF Entries, Tests, ToSet, RecordInv, RunTyped
      <4> QED
        BY <4>1, PolicyAssumption DEF Decides
    <3>3. Sampled(b.samples)
      BY <1>4, ResultForIsOne, ScenesAssumption, SamplesAreSampled DEF base, RecordInv, RunTyped
    <3>4. Sampled(r.samples)
      <4>1. <<>> \in Samples
        BY DEF Samples
      <4> QED
        BY <1>1, <4>1, MeasurementsAssumption, SamplesAreSampled DEF Entries
    <3>5. r.unit = Policy[t].unit
      BY <1>1, <2>5 DEF Backed
    <3> HIDE DEF r, b
    <3> QED
      BY <2>5, <3>1, <3>2, <3>3, <3>4, <3>5, MetricSound
  <2> QED
    BY <1>1, <1>2, <2>3, <2>4, <2>5 DEF Genuine, Backed
<1> QED
  BY <1>3, <1>4

\* A Run that the gate accepts, whatever waivers are active: each of its tests is
\* waived, or has a result that is genuine.
LEMMA AcceptedIsSound == RecordInv /\ AllBacked => AcceptSound
<1> SUFFICES ASSUME RecordInv, AllBacked, NEW W \in SUBSET Waivers,
                    NEW c, c = Stored(candidate), Accepts(base, c, W)
             PROVE  /\ c.lifecycle = "COMPLETED" \/ WaivedBy(W, "RUN_NOT_COMPLETED", "run")
                    /\ c.health = "HEALTHY" \/ WaivedBy(W, "LAB_NOT_HEALTHY", "run")
                    /\ \A t \in ToSet(c.selected) :
                         \/ \E code \in {"NON_PASSING_TEST", "DISALLOWED_REGRESSION_CLASS",
                                         "MISSING_REQUIRED_TEST"} : WaivedBy(W, code, t)
                         \/ /\ ResultsOf(t, c.results) # {}
                            /\ Genuine(ResultFor(t, c.results))
                            /\ c.seen # {} /\ c.seen = base.seen
  BY DEF AcceptSound, WaivedBy
<1>1. c.lifecycle = "COMPLETED" \/ WaivedBy(W, "RUN_NOT_COMPLETED", "run")
  BY RunIssueIsWaived DEF RunIssues, When
<1>2. c.health = "HEALTHY" \/ WaivedBy(W, "LAB_NOT_HEALTHY", "run")
  BY RunIssueIsWaived DEF RunIssues, When
<1>3. ASSUME NEW t \in ToSet(c.selected),
             \A code \in {"NON_PASSING_TEST", "DISALLOWED_REGRESSION_CLASS",
                          "MISSING_REQUIRED_TEST"} : ~WaivedBy(W, code, t)
      PROVE  /\ ResultsOf(t, c.results) # {}
             /\ Genuine(ResultFor(t, c.results))
             /\ c.seen # {} /\ c.seen = base.seen
  <2>1. /\ Issue("NON_PASSING_TEST", t) \notin Issues(base, c)
        /\ Issue("DISALLOWED_REGRESSION_CLASS", t) \notin Issues(base, c)
        /\ Issue("MISSING_REQUIRED_TEST", t) \notin Issues(base, c)
    BY <1>3, TestIssueIsWaived
  <2>2. ObservedIssues(c, t) \subseteq Issues(base, c)
    BY DEF Issues
  <2>3. ResultsOf(t, c.results) # {}
    BY <2>1, <2>2 DEF ObservedIssues
  <2>4. ResultFor(t, c.results).status \notin NonPassing
    BY <2>1, <2>2, <2>3 DEF ObservedIssues, When
  <2>5. Classification(base, c, t) \notin Disallowed
    <3>1. \A u \in Unreleasable(base, c) :
            Issue("DISALLOWED_REGRESSION_CLASS", u) \in Issues(base, c)
      BY DEF Issues
    <3>2. t \notin Unreleasable(base, c)
      BY <2>1, <3>1
    <3> QED
      BY <3>2 DEF Unreleasable, Compared
  <2> QED
    BY <2>3, <2>4, <2>5, ResultIsGenuine, ComparableSeen
<1> QED
  BY <1>1, <1>2, <1>3

THEOREM AcceptanceIsSound == Spec => []AcceptSound
  BY WorkIsKept, ResultsAreBacked, AcceptedIsSound, PTL
=============================================================================
