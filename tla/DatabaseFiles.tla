--------------------------- MODULE DatabaseFiles ---------------------------
(***************************************************************************)
(* The SQLite file of a Runner, the backups beside it, and the processes   *)
(* that open, upgrade, restore and write it                                *)
(* (lib/repositories/database_migrations.py, lib/repositories/sqlite.py,   *)
(* lib/services/operational_recovery.py).                                  *)
(*                                                                         *)
(* Every service start runs initialize(), which upgrades the file.  A      *)
(* process of an earlier release may be running already and knows nothing  *)
(* of the upgrade.                                                         *)
(***************************************************************************)
EXTENDS Integers, FiniteSets

CONSTANTS Procs,   \* processes
          Absent   \* no process

ASSUME AbsentAssumption == Absent \notin Procs

VARIABLES live,     \* the file: what is checkpointed, and what readers see
          backups,  \* copies in backups/
          flock,    \* holder of the migration lock
          point,    \* where each process is
          open,     \* its connection: to the live file, to a replaced one, none
          saved,    \* the backup its upgrade would restore
          stored,   \* rows whose transaction has been answered
          window    \* those that were written past the backup of an upgrade

fileVars == <<live, backups, flock, point, open, saved, stored, window>>

\* A database: its schema, its revision row, and its rows; active: the
\* baselines that are; ledger: the legacy rows that were imported.
Image(schema, rev, rows, active, ledger) ==
  [schema |-> schema, rev |-> rev, rows |-> rows, active |-> active, ledger |-> ledger]
NoFile == Image("absent", "none", {}, {}, {})

Exists(image) == image.schema # "absent"
AtHead(image) == image.schema = "head" /\ image.rev = "head"

File(image) == [main |-> image, view |-> image]

Goto(p, to) == point' = [point EXCEPT ![p] = to]
Close(p) == open' = [open EXCEPT ![p] = "none"]

-----------------------------------------------------------------------------
(* initialize() = DatabaseMigrationManager.upgrade().                       *)

\* Mutant: upgrades are not serialised.
Unlocked_Always(p) == TRUE

Unlocked(p) == flock = Absent

Lock(p) ==
  /\ point[p] = "start" /\ Unlocked(p)
  /\ flock' = p
  /\ Goto(p, "inspect")
  /\ UNCHANGED <<live, backups, open, saved, stored, window>>

\* Integrity and revision; the lock is freed when nothing is to be done.  That
\* the inspection of a database at head fails, or finds drift in it, is left
\* out: the code would upgrade it once more, and restore it if that is in vain.
Inspect(p) ==
  /\ point[p] = "inspect"
  /\ IF AtHead(live.view) THEN flock' = Absent /\ Goto(p, "ready")
     ELSE flock' = flock /\ Goto(p, IF Exists(live.view) THEN "backup" ELSE "migrate")
  /\ UNCHANGED <<live, backups, open, saved, stored, window>>

\* An online copy under a temporary name, which is linked when it is whole.
Backup(p) ==
  /\ point[p] = "backup"
  /\ backups' = backups \cup {live.view}
  /\ saved' = [saved EXCEPT ![p] = live.view]
  /\ Goto(p, "migrate")
  /\ UNCHANGED <<live, flock, open, stored, window>>

Busy == \E q \in Procs : open[q] = "live"

\* Statements that commit by themselves; the revision row is the last.  They
\* can be repeated.
Migrated(image) ==
  IF image.schema \in {"absent", "old"}
  THEN [image EXCEPT !.schema = "mixed"]
  ELSE [image EXCEPT !.schema = "head", !.rev = "head"]

Migrate(p) ==
  /\ point[p] = "migrate" /\ ~Busy
  /\ live' = IF Exists(live.view) THEN [live EXCEPT !.view = Migrated(@)]
             ELSE File(Migrated(NoFile))
  /\ Goto(p, IF AtHead(live'.view) THEN "verify" ELSE "migrate")
  /\ UNCHANGED <<backups, flock, open, saved, stored, window>>

Verify(p) ==
  /\ point[p] = "verify"
  /\ flock' = Absent /\ Goto(p, "ready")
  /\ saved' = [saved EXCEPT ![p] = NoFile]
  /\ UNCHANGED <<live, backups, open, stored, window>>

\* A statement fails, a writer holds the file, or the result is not the schema.
MigrationFails(p) ==
  /\ point[p] \in {"migrate", "verify"}
  /\ Goto(p, "recover")
  /\ UNCHANGED <<live, backups, flock, open, saved, stored, window>>

\* Connections keep the files they have opened.
Orphaned == [q \in Procs |-> IF open[q] = "live" THEN "replaced" ELSE open[q]]

\* The fresh database is removed; an older one is replaced by the backup once
\* its -wal is gone.
Unlink(p) ==
  /\ point[p] = "recover"
  /\ live' = IF Exists(saved[p]) THEN [live EXCEPT !.view = live.main] ELSE File(NoFile)
  /\ open' = Orphaned
  /\ Goto(p, IF Exists(saved[p]) THEN "replace" ELSE "raise")
  /\ UNCHANGED <<backups, flock, saved, stored, window>>

Replace(p) ==
  /\ point[p] = "replace"
  /\ live' = File(saved[p])
  /\ open' = Orphaned
  /\ Goto(p, "raise")
  /\ UNCHANGED <<backups, flock, saved, stored, window>>

\* The recovery fails, too.
RecoveryFails(p) ==
  /\ point[p] \in {"recover", "replace"}
  /\ Goto(p, "raise")
  /\ UNCHANGED <<live, backups, flock, open, saved, stored, window>>

Raise(p) ==
  /\ point[p] = "raise"
  /\ flock' = Absent /\ Goto(p, "over")
  /\ saved' = [saved EXCEPT ![p] = NoFile]
  /\ UNCHANGED <<live, backups, open, stored, window>>

Initializing(p) ==
  \/ Lock(p) \/ Inspect(p) \/ Backup(p) \/ Migrate(p) \/ Verify(p)
  \/ MigrationFails(p) \/ Unlink(p) \/ Replace(p) \/ RecoveryFails(p) \/ Raise(p)

-----------------------------------------------------------------------------
(* An operator restores a backup, with the other processes stopped.         *)

Stopped(p) == point[p] \in {"start", "over"}

LockForRestore(p) ==
  /\ point[p] = "restore" /\ flock = Absent
  /\ \A q \in Procs \ {p} : Stopped(q)
  /\ flock' = p
  /\ \E b \in backups : saved' = [saved EXCEPT ![p] = b]
  /\ Goto(p, "keep")
  /\ UNCHANGED <<live, backups, open, stored, window>>

\* Mutant: the database that is replaced is not kept.
Kept_None == {}

Kept == {image \in {live.view} : Exists(image)}

Keep(p) ==
  /\ point[p] = "keep"
  /\ backups' = backups \cup Kept
  /\ Goto(p, "recover")
  /\ UNCHANGED <<live, flock, open, saved, stored, window>>

-----------------------------------------------------------------------------
(* Transactions, each on a connection of its own.                           *)

\* connect and BEGIN IMMEDIATE, which wait for another writer and for the
\* statements of an upgrade.
Begin(p, from, to) ==
  /\ point[p] = from
  /\ ~Busy /\ Exists(live.view)
  /\ open' = [open EXCEPT ![p] = "live"]
  /\ Goto(p, to)
  /\ UNCHANGED <<live, backups, flock, saved, stored, window>>

\* Some upgrade could still restore what it saved.
Reversible == \E q \in Procs : Exists(saved[q])

\* What was written to a replaced file is gone with it.
Commit(p, image, row) ==
  /\ live' = IF open[p] = "live" THEN [live EXCEPT !.view = image] ELSE live
  /\ stored' = stored \cup {row}
  /\ window' = IF Reversible \/ open[p] = "replaced" THEN window \cup {row} ELSE window
  /\ Close(p)
  /\ UNCHANGED <<backups, flock, saved>>

Rollback(p, to) ==
  /\ open[p] # "none"
  /\ Close(p) /\ Goto(p, to)
  /\ UNCHANGED <<live, backups, flock, saved, stored, window>>

\* SQLite moves the -wal into the file.
Checkpoint ==
  /\ live' = File(live.view)
  /\ UNCHANGED <<backups, flock, point, open, saved, stored, window>>

\* A process dies, and its locks and its open transaction with it.
Die(p) ==
  /\ ~Stopped(p)
  /\ flock' = IF flock = p THEN Absent ELSE flock
  /\ Close(p) /\ Goto(p, "over")
  /\ saved' = [saved EXCEPT ![p] = NoFile]
  /\ UNCHANGED <<live, backups, stored, window>>
=============================================================================
