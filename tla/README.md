# NetRegress Runner: TLA+ models, checks and proofs

This directory models the Runner of the Wi-Fi validation framework: how a
validation Run is launched, executed, decided, cancelled and recovered, how the
lab and its device are locked, checked, broken on purpose and flashed, what
packet captures prove, how results become baselines and release decisions, what
happens to the database file under upgrades and restores, and how finished Runs
are synchronized. TLC checks small instances; TLAPS proves invariants for all of
them. Paths below are relative to the repository; `services/` stands for
`lib/services/`.

`PROJECT.json` lists the components, the runs, a mutation of the model that
breaks each property, the source lines of each definition, the hazards of the
code and the theorems.

## 1. The system

| Component | State it keeps | Operations | What makes it correct |
|---|---|---|---|
| Launch, retry, idempotency (`dashboard/api_v1.py`, `services/api_security.py`, `services/run_process.py`) | idempotency rows, process groups, ownership records | look a key up, act, store the answer; start pytest and own its group | an answer is of its request; a repeat does not act; a live group can be cancelled |
| Run service (`services/run_service.py`, `repositories/sqlite.py`) | rows of Run, Attempt, TestResult, lifecycle events | create, transition, record health and results, complete, fail, lab-fail, cancel, abort, crash | a Run moves forward and is decided once, with the outcome its facts give |
| Run session (`tests/conftest.py`, `services/run_orchestrator.py`) | the pytest process: exit status, blocked flag, errors of the finalization | prepare, health gate, tests, finalization and its exception handler | every session that ends by itself decides its Run |
| Cancel API (`api_v1.py`, `run_process.py`) | ownership record and process group | validate, store the intent, signal, wait, settle | an acknowledged cancellation is final |
| Run and stale-lock recovery (`services/operational_recovery.py`) | none | classify orphaned Runs; mark abandoned leases | acts on what nobody owns, and only on that |
| Resource locks (`services/resource_lock.py`) | one flock and one metadata file per resource | acquire a group in sorted order, renew, release | conflicting operations never overlap, nothing leaks |
| Command execution (`services/command_runner.py`, `command_security.py`, `lib/connector.py`) | pooled connections | authorize, connect with retries, send once, audit | what a caller believes is what it may know |
| Firmware operations (`services/firmware_service.py`, `lib/adapters/`) | the device, audit events | upload, prepare, flash, reboot, verify, roll back | the log and the flash tell the truth |
| Fault injection (`services/fault_service.py`) | what is broken in the lab | apply, restore, check | a fault never outlives its context unnoticed |
| Lab health and Wi-Fi state (`services/lab_health_service.py`, `wifi_state.py`) | snapshots | probe, roll up | a broken lab is not called healthy |
| Protocol evidence (`services/protocol_evidence.py`) | none | analyze EAPOL, DHCP, DNS and beacon frames | a claim is of what happened on the air |
| Result mapping, artifacts (`services/pytest_result_mapping.py`, `artifact_service.py`) | files and rows | map phase reports, collect, verify | a test that could not show its evidence has not passed |
| Statistics, regression, waivers, gate, baselines (`domain/statistics.py`, `services/regression_intelligence.py`, `release_gate.py`, `run_service.py`) | waivers, baselines | compare, promote, decide | what is accepted was measured, genuine and no worse |
| Database, migrations, backup, legacy import (`repositories/database_migrations.py`, `sqlite.py`, `services/legacy_migration.py`, `operational_recovery.py`) | the file, its -wal, backups, migration lock | upgrade, recover, restore, import | no stored row is lost, nobody works on half a schema |
| Sync queue (`services/sync_service.py`) | rows of `sync_queue` | queue a snapshot, deliver, retry, block | nothing lost, nothing acknowledged that did not arrive, bounded retries |
| Configuration, test registry, reports, other pages, login, frontend, scripts, legacy regression scripts | sessions, files | read, render | no core state |

**How they interact.** The dashboard starts pytest as a process in a session of
its own and writes an ownership record. pytest initializes the database, takes
the lab's locks, creates the Run, looks at the lab's health and calls the run
service from its hooks; tests send commands to the lab, break it, capture frames
and store results. A cancel request runs in the dashboard, works on the same row
through its own run service, and signals the process group. Firmware operations
take the lock of the device that Runs take. Recovery runs anywhere. The only
shared memory is SQLite: each repository call opens a connection and commits by
itself, and `SQLiteRunRepository.update` writes *all* columns of an object read
earlier. At its end the session queues a snapshot, which separate
`scripts/netregress_sync.py` processes deliver. The release gate reads rows that
all of these have written.

**What is hard.** Whole-row writes of stale copies; requests against the
finalization and against each other; a lookup, an act and a record that are
three transactions; commits that are separate where a reader expects one; a
process that dies between two of them; metadata and files that are read twice
and may have changed; a command whose answer is lost, and a device that goes on
after it has answered; a restoration that fails half-way; a file that is
replaced under open connections; captures with gaps; claims and leases that
overlap; late failures. `PROJECT.json` lists each hazard at its line with the
properties that watch it, or the reason why none does.

## 2. The modules

| Module | Models | Extends |
|---|---|---|
| `ApiRequests` | deliveries of state-changing requests, the idempotency store, the start of pytest | |
| `BusinessOutcome` | `derive_business_outcome`, as operators | |
| `RunContract` | abstract: what the row of a Run promises its readers | |
| `RunService` | the run service's operations, one action per repository call | `BusinessOutcome`, instance of `RunContract` |
| `RunSession` | pytest, cancel handlers, process table, recovery around one Run | `RunService` |
| `Exclusion` | abstract: mutual exclusion of conflicting operations | |
| `ResourceLock` | locks, metadata, leases, stale-lock recovery | instance of `Exclusion` |
| `Commands` | what one command may have done and what its caller may learn | |
| `FirmwareOperation` | updates and rollbacks on one device | `Commands` |
| `FaultContext` | a Run's health gate and its fault context | `FirmwareOperation` |
| `LabSite` | Runs and firmware operations on one device and its lab | `FaultContext` |
| `ProtocolEvidence` | peers, a sniffer that misses frames, and the analyzers | |
| `Comparison` | statistics, regression classes, release gate, promotion, as operators | `BusinessOutcome` |
| `DatabaseFiles` | the database file, upgrade, recovery, restore, connections | |
| `Records` | a session, promotions and imports whose rows the gate reads | the three above |
| `SyncQueue` | queueing and delivery of envelopes | |
| `MC*` | values of the constants for TLC | their module |
| `*Proofs` | theorems and their proofs | their module, `TLAPS` |

### ApiRequests

Each element of `Deliveries` is one HTTP request. `pc[r]` is where its handler
is: `lookup` (`LookupConflicts`, `Replay`, `Miss`), `act` (`Perform`, or `Spawn`,
`WriteManifest`, `StartReaper` and `StartFails` for the launch of pytest),
`store` (`Insert`) and `reread` (`Accept`, `PutRaises`). `row[s]` is the row of
an endpoint and key, with the hash of the request and the effect its answer
names. `DELETE` of expired rows runs on a connection that is closed without a
commit, so an expired row hides from the lookup and yet blocks the `INSERT OR
IGNORE`. `Restart` loses the handlers and the reaper threads, not the process
groups. `known[r]` remembers which effects of its key had been answered when
`r` looked it up, `lapsed` which keys have expired: both are for the properties.

### RunService and RunSession

`row`, `attempts`, `results`, `events` are the tables for one Run (and its one
Attempt: `create_attempt` has no caller). `call[c]` is the service operation
process `c` executes: its name, the repository call it makes next (`stage`) and
the copy of the row it read. So `_finish` is `FinishRead`, `UpdateRun`,
`ListOpenAttempts`, one `CloseAttempt` per Attempt and `AppendEvent`, and any
step of any process may come in between; `RepositoryFails` ends an operation at
any of them with an exception.

`ctl[p]` is where a process is in its own code. The actions of the worker are
the steps of the conftest hooks between two calls of the run service, named for
what they do (`Launch`, `CheckBefore`, `Gate`, `PublishPid`, `RunTest`,
`CheckAfter`, `Decide`, ...); the actions of a handler are those of
`cancel_run` (`ReceiveCancel`, `Validate`, `IntentStored`, `Signal`, `Kill`,
`CancelStopped`, `Settle`, `Reply`). `group` and `manifest` are the process
group and its ownership record; `acked` remembers that a request was answered
with 200 and CANCELLED. A result is reduced to the fields the outcome depends on.

### ResourceLock

`flock[r]` is the kernel's lock, `meta[r]` the JSON file, `leases[a]` what a
process believes it holds. `acquire_many` is `Request`, then `Lock`,
`Truncate`, `Write` per resource in sorted order, or `Refuse` (timeout 0) or
`WriteFails`; release is `Release`, `Clear`, `MarkReleased` or `MarkFails`, and
`Unlock` per resource. A process may `Die` anywhere: the kernel unlocks, the
file stays. The metadata names its owner by PID only, and recovery asks
`os.kill(pid, 0)`: `reused` are the dead processes whose PID another process has
for now (`ReusePid`, `FreePid`), and `OwnerAlive` takes them for alive. Recovery is a process whose read, probe, second lock, mark and
unlock are separate steps. Resources are numbers because the code sorts them.

### Commands, FirmwareOperation, FaultContext, LabSite

`Executed` is the set of outcomes of one command: how often the node received
it, whether it had its effect, and what the caller sees. Netmiko has no exit
code, so an answer does not mean success; Paramiko has one; a lost answer leaves
everything open; a refused or unreachable command was not sent; where commands
are audited the audit record may fail after the effect.

`at[p]` is where an operation is. An update registers, validates, takes the
lock, uploads, compares, prepares, flashes, reboots, waits, verifies and
finalises; each step names the read of the file or the device it makes, and
`digest[p]` is the digest it holds in a variable meanwhile. `StepRaises` is the
exception of any of them, before or after the step's event was stored. The
device works on by itself: an accepted flash is `pending` until `Upgrade` writes
it and reboots, a reboot forgets `/tmp` and what was pending (`Down`), `Boot`
starts what is installed. `Rebuild` rewrites the image file. So an operation
that reported an error can still reboot the device under a later holder of its
lock.

A Run (`CheckLab`, `Admit`, `Enter`, `Apply`, `Body`, `Restore`, `Check`,
`Exit`) looks at the lab, and has one test with one of the seven faults of the
code. `broken[e]` is how often effect `e` of a command is in the lab: a rule that
`iptables -I` has added twice needs two `-D`, the others are there or not. Each
fault is its commands with what they add and clear; `dhclient` does neither.
`associated` is whether the client is associated. `Cuts` end an association and
keep the client from another; when none is there it associates again by itself.
A wrong PSK is not one of them. `wpa_cli set_network` changes the configuration
and leaves an associated client associated, so the PSK matters only after
something else has cut the association, which is why `wrong_psk` disconnects
first. Where that `disconnect` is answered and has no effect, the client keeps
its association with the wrong PSK configured, and no check of the code sees it
until the next cut. A supplicant that is started again reads its file, hence the
right PSK. `Views` is what `wpa_cli` and `iw` say, `Connected` is
`assess_wifi_association`, and the DHCP and DNS checks see only what they look
at. A Run that dies leaves `broken` and `associated` to the next one.

### ProtocolEvidence, Comparison, DatabaseFiles, Records

`air` is what stations, access points and servers really sent, `heard` the part
the sniffer caught, `truth` what each of them really did. Peers are honest and
retransmit, restart, and answer late; the analyzers (`HandshakeIsComplete`,
`OrderedDora`, `Extended`, `Correlated`, `BeaconAccepted`) read only `heard`.
`Claimed` is what the capture tests assert of them (DHCP in
`tests/test_packet_capture.py:302`, the others in `tests/test_protocol_capture.py`),
without the assertions on data that frames do not have here: the address of the
acknowledged lease, the resolved addresses and the client's own lookup, a
beacon's channel and interval. A test may also fail for any other reason, so leaving
them out lets more tests claim an exchange, never fewer.

`Comparison` has no variables: eligible samples, decision values and deltas in
scaled integers, the classes of `regression_intelligence.py`, the issues of
`release_gate.py` and which a waiver covers, and `promote_baseline`'s checks.
A percentile is defined by ranks (`Ranked`: the least value with k values up to it)
and the mean by a recursive function, which is what `sorted` and `fmean` compute and
what can be reasoned about.

`live` is the database: `main` what is checkpointed and `view` what readers see
with the -wal. `Initializing` is an upgrade under the migration lock: `Backup`,
then statements of `Migrate` that commit one by one, `Verify`, and on a failure
`Unlink` and `Replace`, either of which may fail or be the last step of a process.
Connections keep the file they opened (`open[p] = "replaced"`). `stored` are
the rows whose transaction was answered; `window` are those of them that were
written while an upgrade past its backup could still restore it, which only a
process of an earlier release does (it does not take the lock).

`Records` composes the three. A scene says what each process is (a session, a
promotion, an import, an operator's restore, a process of an earlier release)
and which file and baseline they find; `Captures` says of each test what it
captures, if anything. The session captures or measures its tests one by one, maps
pytest's reports (`Mapped`), weighs its evidence (`Trusted`), records and
completes; the gate's verdict is read from the rows when the session is over.
`proved[t]` keeps, for the properties, what the capture of a test claimed and
whether it happened.

### SyncQueue

`queue[e]` is the row of an envelope, `pass[s]` the locals of `sync_pending`
in process `s`, `remote` what the endpoint accepted. Every SQL statement is an
action: `claim` is `ClaimRead`, `ClaimUpdate`, `ClaimReturn`, because the
repository opens no transaction around them. `PublishFails` includes the answer
that is lost after the remote accepted. `DeliveryFaults` is a repository call
inside the `try`, whose failure the code handles as a failed delivery; `Stop` is
one outside it, or the death of the process. A lease is running or expired and
a retry due or not; the clock may move them at any time.

## 3. The runs

| Run | Instance and bounds | What it shows |
|---|---|---|
| `session_faults` | 2 tests, each a blocking PASS, a blocking FAIL or an advisory FAIL, 1 cancel request, 1 failing call, 1 crash or restart | `RowConsistent`, `OutcomeMatchesFacts`, `CleanExitSettles`, `NoLostUpdate` hold and the row implements `RunContract` |
| `session_cancel` | 1 test, 2 cancel requests, 1 crash or restart, fairness | `CancelAckSound`, `FinishEventsAgree`, `ImplementsContract`, `EventuallyDecided` |
| `session_blocked` | 1 test, no failure | **violated**: a lab FAILED before the tests leaves ABORTED, not LAB_FAILED, when it recovers and pytest exits with 0 |
| `session_orphan` | 1 crash, fairness | **violated**: a dead worker's RUNNING Run is never classified |
| `locks` | a Run and a firmware operation, 2 resources, fairness | `LeasesAreLocked`, `AllOrNothing`, `HolderMetadata`, `RequestDecided`, `AbandonedRecovered`, and `Exclusion` is implemented |
| `locks_stale` | a Run and a firmware operation, 2 resources | **violated**: recovery marks metadata that a live owner has just written |
| `sync` | 2 syncers, 2 envelopes, budget 2, passes of 2, 1 fault, fairness | `AckedWasAccepted`, `BlockedSpentBudget`, `EventuallySettled` |
| `sync_budget` | 2 syncers, 1 envelope, budget 2 | **violated**: the budget is spent and the envelope still retryable |
| `requests` | 3 deliveries, a launch and a promotion key, 2 payloads, 2 at a time, 1 restart (symmetry) | `AnswersAreOfTheRequest`, `RepeatsDoNotAct`, `LiveGroupsAreOwned`, `StoredAnswersAreKept` |
| `requests_twice` | 3 deliveries of one request, one at a time | **violated**: after its record expired, every delivery launches again |
| `lab_site` | an update beside a rollback, an update beside a Run, two Runs; 3 images of 2 versions, 2 rewrites of the file, 1 event that cannot be stored, all 7 faults, deaths anywhere | `VerifiedVersionRuns`, `FlashedAsDeclared`, `MutationsAnnounced`, `NeverResent`, `NoMutationDuringARun`, `NoSilentResidue`, `HealthyLabIsMended` |
| `records` | 2 processes in about 30 scenes: captures of 3 to 5 frames, a Run with a capture and a measurement, 8 measurements against 8 baselines with a latency or a throughput policy, every pair of promotion and import on an old or a missing file, a process of an earlier release, a restore | `ClaimsAreExact`, `AcceptSound`, `FilesAreConsistent`, `StoredRowsSurvive`, `ServesAtHead` |

The passing runs of this table are exhaustive: about 149 thousand distinct states
for `requests`, 835 thousand for `records`, 1.9 million for `lab_site`.

**Why the bounds are enough.** A hazard here needs two actors and one thing
that goes wrong: one failed call or one crash puts each operation at each of
its prefixes, and two cancel requests give every pair of deciders (pytest,
handler, handler, recovery). Two tests are needed for the order of the
selection and for partial results. Two resources are the fewest for a partial
group, and two owners the fewest for a conflict. With a budget of 2 an envelope
can be retried once and blocked; two syncers give every overlap of a claim with
another claim, ack or fail. Three deliveries are two that overlap and one that
comes later, two payloads and two keys the fewest that can be confused. Two
rewrites of the image file are one more than the guarantee of `FlashedAsDeclared`
allows, so that its exception is reached. A Run that is killed and one after it
are enough to stack the rules of `dns_block`. A handshake needs 4 frames, an
exchange with a restart 5. A measurement needs 2 samples for its policy and a
third for the warm-up. Two processes give every pair of upgrade, recovery,
transaction and death. `MaxFaults`, `MaxCrashes`, `MaxRestarts`, `Threads`,
`MaxRebuilds`, `MaxStoreFaults`, `MaxFrames` and the saturating attempt count of
`SyncQueue` (a count above the budget behaves like the budget) are the only
bounds inside the modules.

`CHECK_DEADLOCK FALSE` is set where the system may rest: a decided Run, requests
that were all answered, operations that are over, a queue without work.

**Fairness.** Weak fairness of each process: the operating system schedules
pytest and the dashboard's threads, and each call returns (SQLite's busy timeout
ends in an exception). Nobody is forced to cancel, fail or crash. For
`OrphanClassified` and `AbandonedRecovered` recovery is run again and again, and
`AbandonedRecovered` asks for more: at some time the lab is no longer used and no
process has the PID of a dead owner any more (nothing forces that one to end); for
`EventuallySettled` the sync command is, and time passes. The repository has no
scheduler for either: they say what an operator who repeats the command gets.
The transport of `SyncQueue` has no fairness, it may fail for ever. The other
modules state safety only: a request, a firmware operation or an upgrade is
a finite sequence of calls with nothing to wait for.

A limit smaller than the queue is left out of `sync` on purpose: with passes of
one envelope, two syncers that keep racing for the oldest can starve the next
one for ever. A pass of the CLI takes 20.

## 4. What the runs found

1. `session_blocked`: `docs/02` section on the health gate promises LAB_FAILED
   for a lab that fails its check; `tests/conftest.py:457` only sets a flag and
   relies on the second check. If the lab has recovered by then and pytest exits
   with 0, `complete_run` is refused from LAB_HEALTH_CHECK and the handler of
   the finalization records ABORTED with WORKER_CRASHED. An interrupt or a
   cancel request ends such a Run in another way; the property excludes them.
2. `session_orphan`: `_pid_alive` (`operational_recovery.py:274`) answers yes
   for a process that does not exist, so orphaned Runs stay RUNNING. The test of
   recovery replaces this function. (With the probe repaired, the mutant
   `PidAlive_Probe` shows that recovery would then race with the cancel handler
   that killed the worker: two terminal events. A repair needs a guard there.)
3. `locks_stale`: recovery decides from metadata it read before it had the lock.
   It never touches a lease in use (`HolderMetadata` holds and is proved), but
   the RELEASED record of a live process may become RECOVERED.
4. `sync_budget`: `claim` checks the state and takes the lease in two
   statements, and `fail` decides from the claimed count, so an envelope is
   retryable after its budget was counted.
5. `requests_twice`: an expired idempotency row is never deleted for good and
   never replaced (`services/api_security.py:64-87`). From the hour its record
   expires, every delivery with the key starts pytest again and is answered 500,
   because `put` finds its own row missing after the launch.

Seen while modelling, and not refuted by a run of their own:

- Results may be recorded for a Run already decided (`record_test_result` does
  not look at the lifecycle). A set-up failure after `prepare`
  (`conftest.py:397`) leaves the Run in an active state for good, which
  `CleanExitSettles` and `EventuallyDecided` except as a fault. A failing
  `SYNC_DELIVERED` append makes an acknowledged envelope FAILED, to be sent again.
- Overlapping deliveries with one key all act (lookup before, store after), and
  all but the first stored are answered with their own response all the same.
  `RepeatsDoNotAct` says what is left of the promise.
- The release gate never looks at the business outcome: a Run whose tests are
  XPASS or KNOWN_FAILURE can be accepted (docs/05:65, :95). It takes any Run id for a
  baseline, a base value of 0 makes an improvement a SOFT_REGRESSION, and a
  NEW_PASS is accepted without its measurement policy. `AcceptSound` is stated
  against what passed in the baseline for this reason.
  `scripts/ci_release_gate.py` passes the caller's environment class for both Runs.
- A waiver whose `expires_at` has no time zone (`api_v1.py:541` accepts it) makes
  every later gate answer 400.
- A required health check that raises is UNKNOWN, which only degrades the lab:
  the Run is admitted. The checks cannot see a blocked TCP port 53, a stopped
  DHCP server, or a wrong PSK under an association that was never cut;
  `HealthyLabIsMended` names the three. The last is what a Run leaves that is killed
  after a `disconnect` without effect and a `set_network` with one. The restoration
  of `wrong_psk` does not see it either: its check is the association
  (`NoSilentResidue` promises the association and what it needs, not the PSK).
- With no pinned SHA-256 the image that is flashed need not be the one that was
  validated and recorded; with one, a file rewritten twice passes `prepare` and
  `flash`. `FlashedAsDeclared` says so. An operation refused for an invalid image
  leaves VALIDATED as its last state. A reflash of the version that runs cannot
  be told from no flash at all. The lease of a firmware operation (900 s) is
  never renewed; exclusion rests on the kernel's lock.
- A DHCP renewal is claimed also when only the rebinding was answered (docs/02:328),
  and the DHCP test accepts any client's exchange.
- A process killed between `Unlink` and `Replace` leaves the -wal's rows in the
  backup only. `StoredRowsSurvive` counts backups for this reason.
- An inspection that fails or finds drift in a database at head
  (`database_migrations.py:195`) is not told from one that is behind: the upgrade
  backs it up, and restores the backup when the second inspection fails too, also
  under processes that serve. See section 6.

## 5. What is proved

All theorems hold for every value of the constants that satisfies the `ASSUME`s
of the module (finite sets are assumed only where the code has a list).

**RunSessionProofs.** `TypeCorrect` and `RowsAreConsistent`. The row alone is not
inductive: a process may hold a copy it will write later. `SessionInv` adds that
*every* copy held for writing is consistent too, that `_finish` only carries an
outcome that fits the operation (`complete` may validate, `fail` never does),
and which operations the worker, the handlers and recovery can be executing.
`RunServiceProofs` proves once that a step of the service keeps this for any
caller; `RunSessionProofs` then has one lemma per kind of process.

**RunDecisionProofs.** `ContractImplemented` (the session implements
`RunContract`), `NothingIsLost`, `CancelIsSound`, `EventsAgree`, `VerdictsStand`,
and `CleanExitsSettle`.
Every process reads and writes whole rows, so the first five say that no stale copy is
ever written. `DecisionInv` gives the reasons: `Roles` (pytest is the only writer while
it lives; a handler cancels only when it has seen pytest gone, for it removed the
process group or found none; recovery never acts), `Fresh` (a copy held for
writing is a legal next row of the row as it is *now*, and two handlers hold the same
one), `Finishing` (the row already holds the decision whose event is still to be
appended) and `Facts` (health and results do not change between deriving an
outcome and writing it, and nothing is recorded after a decision). One lemma per
repository call and per kind of program step shows that each keeps it.

`CleanExitsSettle` says that pytest has closed its attempts and appended one
terminal event when it is gone. `CleanInv` gives the books of its call: no terminal
event before the decision, the attempts still to be closed while `_finish` closes
them, exactly one event after; that nothing pytest tries without a failed call is
refused (`Progress`, `PathAt`), its failure handlers included; and that a handler
leaves the request it answers in the log (`Asked`), so that nobody else decides a
Run that is not asked to end.

**ResourceLockProofs.** `LocksExclude`, `GroupsAreWhole`, `HoldersAreNamed`,
`TypeCorrect`, and `LocksImplementExclusion`: the protocol implements `Exclusion`.
The invariant `IInv` adds what each program counter says of the resource in
hand (`WorkInv`), that recovery holds the lock of the file it marks
(`RecoveryInv`), and that the files locked so far belong to their owner
(`MetadataInv`). Expiry appears nowhere in it: exclusion rests on the kernel's
lock, not on the lease time nor on who seems alive.

**SyncQueueProofs.** `AcksAreSound`, `BlockedIsJustified`, `TypeCorrect`. The
invariant adds that a claim's count is never ahead of the row's (`CountInv`) and
that a syncer about to acknowledge was answered (`AckInv`). `PassStep`,
`GotoStep` and `ContinueStep` state once what any move of a syncer must keep.

**ApiRequestsProofs.** `AnswersAreSound`, `RepeatsAreHarmless`, `GroupsAreOwned`,
`AnswersAreKept`, `TypeCorrect`. The invariant adds that the row of a key names an
effect that took place, for the payload whose hash it has; that a key whose
answers are known still has its row, live until it lapses; and that a
handler past its lookup holds what it looked up. `AnswersAreKept` is an action
property from it.

**LabSiteProofs.** `MutationsAreAnnounced`, `NothingIsResent`, `OnlyDeclaredImages`,
`ResidueIsTold`, `RunsAreUndisturbed`, `GateSeesResidue`, `VerifiedRuns`,
`TypeCorrect`. One
invariant places every operation (who is past `lock` holds the lock, and at
most one does), one follows the digests (what has been compared equals the
declared image as long as the file was rewritten at most once since), one follows
a fault context command by command (the effects still broken are those the rest of the
restoration clears, or the error is told), `AssociationInv` relates the
association to the effects that cut it, and `GateInv` says that between the
snapshot and the tests nobody else touches the lab. Runs are only undisturbed
because all of them share the lock. `VersionInv` is for `VerifiedRuns`: before the
update sends its command the device runs what it ran, whatever rollbacks are late;
afterwards it still runs that or nothing is pending any more, so the version that was
read cannot change under the lock. The two conditions of the property are needed: an
update to the version that runs already reads nothing new, and the lock does not
stop the late flash of another update, whose image may differ from the declared one.

**RecordsProofs.** Four parts, each for any number of processes, in any scenes that
satisfy `ScenesAssumption`: what its conjuncts say of a file is what the unique index
on active baselines (`schema_base` in `alembic/versions`) and the refusal of rows that
are there without a ledger entry (`legacy_migration.py:432`) leave, and ids are UUIDs.

- *The file.* `FilesAreKept`, `EveryoneServesAtHead`, `RowsSurvive`. `FileInv` adds
  that whoever changes the file holds the migration lock while nobody of this release
  serves, that the backup of an upgrade in progress exists and holds every stored row
  outside the window, and that open connections are to a file that is there.
- *What is in it.* `WorkIsKept`, `RecordsAreTyped`, `FilesStayConsistent`.
  `RecordInv` adds what each process works on at each point (a test that has no result
  yet, a result a TestResult can be, a Run whose row is in the database), that who holds a
  lock, a connection or a copy is at a point that does, and that every image, also one
  that is a backup, is sealed: one active baseline whose promotion is over and whose
  Run came with it. Without the last a restore could bring a half-written state.
- *What a capture proves.* `EvidenceIsKept`, `ClaimsStayExact`, `ProofsAreTrue`.
  `EvidenceInv` follows, per protocol and station, what is on the air (how often
  each message was sent, with which number, in which order), of which the sniffer has
  heard a part, in its order; `Handshakes`, `Leases`, `Answers` and `Beacons` relate
  that to where the peer is. The loop of `analyze_dns` is unrolled one frame at a time.
- *What the gate accepts.* `ResultsAreBacked` (a recorded PASS on a capture rests on
  an exchange that took place) and `AcceptanceIsSound`. Two facts carry it:
  `DecisionBounds`, by which the decision value lies between the least and the greatest
  sample that counts, for the mean, the median, the percentiles and the extremes;
  and `DegradedDelta`, by which a test whose samples are all worse by the threshold has
  a delta at least as large, roundings included. It assumes that samples are not
  negative and that policies decide by one of those six aggregates: the registry
  measures durations, rates and shares, by P95 and mean (`test_registry.py:185-271`). A
  threshold above 100 % cannot be reached from a baseline of 0, whose delta the code fixes
  at 100 % (`regression_intelligence.py:414`); `Degraded` says so.

Induction over the naturals is done by least counterexamples (`LeastNatural`,
`RecursionExists`), which needs no operator parameter. SelectSeq, SortSeq and folds
are opaque to the provers, so the modules proved about use recursive functions and sets.

Only model-checked: liveness (`EventuallyDecided`, `RequestDecided`,
`AbandonedRecovered`, `EventuallySettled`; fairness and ENABLED are out of the
prover's reach). Every safety property that a passing run checks is proved.

## 6. What is not modelled

- Attempt and Run timestamps other than `started_at`'s presence; the payload of
  envelopes; the wording of reasons and events' details.
- `create_run` that fails: it leaves no row and pytest ends.
- Loss of committed transactions at a power failure (`synchronous=NORMAL` in WAL
  mode), integrity checks that fail, the pruning of backups, and a crash of the
  lock recovery process itself.
- `timeout_run`, `runner_disconnected`, `fail_run(PRODUCT_FAILED)`,
  `create_attempt`: nothing but tests calls them. `RunContract` admits what they
  would store.
- Reuse of a PID in `RunSession`: the ownership record of a Run holds the start
  time and refuses it. The metadata of a lock does not, and there it is modelled.
- An inspection of a database at head that fails (`sqlite3.DatabaseError`,
  `database_migrations.py:195-198`) or finds drift, foreign key violations
  included: `Inspect` takes such a database to be up to date. In the code it is
  backed up, upgraded to what it is already and, if the second inspection fails
  too, replaced by its backup, and rows that other processes commit after the
  backup are lost. `StoredRowsSurvive` and `ServesAtHead` hold for inspections
  of a database at head that succeed.
- The lock of the Run and its row in one model: `prepare` takes the lock before
  it creates the row, and neither reads the other. Likewise the idempotency
  record and the Run it launches: `ApiRequests` and `RunSession` meet in the process
  group and its record, which both have.
- Queueing as a step of `RunSession`: it follows the decision, reads only, and a
  worker that is killed simply never queues (no fairness on `Enqueue`).
- Firmware: board names and signatures of images (they do not change during an
  operation), and the transports below one command.
- Commands: the string rules of the policy, and the pool's reuse of connections.
- The gate's waivers are given to it; requesting, approving and expiring one is
  not modelled. Flakiness, trends and confidence intervals decide nothing.
- Parsing: pcap fields, `wpa_cli` output, telemetry, configuration.
- The login limiter (`services/api_security.py:130`): it checks and then appends
  without a lock, in the memory of one process. What a request may do is decided
  before it reaches a handler of `ApiRequests`.
- The components listed as `not_modelled` in `PROJECT.json`, each with its reason.

## 7. Plan

Done: every component with core state has a module and a run, and every safety
property of a passing run is proved. What is left, in this order:

1. Waivers as rows with their approval and expiry between check and use.
2. The inspection that fails at head, with the rows a restore then loses, in
   `DatabaseFiles`: a file replaced under processes that serve needs another `FileInv`.
3. The pool of SSH connections that are shared, found dead and opened again.
4. The login limiter and the session table.
5. Proofs about the pure operators that no state property names:
   `DeriveFromResults` against its order of decisive results, `Mapped` against the
   phases pytest reports.

Theorems worth proving are the ones about stale copies: they are what an
instance of two processes convinces least of.
