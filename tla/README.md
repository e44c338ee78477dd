# x-backup: verification project

TLA+ models of x-backup, the backup tool for MongoDB, PostgreSQL, MySQL and
files in this repository (`src/` below is the repository; its Rust code is in
`src/src/`). The modules are checked with TLC on small instances, and the
results that matter most are proved with TLAPS for every value of the
constants. `PROJECT.json` has the machine-readable side: components, runs, the
mutants that show that each property can fail, the map from definitions to
source lines, findings, hazards and theorems.

## 1. The system

x-backup is a command line program (`backup`, `restore`, `prune`, `verify`,
`list`, `status`, ...) and a web console (`web`) that starts the same commands
as child processes. There is no server and no database of its own: all state is
files.

| Part | State it keeps | Operations | What is hard |
|---|---|---|---|
| Lock (`lock/file_lock.rs`) | one `<profile>.lock` file with pid and host | acquire, classify a stale holder, reclaim, release | several file system calls per operation, no atomic check-and-remove; crashes; pids reused; shared directories |
| MongoDB chain (`pipeline/backup.rs`, `pipeline/incremental.rs`, `engine/mongo`, `engine/native`) | manifests with oplog ranges in the destination | full dump, incremental capture of the oplog, promotion to full on a gap, point-in-time restore | the server goes on writing and trimming its oplog between any two queries; transactions of several entries |
| PostgreSQL chain (`pipeline/backup.rs`, `engine/postgres`, `pipeline/pg_pitr.rs`) | manifests, and a replication slot on the server | full dump with a new slot, peek, save, advance, promotion, restore | two stores (destination, slot) that cannot be changed together; a slot may be invalidated at any time |
| MySQL chain (`engine/mysql`, `pipeline/mysql_pitr.rs`) | manifests with binlog coordinates | full dump, binlog capture, restore | the read lock around the snapshot may be refused, and is gone when the tables are read; binlogs are purged |
| File engine (`engine/file`) | manifest, data and an index of the tree | full, incremental against the index, restore | files change while they are read |
| Destination and retention (`manifest`, `storage`, `pipeline/prune.rs`) | per backup up to four files | write data, manifest, sidecar; clean up; plan and execute a prune | deletion file by file, and a crash or an error between any two |
| Restore, verify (`pipeline/restore.rs`, `verify.rs`, `manifest/chain.rs`) | none | chain verification, replay | what the other parts left behind |
| Console: jobs (`web/routes/backup.rs`, `web/job`, `web/state/jobs.rs`, `web/reattach.rs`) | an append-only index of start and end records, logs, live handles in memory | submit, wait, cancel, reattach after a restart | processes outlive the console; cancel, wait, crash and pid reuse in any order |
| Console: scheduler (`web/schedule`, `web/state/schedules.rs`) | schedules on disk in two generations, cursors in memory | tick, judge, fire, record; edit | stalls, restarts in the middle of a tick, edits against a copy |
| Console: live monitor (`web/routes/monitor.rs`, `web/state/monitor.rs`) | one shared child, a viewer count, the last frame | subscribe, claim, read, watch, release | atomics and tasks of several requests interleave |
| Console: probe cache (`web/cache.rs`, `web/routes/dashboard.rs`) | one slot per key with a gate and a TTL | fetch, invalidate, time out | invalidation against a producer under way; dropped requests |
| Console: SSE (`web/sse.rs`) | snapshot and broadcast channel per job | publish, subscribe | a subscriber between snapshot and channel |
| Console: configuration (`web/config_write.rs`, `web/routes/config.rs`) | the configuration file and its backups | fill in a form, post it, read, render, validate in a child, replace | pages older than the file, two editors, an external editor |
| Console: destructive jobs (`web/guard.rs`, `web/routes/prune.rs`, `restore.rs`, `migrate.rs`) | tokens of plan pages in memory, audit lines | draw a plan page, submit it, start the child | the plan is made three times (page, submission, child), each an await apart |
| Console: job history (`web/state/jobs.rs`) | a log file per job and the index | append, retry, rotate, rebuild | lines cut off by a crash, an index that was removed, a rebuild that outlives its caller |
| Console: cron expressions (`web/schedule/cron.rs`) | none | next due minute | bounds of days, years and leap years; numbers that wrap |
| Daemon cron (`schedule/mod.rs`) | none | next due time, run one after another | numeric edges of calendars |
| Rest: CLI, output, i18n, views, authentication, crypto, compression, status queries, migration, self update | none that outlives a command | | data and presentation |

How they interact. Every command that changes the destination of a profile
first takes the profile's lock, so full backup, incremental backup and prune of
one profile are sequential with respect to each other; the console adds its own
guard (409 while an entry of the index is running). The chains and the prune
share the manifests: `select_base` reads what a prune, a cleanup or a crash
left. The console and its jobs share pids, signals and the index; the scheduler
starts jobs through the same path as a request; a job that has ended
invalidates the probe cache. MongoDB, PostgreSQL, the kernel and the clock are
external: they act between any two steps of the code.

What makes each part correct:

- Lock: two commands never run on a profile at once; a guard releases its own
  lock only.
- Chains: every increment continues where the chain ended; restoring a chain
  brings back every write up to its end; restoring to a moment brings back
  exactly what had happened by then.
- Retention: an increment never loses its base; what remains can be restored;
  the rules keep what they promise, at every step of a prune.
- Jobs: no foreign process is signalled, every child is collected, an entry is
  closed only when its process is gone, and it is closed in the end.
- Scheduler: a due minute fires at most once, nothing is made up for after a
  stop or a long stall.
- Monitor and cache: one child at a time, ended when nobody looks, nothing stale
  is shown as new.

`PROJECT.json` lists the hazards behind these at their lines.

## 2. The modules

One module per component, an `MC` module where TLC needs definitions for its
constants, a `Proofs` module where there are theorems. Four `MC` modules put
components that share no state into one run: a variable `part` says which of
them a behaviour is about, and the others stand still (`MCCommands`, `MCStored`,
`MCConsole`, `MCConsoleState`; `MCLive` does the same for the liveness
properties and asks for fairness of that part only). This costs the sum of the
state spaces and not their product.

| Module | Models | Variables against the code |
|---|---|---|
| `FileLock` | `lock/file_lock.rs` | `file` is the lock file (creator, JSON complete or not), `pc` the place of a process in `acquire_in`, `seen` what `read_holder` returned |
| `MongoChain` | full and incremental MongoDB backups, `select_base`, `verify_chain`, `run_pitr`, `apply_stream` | `log`/`low` the oplog and its oldest entry, `txn` a transaction of two entries, `backups` the manifests, `stage`/`cur` the place and the locals of the running command |
| `PgChain` | full and incremental PostgreSQL backups, `run_pg_pitr` | `wal` the committed transactions, `slot` the replication slot, the manifests of the destination |
| `MysqlChain` | full and incremental MySQL backups, `run_mysql_pitr` | `binlog` the committed transactions by file, `purged` the files that are gone, `readLock` FLUSH TABLES WITH READ LOCK, `mysqlRun` the locals of the command; history: `snap`, `read` when a dump took its snapshot and had read its tables |
| `FileChain` | full and incremental backups of a tree, `file_chain_restore` | `tree` the files as the index sees them, `fileDest` manifests with index and slice, `fileRun` the backup being made |
| `PgRestore` | `write_archive_in_snapshot`, `decide_guard`, `restore_into` | `objects`/`copies` the target database, `frames` what is still to be read, `ddl` the statements that wait |
| `BackupCommand` | the `backup` command from its first check to its exit code: hooks, gate, lock, `store_dump_stream`, `write_manifest_or_cleanup`, promotion mark, `replicate_artifact`, record | `stored` the objects of each backup in each destination, `command` the locals |
| `Retention` | the files of the backups, `plan_prune`, `execute_prune`, `cleanup`, `select_base` | `store[i].files` the files of backup i, `todo` the rest of the plan, `pc` the file the running command is at |
| `ConfigSave` | forms of `config.toml`, posted key by key by pages and editors, their saves, and the conversion to version 2 | `config`, `bak` the file and its generations, `saver` each save, `shown` what its page was drawn from; history: `intended`, `older`, `putBack` |
| `WebJobs` | submit, spawn, record, wait, cancel, abandon, reattach | `os` the process table, `index` the folded history, `task`/`cancel`/`watch` the tasks of the console per job, `scan` the startup scan |
| `JobHistory` | `JobStore` and the rebuild at a start | `logFile`, `jobIndex` the lines of the files, `writer` the task that records a job, `rebuild` the locals of `rebuild_index_blocking` |
| `ConfirmFlow` | plan pages, `DestructiveGuard`, apply handlers and children of restore, prune and migrate | `pages`, `tokens`, `submit` (the handlers), `children`, `auditLines`, `facts` what the dry runs look at |
| `Approval` | the promise of the guard, abstractly | `status` the life of each approval |
| `SseHub` | `JobHub`, the two relays, the waiter, a cancellation, the page's script, removal of the hub | `snapshot`, `channel`, `relay`, `completion`, `page` |
| `Scheduler` | `scheduler_loop`, `ScheduleClock`, `ScheduleStore` | `schedSnap` the registered schedules, `cursor` the clock's cursors, `tick` the locals of one tick |
| `ScheduleFile` | the two generations of `schedules.json` | `main`, `prev`, `corrupt` the files, `store` the memory, `writeLock`, `thread` the blocking write of each caller |
| `Cron` | `CronExpr::parse` as far as it makes sets, `next_after` | `date`, `floor`, `daysLeft` as in the loop |
| `LiveMonitor` | `LiveMonitor`, `ensure_child`, `wait_until_unwatched` | `viewers`, `running`, `lastFrame` as in the struct; `child`, `reader`, `watcher` the process and the two tasks |
| `ProbeCache` | one key of `TtlCache` with `run_probe` and `await_with_limit` | the slot, its gate and the place of each request in `fetch` |

Every action is a whole handler between two points at which another actor can
run: an await, a system call, a lock that is released. What a step leaves alone
is in its `UNCHANGED`. Variables and definitions marked *history* are for the
properties; no guard reads them. Definitions that begin with `\* Bug:` are the
mutated forms used to show that a property can fail; nothing else uses them.

Abstractions worth knowing:

- An archive is the set of writes it holds; a timestamp or an LSN is a position.
  In `MongoChain` a timestamp has a second (`Sec`), because `--at` names seconds.
- Backup and job ids are UUID v7, so their order is the order of creation; a
  backup is its position in the list of manifests.
- One profile and one destination. The lock makes its commands sequential, so a
  chain module has one running command; `FileLock` is where that is looked at.
- The extension of the capture's upper bound past a split transaction is modelled
  by what it does: `is_partial_txn` (`engine/mongo/oplog.rs:415`) reads the flag
  beside `o`, the entries carry it inside `o` (`engine/mongo/apply.rs:275` reads
  it there), so the bound stays where it is.
- In `WebJobs` a signal is delivered at once and acts when the process ends; a
  pid is free once its process has been waited for, and another process may then
  get it (`"reuse"`).
- Time in `Scheduler` is minutes, a cron expression the set of its minutes, and
  the clock does not go back; the limit on the number of schedules is in
  `ScheduleFile`, the computation of the minutes in `Cron`.
- In `Cron` a field is a set of terms (from, to, step), and the 2^32 values of a
  number are scaled to `Word`; `Overflows` names the terms that wrap.
- In `PgRestore` a database is its objects and the number of copies of the
  archived rows in each table; what PostgreSQL requires of a statement is in
  `Needs`, `Creatable` and `GoesWith`. Indexes behave as constraints do and are
  left out, as are extensions, types, triggers and IDENTITY columns.
- In `JobHistory` a file is a sequence of whole or cut-off lines; only the index
  is synced, so a power loss takes lines of a log file.
- In `MysqlChain` a transaction is one of four kinds that a capture tells apart. A
  moment is the position of a commit; without a GTID a change carries an earlier one,
  that at which the second of its row began. A transaction carries one such time,
  although each of its rows has its own; clocks do not step back, and
  `SET TIMESTAMP` is not used.
- In `ConfigSave` a profile is a set of keys, each written in it with a value or not;
  one key stands for the addresses, which are never filled in. Values inherited from
  defaults and compact keys that stand for several are left out.
- In `FileChain` the contents of a file are a number, as its size and mtime are
  to the index.
- In `LiveMonitor` a period of the watcher is one step, a frame the number of the
  child that printed it.
- In `SseHub` a line is printed when its relay reads it, and the job page gets lines,
  states and the outcome only: see item 30 of section 6 for progress.
- Wording, logging, sizes, checksums and progress are left out.

## 3. The runs

Bounds are constants that appear in the guards, and a few conjuncts of the `MC`
modules with names of their own (`OneSelective`, `OneForm`, `OneOther`, `OneCancel`,
`OneRestart`, `FirstPath`, `InOrder`, `OneGone`, `FewFulls`, `OneEarly`, `OneField`). `CHECK_DEADLOCK FALSE` is
set where the bounds end every behaviour (no write, backup, arrival or minute is
left); the file lock, which has no bound, is checked for deadlock (in
`MCCommands` the other parts stutter, so that the check is of the lock alone).

| Run | Parts and bounds | Shows |
|---|---|---|
| `commands` | lock: 2 processes of one host, 1 of another, any length | `TypeOK`; `ExclusionUnlessEvicted`: exclusion survives crashes, half-written files, foreign hosts and reused pids, until a reclaim removes a file it did not judge; `OwnerHasFile` |
| | PostgreSQL: 4 transactions, 3 manifests, at most 2 per capture | `NoGapUnlessTainted`, `RestoreAtExact` |
| | MySQL: 2 transactions (1 without a GTID at most), 2 binlog files, 3 manifests (1 selective and 2 full ones at most), 1 per capture | `MysqlLossIsKnown`: a restore misses only commits between snapshot and coordinates of a dump without the read lock, and partial updates; it brings back too much only of tables without transactions, and of transactions without a GTID |
| | files: 2 paths, 2 contents, 3 manifests | `RestoreMatchesIndex` |
| | one command: 2 commands, 20 or 8 rows, warning at 50 % | `ExitTellsTruth` |
| `stored` | MongoDB: 2 collections, 4 writes (2 per second), 1 transaction, 3 manifests (1 selective at most) | `ChainsJoin`; `LostOnlyInWindows`: a write is missing from a restored chain only for one of three named reasons; `RestoreToSecond` |
| | retention: 4 backups, 5 time units; five policies that keep the newest chain, with crashes; `keep_days` with crashes, failing writes and failing cleanups | `LiveBaseKept`, `SurvivorsRestorableIfWritten`, `WindowKept`, `RedundancyKept` |
| | PostgreSQL restore: 34 databases of 2 tables, a target that is empty, was restored or is the original; 2 restores, lost connections, failing DROPs | `RestoredButSwept`: success means that everything is back once, but for what the restore dropped itself; `FailsForAReason` |
| | history: 2 jobs, 1 log kept, 2 attempts, 2 mishaps (write errors, crashes, power losses, removed index), the time budget of the rebuild | `HistoryKeepsJobs` |
| `console` | jobs: 2 jobs, 2 pids, 1 crash of the console, every fault, one stranger and one cancellation at a time | `ChildrenAreCollected`, `ForeignOnlyAfterReuse`, `ClosedMeansGone` |
| | pages: 2 pages of one form, 2 submissions, 1 change of facts, 1 tick | `RunsAsApproved`, `ImplementsApproval` |
| | cron: 10 expressions from 3 dates and 4 minutes of the day, 3300 days | `FirstDueMinute` |
| | configuration: 1 profile of 2 keys (an address and another), 2 settings, a page and a terminal that are opened twice in all, 2 saves, one field edited in an update, 1 edit by hand, 2 generations | `NoLostChange`: each key says what its last meant change made of it, unless an older page put its value back; `ReplacedIsKept`; up to two saves at once |
| `console_state` | scheduler: 2 schedules, 2 expressions, 5 minutes, 3 edits, a restart of the console of the first minute, `MISSED_SCAN_MAX` of 2, lateness limit of 1 | `FiresOnce`, `NoCatchUp`, `NoLateFire` |
| | schedule file: 2 editors and the loop, 2 schedules, 3 saves, 1 damage, 3 loads | `NoSilentLoss`, `RecoveryRepeats` |
| | probes: 3 requests (1 dropped at most), TTL 2, limit 1, 4 points in time, 1 job | `OneChildPerKey`, `FreshAfterInvalidation` |
| | hub: 1 page, 3 lines, a channel of 4, 1 dropped connection | `OutputIsShown`: a page that shows the child's outcome has shown its last line; `EndIsShown` |
| `live` | jobs: 2 jobs, 2 pids, 2 crashes, no other fault; monitor: 2 viewers, 3 arrivals, grace of 2 periods, failing starts, exits, lines too long and lines that cannot be read; with fairness | `EventuallyClosed`; `OneChild`, `ReleasedFrameOnlyLate`, `UnwatchedEnds`, `WatchedIsServed` |
| `mongo_dump_window` | as `stored` | violation of `DumpWindowCovered` (finding 1) |
| `retention_window` | a recovery window with selective backups | violation of `WindowKept` (finding 2) |
| `prune_leftovers` | as the pages of `console` | violation of `LeftoversNeedConsent` (finding 3) |
| `promoted` | one command | violation of `PromotedVerifies` (finding 4) |
| `schedule_save` | as the schedule file of `console_state` | violation of `AcknowledgedIsKept` (finding 5) |
| `pg_restore_reference` | a foreign key to a later table, an empty target, no fault | violation of `RestoreCompletes` (finding 6) |
| `pg_restore_serial` | a serial column, the original database as target, no fault | violation of `RestoreCompletes` (finding 7) |

Why these bounds are enough to mean something. A selective backup takes no part in
a chain, so that a second one among three would leave a single base, and a third full backup would leave no increment; a transaction without a GTID whose rows are of the second of its commit is restored as one with a GTID; a token is
bound to the form of its page, so that pages of different forms have nothing to
confuse. Paths are interchangeable, and so are requests: the first file is always at
the first path, and requests are numbered as they begin. Three manifests allow a base with
two increments, two bases with an increment, and a promotion after an increment;
four writes put one before, in and after a dump and leave one for the oplog to
roll over, and two seconds of two writes split a second between base and slice. Two saves are one that is
older than the other, with an edit by hand before, between or after them.
Four backups are two chains of two, which is what the ranks of `keep_last`,
`keep_full` and `min_redundancy` tell apart. Two jobs on two pids allow a pid to
be reused by a job or by a stranger while a cancellation is in its grace period;
a stranger has no job to be told from another stranger, and the steps of a
cancellation touch its own job alone (run `live` has no such bound).
Three requests allow one to produce, one to wait at the gate and one to come
after an invalidation; what a
second dropped one would add is left to the proofs (`SingleProbe`, `NoStaleAnswer`). Two submissions of two pages are a double submission and
two approvals at once. Two tables are the two orders of a reference and of what
depends on it, and a second restore meets what the first one left. Two jobs with
one log kept make every later job rotate an earlier one away; two mishaps are an
error and a crash, or a removed index and a crash in its rebuild. The dates of
`Cron` are before the end of a year, before a leap day, and on the last leap day
before the eight years without one. For the larger instances there are the proofs
(section 5).

Symmetry is used for the collections of `MongoChain`, for jobs and pids of
`WebJobs`, the submissions of `ConfirmFlow` and the editors of `ScheduleFile`;
the properties checked beside it are invariants and action properties, and every
definition treats the members alike. The run with liveness properties uses none.

Exceptions that a property names (`evicted`, `Excused`, `tainted`, `reused`,
`blind`, `"gone"`, `late`, `together`, `putBack`, `ReadLate`, `BeganEarly`,
`overlapped`, `swept`, `passedBy`) are
behaviours of the code, each confirmed by removing the exception and looking at
TLC's counterexample; section 6 lists them.

### Fairness

- `WebJobs!JobsFairness`: weak fairness of the request handler and waiter of each
  job, of each cancellation, of each reattached entry, and of the restart of the
  console. The first three are tokio tasks that nothing but the end of the
  console stops; the restart is the assumption that someone starts the console
  again, without which no entry could ever be closed. Processes are not assumed to
  end: `EventuallyClosed` speaks of an entry whose process is gone.
- `LiveMonitor!Fairness`: weak fairness of each handler, each reader and each
  watcher task, which are tokio tasks. Viewers are not assumed to leave, nor children to
  exit or to start. Two things are assumed of a child that no task sees to and nothing in
  the console enforces (there is no time limit on a frame): as long as it lives it prints
  another line, since `status --watch` prints one per period (weak fairness of the reader
  includes the line it waits for); and its lines are not for ever too long, for a reader
  that discards each of them publishes nothing (strong fairness of `Publish`). A child that
  hangs without output leaves its viewers with the last frame.
- `MCLive!LiveFairness` asks for the same of the part a behaviour is about.
- No other run assumes fairness.

## 4. Abstract specifications

`Approval` says what the head of `web/guard.rs` promises: a destructive job is
started by an approval, an approval starts at most one, and it can be lost at any
time but never come back. `ConfirmFlow` implements it: `Promise == INSTANCE
Approval WITH ...` maps each page to the life of its approval (its token, the
submission that consumed it, the child), and `ImplementsApproval` is the abstract
specification as a property of run `console` and a theorem of `ConfirmFlowProofs`. Two submissions of one page, an
expired token and a restart of the console are where a step could fail to map.

Elsewhere the promise is a property over history: `LostOnlyInWindows`,
`RestoreToSecond`, `RestoreAtExact`, `MysqlLossIsKnown` and `RestoreMatchesIndex`
compare what a restore brings back with the history of the source itself, and
`FirstDueMinute` compares the search of `next_after` with the meaning of an
expression, which is defined without the search (`DateDue`, `TimeDue`).

## 5. The proofs

TLAPS checks eight modules, for every value of the constants. Each invariance
theorem has the form `Spec => []Inv`, from a lemma for the initial states and one
for the step, which has one lemma or named step per action; the theorems about the
properties of the runs follow from it.

| Module | Theorems (property of a run) |
|---|---|
| `CommandProofs` | `TypeCorrect` (`TypeOK`), `Exclusion` (`ExclusionUnlessEvicted`), `OwnFile` (`OwnerHasFile`); `CommandInvariance`, `CodeIsTrue` (`ExitTellsTruth`) |
| `ChainProofs` | `MysqlInvariance`, `MysqlRestoreIsComplete` (`MysqlLossIsKnown`); `FileInvariance`, `FileRestoreIsIndex` (`RestoreMatchesIndex`); `MongoInvariance`, `MongoChainsJoin` (`ChainsJoin`), `MongoLosesOnlyInWindows` (`LostOnlyInWindows`), `MongoRestoresToSecond` (`RestoreToSecond`) |
| `PgChainProofs` | `PgInvariance`, `NoGap` (`NoGapUnlessTainted`), `ExactRestore` (`RestoreAtExact`); `RestoreInvariance`, `SuccessIsWhole` (`RestoredButSwept`), `FailureHasAReason` (`FailsForAReason`) |
| `RetentionProofs` | `LiveBases` (`LiveBaseKept`), `SurvivorsCanBeRestored` (`SurvivorsRestorableIfWritten`), `FullBackupsRemain` (`RedundancyKept`), `TheWindowIsKept` (`WindowKept`), each under a condition on `Events` |
| `WebJobsProofs` | `JobsInvariance`, `ChildrenKeepTheirPids` (`ChildrenAreCollected`), `SignalsFindTheirJob` (`ForeignOnlyAfterReuse`), `ClosedIsGone` (`ClosedMeansGone`); `HistoryInvariance`, `HistoryIsKept` (`HistoryKeepsJobs`) |
| `ConfirmFlowProofs` | `ConfirmInvariance`, `ApprovalImplemented` (`ImplementsApproval`), `DoneAsApproved` (`RunsAsApproved`) |
| `ConsoleStateProofs` | `SavesInvariance`, `ConfirmedIsKept` (`NoSilentLoss`), `RecoveryIsStable` (`RecoveryRepeats`); `SchedInvariance`, `OneJobPerMinute` (`FiresOnce`), `NothingIsCaughtUp` (`NoCatchUp`), `NothingIsLate` (`NoLateFire`); `ProbeInvariance`, `SingleProbe` (`OneChildPerKey`), `NoStaleAnswer` (`FreshAfterInvalidation`); `SaveInvariance`, `ChangesAreKept` (`NoLostChange`), `ReplacedVersionIsKept` (`ReplacedIsKept`) |
| `LiveMonitorProofs` | `Invariance`, `SingleChild` (`OneChild`), `StaleFrameIsLate` (`ReleasedFrameOnlyLate`); `HubInvariance`, `OutcomeIsShown` (`EndIsShown`), `OutputComesFirst` (`OutputIsShown`) |

### The lock and the backup command (`CommandProofs`)

The lock, for any number of hosts, pids and processes. Neither `OwnerHasFile` nor
`ExclusionUnlessEvicted` is inductive on its own. `LockInv` adds two facts: a process
that has read a holder, and whose file was not removed since, is looking at the file
that is still there and the reclaimer's holder is not running (`ReaderOfLiveFile`),
and nobody reclaims without having read a holder. With these, a reclaim either removes
the file it judged, whose creator is dead, or sets `evicted`. Exclusion then follows
from the file naming one owner.

The command, for any number of commands, any sizes and failures at any step.
`ExitTellsTruth` speaks of the last state only; `CommandInv` says for each step what
the way there has made of the objects of the backup: no manifest before the data is
whole (`Dumping`, `Writing`), none left of a dump that failed (`FailedIsGone`), only a
promotion leaves a manifest without its checksum, only a warning a copy that differs
(`Copying`), and `Unwritten`: the id of the next command has no objects, without which
a new command could meet those of an older one.

### The chains (`ChainProofs`, `PgChainProofs`)

`PgChainProofs`, for any number of transactions and backups and any batch. `PgInv`
relates the two stores that cannot be changed together and the command in between.
`Stored`: a manifest holds nothing but row changes up to its position, a full backup
all of them. `Covered`: no row change within the reach of an untainted chain is
missing from it. `SlotBehind`: the slot is not ahead of what the newest base and its
increments reach, except for a new slot whose full backup is under way (`NewSlot`) and
one whose full backup failed (`orphan`). `Reading`: what was peeked begins right after
the slot, and the base that was selected is still the newest. `SaveSliceStep` is the
heart: the slice joins what the chain reaches, because the slot was not past it, and
only afterwards does the slot move (`AdvanceSlotStep`). Without `SlotBehind` the
property is not inductive: a slot ahead of the chain would leave a gap with the next
slice. `NewestIs` and `ReachIs` show that the two CHOOSEs have the values meant.

MySQL, for any transactions, binlog files and number of backups. `FullIsSound`: a dump holds
what tables with transactions had at its snapshot, what tables without had then, and
nothing later but what those had taken in when it read them. `ChainIsSound`: the
increments of a base hold exactly what a capture does not skip between the base's
coordinates and the end of the chain, and none reaches further. `RunIsSound`: what the
running command has learnt is still true; the log stands still between snapshot and
coordinates while the read lock is held (from there `locked => coords.pos <= snap`), goes on
while the tables are read, and a capture starts where the chain ends. The proof of a
restore to a moment then needs no sequence of increments: the union of the slices is a
range of the log, cut by the recorded times. A time is not after its commit, so that the cut
takes nothing away; what it lets through too early is `BeganEarly`.

The file engine, for any paths, contents and number of backups. A restored path
comes from the newest backup of the chain that has it in its slice, and the index
that must agree with it belongs to another backup. The fact that closes the
distance is `Continues`: an increment was made against an older member `h` of its
chain, starts at `h`'s generation, and holds every path on which the two indexes
differ; an increment without differences keeps the generation, any other one adds one.
`SoundChainsRestore` takes, among the members a restore applies, the least one on which a path's
index is not what the newest source says, and shows that the member it was made against
is one, too.

MongoDB, for any collections, oplog and failures. `DumpIsSound`: a full backup holds
what took effect before it began and nothing after its end, because each collection
is read between the two; while it is being made this holds of the collections that have
been read. `FollowsTip`: a capture starts where the newest manifest that is not
selective ends, and that is a member of its base's chain. `RangeIsSound`: what a slice
lacks of its range was rolled over, and what it holds has no gap after its first entry.
`SlicesLieInOrder` follows from these with every manifest written, and is what
`ChainsJoin` and the restores need: every entry between the base's end and a slice's
end is in the range of some slice. The piece of a transaction counts as its commit
does (`StreamOf`), so that a slice whose boundary lies between the two is the third reason of `Excused`.

### The restore of a PostgreSQL archive (`PgChainProofs`)

For any tables, keys, references, sequences, views and functions (at most one object
of a kind per table), any target the archive's database could have left, any faults and any number of restores.
`RestoreInv` follows each kind of object from the archive to the target. `Consistent`:
nothing is there without what it needs, through drops that cascade
(`DropIsConsistent`) and statements that fail. `PhasesInOrder`: what was read comes
before what was not. As long as the restore works on tables it creates and no fault has
hit it, a function that was read waits, is there or was swept (`FunctionsKept`), a
sequence is there or was swept, a table has its rows once and its constraints wait
(`TablesKept`), a key that waits is not there yet (`KeysWait`), and a table still to be
read has no old one in its way (`NoOldTable`). Then a CREATE TABLE lacks nothing but a
swept sequence (`StepRestoreTable`), a constraint nothing but the key of a later table
(`StepAddConstraint`), and every round after the data gets something done
(`EveryRoundCreates`). These are the three places where a restore can fail without a
fault, which is why `FailsForAReason` names two reasons.

### Retention (`RetentionProofs`)

`LiveBases`, for any policies, any number of backups and any clock: if
`"read" \notin Events`, then `Spec => [](TypeOK /\ LiveBaseKept)`.
An increment never loses the manifest of its base, wherever writes, cleanups and
prunes fail or are interrupted, as long as a prune can read every manifest. `IInv` is `TypeOK`,
`Shape` (an increment is bound to an older full backup), `Pending` (a backup that
is being written is the newest and its base is there when its manifest is about
to be written; only a prune has a plan), `PlanClosed` (a plan with a base has all
increments bound to it) and `LiveBaseKept`. The base goes last because the order
of deletion is newest first (`BaseGoesLast`), and `PlanClosed` holds because the
plan keeps or drops whole chains (`PlanIsClosed`). The condition is necessary:
see item 15 of section 6.

`SurvivorsCanBeRestored`: if writes succeed, manifests are read and no backup is
selective (none of these is in `Events`), then whatever has its data and its manifest can
be restored through its chain, for every policy that keeps the newest chain. Three
facts make it inductive. No full backup lies between an increment and its base
(`BoundToNewest`), so that chains follow one another. The chain of the newest base has
all its data (`NewestChainWhole`); it is the one the next increment continues. And a
plan in progress has only backups of chains that a newer one follows
(`PlanOfOlderChains`, from `GoneHasNewer`: under a policy that keeps the newest chain,
a chain that is dropped has a newer one). What is left of an older chain is then cut from its end. The
policies that keep nothing are excluded by the property itself, failing writes by
item 16 of section 6.

`FullBackupsRemain` and `TheWindowIsKept` are action properties: what a step may not take
away. A policy is judged when a plan is made, and the plan is carried out file by
file, may stop, and is followed by other plans at other times. The invariants
therefore say of every state what the rules say of a plan: whatever is listed and is
either planned or without its data (`AtRisk`) has newer full backups that have theirs
and are not planned (`Spared`). `RedundancySpared`: a full backup at risk has
`min_redundancy` of them. `WindowSpared`: a backup at risk was made before the window,
and one of those newer than its base was too. Both are kept by a new plan because of
the newest backup that is at risk (or that began before the window, which is the one
`KeptByWindow` keeps): either it was at risk already, or the rule itself counts what
comes after it (`StartSpares`, `StartSparesWindow`). A step of the prune then takes
nothing but one backup that is at risk (`OneGoes`), and no other command takes any
(`NothingGoes`). `FullBackupsRemain` assumes that no write fails and no backup is
selective, and holds when manifests cannot be read as well; `TheWindowIsKept` assumes
what `SurvivorsCanBeRestored` does, since it is about the increments too. That a
selective backup does break the window is the run `retention_window` (section 6).

### The console (`WebJobsProofs`, `ConfirmFlowProofs`, `ConsoleStateProofs`, `LiveMonitorProofs`)

Jobs, for any jobs and pids, any number of crashes and any faults. `JobsInv` is about
who owns a pid. `OneProcess`: a pid names nobody or a process that has not been waited
for, and a job has one process in its life, under the pid of its record.
`VerifiedOrReused`: from the identity check of a cancellation to its last signal the
pid names the job's process or nobody, unless it changed hands. `SettledBeforeClosed`: whoever is
about to close an entry has seen its process gone or killed it; a closed entry alone
does not say so, because canceller, waiter and watcher close it some steps after they
looked. The owner of a pid is a job or a stranger, so the constants need
`Nobody \notin Jobs \cup Pids`.

The history of the jobs, for any number of jobs, log files kept, attempts and mishaps. `HistoryInv` relates
the log file, the index, the task that writes both and a rebuild that reads the one to
replace the other. What the index or a rebuild shows of a job is in its log file,
unless that lost lines (`StartInLog`, `EndInLog`); the index holds what is `Owed` to a
job, the start from the step at which it was written and the end once it was confirmed
(`InIndex`), and so does a rebuild for every file it has read (`InRebuild`): a record
written while it reads is in `passedBy`. `TooEarly` is the case of an index that was
never there, where a log file that was cut has nothing to lose. What the filter of a
rebuild leaves of a file is a recursive function; it keeps starts, and ends behind them
(`RecordsKeep`, by the first line at which it would not).

Pages and approvals, for any number of pages, submissions and restores on offer, any
time to live. `ApprovalImplemented` is the refinement of section 4. `ConfirmInv` is the
typing (`Shape`), `Served` (a handler
at work is about a page that was drawn) and `UsedOnce` (a page has its token, one
submission past the gate or one child, and never two of them). Most steps are
`Quiet`: they draw pages with tokens and lose approvals, which maps to `Move` or to a
stutter (`QuietMoves`); `GatePasses` maps to `Pass` and `SpawnDestructive` to
`Start`. `UsedOnce` is what makes the mapped status of a page one thing at a time.
`DoneAsApproved` carries what the second dry run compared from the handler to the child:
up to the spawn, a submission knows that its plan is the page's.

The schedule file, for any callers, lists, crashes and damage. The lock of the file
belongs to a request and the write to a thread that outlives it, so `SavesInv` is about
threads: a waiting caller has one (`ThreadsOfCalls`), a second one sets
`overlapped`; a whole file holds a list that was confirmed or may be
(`FileIsExpected`); and as long as memory may hold less than was saved, no thread
copies the file over the previous generation (`CopiesAreTrusted`), which is what
`RecoveryRepeats` rests on.

The scheduler, for any schedules, expressions, edits, stalls and restarts. `FiresOnce` needs that
a cursor is not before the runs of its schedule, also of one that was removed and
created again, and that the run being started is after all of them (`CursorAhead`),
and these need the order of all times the loop keeps (`ClockOrder`). `NoLateFire` is the
deepest: a minute slept through may still be ahead of a cursor only if `ScanMax` due
minutes hid it from the tick after the sleep, for what is registered and for the copy a
tick works on, which may be older than an edit (`LapsesJudged`).

The probe cache, for any number of requests and jobs, any limits. `OneHolder`: the gate has
one holder, the request that produces, and a running child is the holder's or that
of a dropped request. `NothingStale`: the slot and what a producer's child saw are
not older than the last invalidation, unless the child ran while it came (`late`);
an answer comes from one of the two.

Saving the configuration, for any profiles, keys, forms, savers and generations. A form
is compared with the file when it is posted, so the invariant is about pages that are older
than the file: a page differs from the file only in items that changed since it was opened
(`PageIsOld`), and what a form writes without anybody having meant it is among those
(`WritesOldItems`), which is how it gets into `putBack`. As long as at most
one save is open (`together` says that this was not so), its text is its change made
to the present file (`TextIsCurrent`), the file says what was meant but for what was put back
(`IsMeant`), and `IsKeptDuring` says where the version that was
replaced last is at each step of a rotation that may stop anywhere: one place further up once it
was moved. Each rotation that comes to nothing moves it up again, which is why the
property counts them (`aborted`).

The monitor, for any number of viewers, any grace, any number of arrivals. `IInv` is
`TypeOK`, `Counted` (the counter of viewers is the number of open requests, by
the cardinality theorems of the library), `Claimed` (the claim has at most one
holder: a request about to start a child, or a watcher up to its release) and
`Watched` (a child that runs has a watcher that has not killed it). `LateFrames` adds
which readers can still publish: one that was aborted only in the middle of it.

The hub of a backup, for any number of pages, lines and lost connections and any capacity above
three. An event reaches a page in the replay of a snapshot or through the channel, and
neither property says anything until the page is done or has given up. `HubOnly` is
about what was published: an event is in the snapshot before it is in the channel,
lines are in the channel in the order they were read (`LinesInOrder`), and the outcome is
after all of them, because both relays have ended (`EndComesLast`). `PageIsSound` is
about a page on its way: unless it lagged, it has shown, or joined after, exactly the lines
before its place (`LinesUpTo`), also while it still shows its replay; and the done event is in
its replay or `DoneAhead` in the channel, with as many events after it as a cancellation
may still publish, never more than two: this is why no lag skips it, and what `Capacity > 3`
is for. A replay with the outcome of the child means that no line is to come, so that the
lines before the place are all of them.

### Means and assumptions

There is no induction over data. Where a proof would use it, it takes the least or
the greatest element instead (`LeastOfNaturals`, from the well-founded order of the
naturals, and `MaxOfBounded`): the newest manifest, the last increment of a chain, the
first member of a chain that would be wrong. `Max` and `Min` are
CHOOSEs, and have their meaning by these lemmas.

Some typing invariants had to say more than TLC needs: `JobsTypeOK`, `SchedTypeOK`,
`FileTypeOK` and `SaveTypeOK` give each record its set (`Threads`, `Stores`, `Runs`, `Maps`,
`Changes`, `Saves`), without which a step that changes one field says nothing about
the others.

Assumptions on constants are the named `ASSUME`s of the modules; each is
evaluated by TLC in the runs. They ask for numbers to be natural or positive (the
capacity of the hub, 256 in the code, to be above three), and for names that mark an absence (`Nobody`, ...) to be none of the names they stand
beside; no theorem has another hypothesis, those of `RetentionProofs` on `Events` aside.

Only model-checked: the liveness properties (`EventuallyClosed`, `UnwatchedEnds`,
`WatchedIsServed`), for which the prover has no rule; and `FirstDueMinute`, a search through dates whose
bounds are those of the calendar.

## 6. Where code and words differ

Seven runs are expected to fail; each states what the repository says and shows
that the code does something else.

1. `mongo_dump_window`. The native engine reads collection after collection
   without a snapshot, and the range that increments continue from ends at the
   timestamp read after the dump (`pipeline/backup.rs:409`). A write to a
   collection already read is in neither the dump nor any increment, although
   "point-in-time consistency is obtained from the increments"
   (`engine/native/mod.rs:9`).
2. `retention_window`. `plan_prune` takes every full backup for a chain, selective
   ones too (`pipeline/prune.rs:208`). When the one at the boundary of the window
   is selective, the newest base a restore of that moment could start from is
   deleted, which INV-1 of `docs/prd/02-recovery-window-retention.md:52` keeps.
3. `prune_leftovers`. The prune page offers leftovers as a checkbox that is off by
   default (`web/routes/prune.rs:728`), and `build_spec` gives `--force` to every
   child whatever the checkbox says (`:772`): leftovers go without consent.
4. `promoted`. The manifest of a promoted backup is written a second time for the
   mark; if its sidecar then fails, the first edition's checksum lies beside the
   second edition and verify rejects a backup that the code calls valid
   (`pipeline/incremental.rs:364-368`).
5. `schedule_save`. The lock of the schedule file is a guard inside the request's
   future, and the write is a blocking task: when a browser goes away the lock is
   released while the write goes on, and a later, confirmed save is overwritten
   (`web/state/schedules.rs:682` against `:471`).
6. `pg_restore_reference`. Constraints are added once, table by table in the order
   of names, so that a foreign key to a later table comes before the key it refers
   to (`engine/postgres/restore.rs:271` against `:7`): the restore of a sound
   backup into an empty database fails with all rows loaded.
7. `pg_restore_serial`. The sequences are made sure of before the tables, and
   `DROP TABLE ... CASCADE` takes the sequence of a serial column along
   (`restore.rs:176` against `:4`): a restore over the original database ends
   with the table dropped.

The following are behaviours of the code that the properties name as exceptions
or that the models show and no property forbids, with the words they are at odds
with.

8. A reclaim removes the lock by path; a lock that was created between the read
   and the removal goes with it (`lock/file_lock.rs:167` against `:3`):
   `evicted`.
9. The oplog may roll over between the gap check and the find of the capture
   (`pipeline/incremental.rs:136` against `engine/mongo/oplog.rs:17-19`):
   `rolled`.
10. A slice may end between the pieces of a transaction and its commit: the flag
    is looked for in the wrong place, prepared transactions are not looked for,
    and every slice is replayed with a buffer of its own, so the pieces are lost
    while the rest of the transaction is restored (`engine/mongo/oplog.rs:415`,
    `engine/mongo/apply.rs:116`, against `pipeline/incremental.rs:166`, which has
    the extension keep transactions whole): the third reason of `Excused`.
11. The slot is recreated before the dump. A full backup that then fails leaves a
    slot that does not cover what the previous base lacks, and the next increment
    is bound to that base (`pipeline/backup.rs:736`): `tainted`.
12. A PostgreSQL restore `--at` a moment before the newest full backup starts from
    that backup all the same, and brings back later changes
    (`pipeline/pg_pitr.rs:112` against `README.md:20`): `RestoreAtExact` starts at
    the base.
13. SIGKILL goes, up to the grace period after the identity check, to whatever has
    the pid (`web/job/lifecycle.rs:733` against `:95-97`): `reused`. The orphan
    watcher likewise waits for a pid (`lifecycle.rs:889` against
    `web/reattach.rs:64-65`), and canceller and waiter may both write an end
    record, of which the last wins (`web/routes/backup.rs:888` against `:851`).
14. Under `keep_days` a prune that is interrupted leaves the rest of a chain, to
    which the next increment is bound (`pipeline/prune.rs:432` against `:386`);
    `keep_last` counts a selective backup among its N (`prune.rs:223` against
    `README.md:725`).
15. A manifest that cannot be read for a moment is no member of its chain; the
    base is then deleted under a living increment (`prune.rs:337` against `:9`
    and `:338`): the assumption of `LiveBases`.
16. A cleanup that fails or is interrupted leaves a manifest without data
    (`pipeline/backup.rs:528` against `:13-14`): `SurvivorsRestorableIfWritten`
    speaks of the histories in which no write failed. A replica is cleaned up the
    same way (`storage/mod.rs:162`), and one that missed a full backup receives
    the later increments with exit code 0 (`storage/mod.rs:160`).
17. `MISSED_SCAN_MAX` due minutes hide the later ones of a long stall, which then
    fire late (`web/schedule/mod.rs:430` against `:53-55`): the exception of
    `NoLateFire`. A schedule that is paused and enabled again fires for a minute
    of the pause (`web/state/schedules.rs:595` against `:229`). A schedule edited
    while an earlier job of the tick starts is judged by its copy
    (`schedule/mod.rs:594` against `:585-588`).
18. A viewer that arrives while the child is being ended is not served
    (`web/routes/monitor.rs:86`): the precondition of `WatchedIsServed`. Nor is one whose
    child has died or printed a line that is not UTF-8: the reader ends (`:126-130`), the
    claim stays taken as long as somebody watches, and nobody starts another child (its
    exception). An
    aborted reader may publish after the release (`routes/monitor.rs:150` against
    `web/state/monitor.rs:117`): the exception of `ReleasedFrameOnlyLate`.
19. A dashboard request that the browser drops leaves its child running, and the
    next one starts another (`web/routes/dashboard.rs:893` against
    `web/cache.rs:78-80`): the exception of `OneChildPerKey`. A configuration that
    a dropped request saved does not invalidate the probes.
20. A dump task that panics counts as success in the MySQL, PostgreSQL and native
    engines (`unwrap_or(Ok(()))`): the exception of `ExitTellsTruth`. The
    `on_error` hook does not run when the gate blocks a backup
    (`docs/prd/04-hooks.md:56`, `:100`).
21. A file that is replaced between the index and the archive of an increment may
    be missing after a restore (`pipeline/backup.rs:1226-1232`, which has the
    difference be a duplicate and never an omission): the precondition of
    `RestoreMatchesIndex`. A directory that becomes a file between two increments
    is not in the model.
22. The job page joins its channel after the snapshot and misses an event in
    between: the exception `gap` of `EndIsShown`. A page that is opened after the
    hub is gone says "disconnected".
23. The forms of the configuration post every key that is written in the profile, as the
    page was filled in (`web/view/config.rs:404`), and the save compares them with the present
    file (`web/routes/config.rs:1582-1594`); there is no fingerprint but for the conversion.
    A page that is older than a change of another key puts its old value back, or removes it:
    the exception `putBack`. The comparison is there so that a form says only what was changed
    (`:1524-1528`). The editor on a terminal posts what was edited and nothing else
    (`cli/handlers/config.rs:184`). The conversion of the configuration compares digests before the doctor process
    and not after it (`web/routes/config.rs`, the handler of the conversion), and
    `check_existence_precondition` has a window of its own
    (`web/config_write.rs:340-346`): the exception `together`.
24. A missing `schedules.json` counts as a fresh installation even if its previous
    generation is there. A dropped save lets a later one run beside its thread:
    the exception `overlapped` of `NoSilentLoss` (see 5).
25. A removed index of the job history is recovered by the rebuild
    (`web/state/jobs.rs:55`, `:976`), unless a job is recorded first: the append
    creates the index again, and the scan at a start rebuilds it only when it is
    absent (`web/reattach.rs:185`). A rebuild that exceeds its budget goes on
    after its lock is dropped (`reattach.rs:160`): the exception `passedBy`.
26. A `POST /backup` that is dropped while the start record is written leaves a
    running child that nobody awaits (`web/routes/backup.rs:634`); a destructive
    child is not awaited either when its start record fails
    (`web/job/lifecycle.rs:769-776`).
27. A PostgreSQL restore reports success although functions and owned sequences
    went with a dropped table (`swept`), and although a DROP failed, in which case
    the rows are appended to what was there.
28. A console `migrate` with `--drop` to an occupied target is always refused by
    its own child (`build_spec` of `web/routes/migrate.rs`).
29. A field such as `5-9/4294967295` wraps in release builds and means 0-5
    (`web/schedule/cron.rs:556`): the exception `Overflows`. The daemon's cron is a
    second implementation with other meanings: it gives up after 400 days, so that
    `0 0 29 2 *` may be refused or never run again, `*/n` restricts its field, and
    `5/2` is 5 to the maximum in steps of 2 (`schedule/mod.rs:67-130`).

30. The job page never shows progress. `relay_stdout` makes progress events of lines on
    stdout (`web/job/stream.rs:322`), but the child writes its progress to stderr only
    (`cli/progress.rs:20-21`, `:267`), where `relay_stderr` makes a log line of each. The
    path from stdout, with `ProgressCoalescer`, is therefore not in `SseHub`.
31. A MySQL dump is one consistent snapshot for tables with transactions only
    (`engine/mysql/backup.rs:10-11`, `:129`); the read lock is released (`:139`) before the
    tables are read, and a table without transactions may hold changes later than the
    coordinates, which the first increment applies again: `ReadLate`.
32. A MySQL restore `--at` a moment cuts by the time a change carries, which without a GTID
    is that of the row in seconds (`engine/mysql/incremental.rs:245-250`;
    `pipeline/mysql_pitr.rs:12-14` says so): a transaction that committed after that moment
    comes back when its rows are of a second that had begun: `BeganEarly`.

## 7. What is not modelled

- Compression, encryption, checksums, archive formats, BSON and SQL values: data
  in libraries, nothing a state space tells apart.
- Parsing and merging of the configuration, CLI parsing, output, i18n, HTML views,
  login, sessions and masking: decisions on one request or one document.
- Status, peek, compare: queries that change nothing. Migration: one pass of a
  dump into a restore, without state between runs. Self update: download,
  checksum and rename. Notifications: calls after the result.
- The daemon's cron, which keeps no state on disk (item 29).
- Of restores, the full restore of MongoDB and MySQL (a stream to a tool) and
  whether a change that is replayed twice has its effect once.
- Of modelled components: manifests that cannot be read for a moment in
  `MongoChain` (they are in `Retention`); the sidecar of the file engine's index in
  `Retention`; permissions and links in `FileChain`; the crontab detection in
  `Scheduler`; the history's files and the event hub in `WebJobs`, which are in
  `JobHistory` and `SseHub`, each without the other; a directory sync that fails
  before a power loss in `ScheduleFile`.
- Liveness under fairness and anything about recursive data stays with TLC: the
  prover has no rule for the one and no induction principle for the other.

## 8. Plan

What a next step would add, in this order.

1. Theorems: `RedundancyKept` and `SurvivorsRestorableIfWritten` under failing writes,
   for the policies for which that holds, and the facts about `Due` that
   `FirstDueMinute` needs.
2. `RestoreRun`: the guards and order of the `restore` command around the engines,
   and `migrate`, which composes a dump with it.
3. `Replay`: applying a change twice, as re-captures do, over rows with and without
   keys, for PostgreSQL and MongoDB.
4. Sessions of the console: time to live, limit and delay after failures.
5. Abstract specifications: `Retention` against a destination whose prune is one
   step; `WebJobs` against one job per profile.
