# A verification of surfbot-agent

TLA+ modules that model the core of surfbot-agent, TLC configurations that check
them on small instances, and proofs, checked by TLAPS, of the properties that
matter most. Paths below are relative to `src/`.

## 1. The system: inventory

surfbot-agent is a single Go process (`surfbot ui` or `surfbot daemon run`) with
one SQLite database. It scans *targets* on recurring schedules and on demand.

| component | code | state it keeps | operations |
|---|---|---|---|
| interval scheduler | `internal/daemon/intervalsched/scheduler.go` | run context, table of in-flight scans | `tick`, `handleBlackoutSkip`, `evaluateInFlightBlackouts`, `DispatchAdHoc`, `scanJobRunner.Run`, `runAdHoc`, `Start`, `Stop`, `Run` |
| worker pool | `.../workerpool.go` | `size`, `active`, `stopped`, the jobs channel, shrink tokens | `Start`, `workerLoop`, `Free`, `Dispatch`, `Resize`, `Stop` |
| target locks | `.../locks.go` | one 1-slot channel per target | `TryAcquire`, `Release` |
| blackout evaluator | `.../blackout.go` | cached windows, time of the last refresh | `Refresh`, `IsActive`, `NextWindowEnd` |
| RRULE expander | `.../rrule_expand.go` | jitter RNG | `ComputeNextRunAt` |
| template cascade | `.../cascade_recompute.go`, `internal/model/cascade.go` | none | `RecomputeNextRunForTemplate`, `ResolveEffectiveConfig` |
| overlap and maintenance windows | `.../overlap.go`, `.../window.go` | none | `ValidateNoOverlap`, `Contains`, `NextOpen` |
| orphan reaper | `.../zombie_reap.go`, `internal/storage/zombie_reap.go` | none | `ReapOrphanedScans`, one transaction at boot |
| scheduler lock | `internal/storage/scheduler_lock.go`, `internal/cli/scheduler_lock.go` | the row `scheduler_lock(id=1)`, a heartbeat goroutine | acquire, refresh, release |
| process life cycle | `internal/cli/ui.go`, `internal/cli/daemon.go`, `internal/daemon/runner.go` | state file, cancel function | `runUI`, `runDaemonRun`, `Runner.Start/Stop/loop` |
| schedule store | `internal/storage/{schedules,templates,blackouts,schedule_defaults,adhoc_scan_runs}.go` | the SQLite tables | CRUD, `ListDue`, `SetNextRunAt`, `RecordRun`, `UpdateStatus` |
| scheduling API | `internal/api/v1/*.go` | none | handlers that read, check and write in separate statements |
| scan pipeline | `internal/pipeline/*.go` | `scans`, `tool_runs`, `assets`, `findings` rows | `Run`, finalisation, diffs, the log sink |
| log sink | `internal/pipeline/log_sink_sqlite.go`, `internal/storage/scan_logs.go` | bounded channel, batch, rows | `enqueue`, flush, `Close`, `ListScanLogs` |
| detection tools | `internal/detection/*.go` | circuit breaker, semaphores of a port scan | `Run` of subfinder, dnsx, naabu, httpx, nuclei, in turn |
| migrations, legacy file, seeding | `internal/storage/storage.go`, `.../migrate_legacy.go`, `.../seed_templates.go` | `schema_version`, `schedule.config.json` | `runMigrations`, `MigrateLegacyScheduleConfig`, `SeedBuiltinTemplates` |
| state file | `internal/daemon/state.go`, `internal/webui/daemon_status.go` | `daemon.state.json` | `Update`, `Load`, `Save`, `buildDaemonStatus` |
| web UI, CLI client, config, scoring, remediation | `internal/webui`, `internal/cli`, `internal/config`, `internal/scoring`, `internal/remediation` | mostly none | presentation and I/O |

**Interactions.** The ticker, the workers and the HTTP handlers share the target
locks, the jobs channel, the blackout cache and the in-flight table of one
`Scheduler`; they share the tables with the API handlers, which run one SQL
statement at a time. An ad-hoc handler blocks on a channel that the worker of its
job answers. Every job context derives from the run context, which `Stop`
cancels. Processes on one database exclude each other with the scheduler lock
row; the reaper runs after the lock was taken and before the first tick.

**Hard behaviours.** Goroutines interleave between any two statements; state read
before a lock, a channel operation or a SQL statement is used after it (the due
list, the copy of the schedule in a job, the blackout cache, the acquisition time
of a scan); a store write can fail or be refused because its context is cancelled;
a blackout may begin, end, appear or disappear while a job is queued or running; a
client may go away; a shutdown may come at any point and has 30 seconds. The list
`hazards` of `PROJECT.json` names each with its line.

**What makes each component correct.** Scheduler: one job per target; locks are
given back exactly once; the in-flight table is exact; skips touch idle schedules
only; what is due eventually runs; an ad-hoc request is answered and its row
settled once; a shutdown ends and leaves nothing behind. Expander: the earliest
free occurrence after now. Reaper and lock: only one process dispatches, and only
rows of dead processes are failed. Store and API: `next_run_at` reflects the rule,
the blackouts and the enabled flag last written. Pipeline: every scan row ends in
a final status, says `completed` only of a scan whose results are in the database,
and stays as it was reported; a cancellation is obeyed. Diff: assets are gone if and
only if the scan has not seen them; findings are resolved only on the evidence of a
scan of their own target. Tools: what is probed and assessed is the target's; a port
scan returns. Log sink: what was accepted before Close is written, and a reader sees it
once, in order. Boot: a version vouches for complete tables, and the legacy file is
promoted once. Process: asked to end it ends, without its lock if it goes by itself.

## 2. Modules

| module | what it is |
|---|---|
| `Recurrence` | pure: instants, blackout windows, recurrence rules, `ComputeNextRunAt` |
| `IntervalSched` | the scheduler of one process: ticker, workers, ad-hoc handlers, shutdown |
| `TargetSerial` | abstract: the scans of each target form a sequence |
| `SchedRefinement` | the refinement mapping from `IntervalSched` to `TargetSerial` |
| `SchedulerLock` | the `scheduler_lock` row and the processes that compete for it |
| `CrashRecovery` | extends `SchedulerLock`: scan rows and ad-hoc rows across crashes, shutdowns and the reap |
| `Runner` | the inside of one process: main, heartbeat loop, supervisor of the scheduler, state file |
| `Boot` | what a process does to the database before it asks for the lock: migrations, legacy file, built-in templates |
| `ScheduleStore` | schedules, templates, defaults, blackouts: the API's handlers, statement by statement, against the scheduler's runs |
| `Calendar` | recurrence with jitter, recurring blackouts and their look-back, the API's preview, maintenance windows |
| `Pipeline` | runs of `Pipeline.Run`, the scan rows they write, cancel requests |
| `Discovery` | what the tools of one scan hand to each other: hostnames, addresses, ports, URLs |
| `PortScan` | the goroutines of the port scanner: semaphore, circuit breaker, retry pool, cancellation |
| `ScanDiff` | what scans conclude about assets and findings, and status requests |
| `LogSink` | the bounded log buffer, its flusher, Close, and a reader with a cursor |
| `MCIntervalSched`, `MCCrashRecovery`, `MCPipeline`, `MCScanDiff`, `MCScheduleStore` | the instances that TLC checks |
| `MCProcess` | one run of three parts: `MCCrashRecovery`, `Runner`, `PortScan` |
| `MCDetection` | one run of five parts: `MCScanDiff`, `Discovery`, `LogSink`, `Calendar`, `Boot` |
| `IntervalSched_proofs` | type correctness, one job per target, balanced locks |
| `InFlight_proofs` | in-flight table, blackout skips, quiet stop, final ad-hoc rows, the refinement of `TargetSerial` |
| `Process_proofs` | the lock; what `CrashRecovery` adds to it: one scheduler, no zombies, live scans kept, final rows; the port scanner's slots; types of the whole run |
| `Pipeline_proofs` | type correctness and the UI's slot; how runs end, final rows, the diff after the tools |
| `ScanDiff_proofs` | assets are gone exactly if unseen; what scans resolve; types |
| `ScheduleStore_proofs` | references, deleted rows, what runs leave alone |
| `Calendar_proofs` | where the next run is put, that none is missed, windows and previews |
| `Detection_proofs` | the log and its reader, the scope of a scan, the boot, and the composition of `MCDetection` |

`IntervalSched` is one process while it runs. `SchedulerLock` and `CrashRecovery`
look at several processes over their lifetimes and keep of a scan only what a crash
leaves behind. `Pipeline` opens up the one step "the scan ends" of the other two,
`ScanDiff` opens up the one step `Diff` of `Pipeline`, `Discovery` what its tools pass
on, and `PortScan` the inside of one of them. `Runner` opens up the processes of
`SchedulerLock` between acquisition and exit, `Boot` what precedes it.
`ScheduleStore` has the tables that `IntervalSched` reads and advances, edited by the
API; of a run it keeps the three writes. `Calendar` opens up the computation of
`next_run_at`, which `IntervalSched` takes from `Recurrence`; it INSTANCEs `Recurrence` and
checks that the two agree.

**Composites.** `MCProcess` and `MCDetection` hold several modules that share no state.
A variable `part`, chosen by the initial state and never changed, says which of them
a behaviour is about; the others keep one fixed initial state. So the states of the
parts add up and do not multiply, and an invariant of one part is checked in all of
its behaviours. This is packaging, not interaction: the modules that do interact
extend or instantiate each other as said above.

### IntervalSched

State. `clock` is `Clock.Now()`, a bounded count of instants. `windows`, `rows` and
`adhoc` are the tables `blackout_windows`, `scan_schedules` (enabled, next_run_at,
rule, last_run_status) and `ad_hoc_scan_runs` (status); `cache` is the evaluator's
copy of the windows. `locks` is the set of targets whose lock channel is full.
`queue` is the jobs channel, with room for `Size` jobs, and `worker[w]` the
goroutine `w`: where it is, its job, why its scan's context is cancelled and how
the scan ended. `inflight` is the `sync.Map` of running scans, each with the worker
whose context it cancels and the instant it was registered. `tick` is the ticker:
where it is, the `now` of its tick, `free - dispatched` and the row it works on;
`due` the rows of its list it has not visited. `call[c]` is the handler of ad-hoc
request `c`, `hungup` the requests whose context is cancelled, `replied` those
whose result channel is full. `stop` is the progress of `Scheduler.Stop`.

Steps. Between two steps other goroutines run, so a step is at most one store
statement, one critical section, one channel operation or one access of a
`sync.Map`; local computation is merged into the step that follows it.

* ticker: `TickStart` (Refresh and `evaluateInFlightBlackouts`), `TickList`
  (`Free`, `ListDue`), `TickClaim` (`TryAcquire` of the next row),
  `TickBlackout` / `TickDispatch` (the blackout check and its two outcomes),
  `TickSkipRecord`, `TickSkipAdvance` (`handleBlackoutSkip`), `TickEnd`, `TickExit`;
* worker: `WorkerTake`, `WorkerActivate` (active++), `WorkerRegister` (entry in
  the table), `WorkerScanEnds`, `WorkerRecord`, `WorkerAdvance` or `WorkerReply`,
  `WorkerUntrack`, `WorkerRelease`, `WorkerLeave` (active--), `WorkerExit`, and
  `WorkerRefuse`, `WorkerFail` for an ad-hoc run whose config does not resolve;
* handler: `CallSubmit`, `CallClaim`, `CallBlackout` / `CallMark`,
  `CallCheckPool` and `CallSend` (the two halves of `Dispatch`), `CallReject`,
  `CallReturn`;
* shutdown: `StopCancel`, `StopPool`, `StopDone`, `StopExpire`;
* environment: `AdvanceClock`, `EditBlackout`, `HangUp`.

Nondeterminism stands for what the code does not decide: which of equal rows
`ListDue` lists first, whether a cache is older than its TTL, whether a statement
fails (`StoreFaults`), how a scan ends, how late a tick is delivered, what a
`select` picks. A statement under the run context fails once that is cancelled;
one under the request's context once the client hung up.

Left out: template loads (they fail softly), `AttachScan`, `started_at` and
`completed_at`, logging, `Resize` (never called), and a schedule whose config does
not resolve (the store refuses a schedule without rule or time zone, so only an
ad-hoc run can meet it). Rules and rows are edited by the API: `ScheduleStore` has that.

Instants are coarse: several ticks, scans and dispatches fit into one.

### TargetSerial and SchedRefinement

`TargetSerial` knows nothing of goroutines: a target is claimed by a schedule or
by an ad-hoc run that never claimed before, is scanned at most once per claim, and
is given back. The mapping reads the owner of a target off the one claim on it
(ticker, handler, queue or worker) and the phase off the worker's program counter.

### SchedulerLock and CrashRecovery

`row` is the row of `scheduler_lock`: owner, and the age of `heartbeat_at` in a
unit in which `StaleAfter` is a small number (in the code 60 s, with a beat every 15 s).
`pc[p]` follows `runUI` / `runDaemonRun`: `off`, `probing` and `forcing` (the two
halves of `acquireSchedulerLock` after a refusal: the PID probe of the holder it saw,
and the retry with `staleAfter = 0`), `booted` (has the row, has not reaped),
`running`, `draining`, `releasing`, `leaving`. Actions: `Acquire`, `Refused`,
`GiveUp`, `JudgeDead`, `TakeOver`, `TakeOverFails`, `Boot`, `BootFails`, `Shutdown`,
`StopHeartbeat`, `ReleaseRow`, `Exit`, `Beat`, and the environment's `AgeRow` and
`Crash`. A transaction is one step: SQLite serialises them.

`CrashRecovery` adds for each scan its row (`scan`), the ad-hoc row that asks for it
(`adhoc`, and `link` once `scan_id` is set) and its goroutine (`work`). A run is
`RequestAdHoc`, `MarkRunning`, `StartScan`, `Progress`, `FinishScan`, `AttachScan`,
`SettleAdHoc` (or `FailAdHoc`), each one write. `Reap` is the transaction at boot,
together with `Boot`; `Drained`, `ExitProc` and `CrashProc` are the lock's steps
with what they do to the goroutines of the process.

Constants say under which conditions a property is checked: `Timely` (a live
holder's heartbeat is never late), `HostOf`, `MayRunUnlocked` (`surfbot scan` and
the scan button run scans without the lock), `MayTimeOut` (`Stop` gives up on
running scans after its 30 s), `MayLoseWrite` (the last write of a run fails and
nobody notices).

### Pipeline

`row[s]` is the scan's row: its status and whether the aggregates are filled in.
`run[s]` is where `Run` is and the index of its tool; `recorded` the `tool_runs` rows;
`diffed` the scans that changed assets and findings; `ctx` the cancelled contexts;
`killed` the tools killed by the poll goroutine; `slot` the UI's `runningScan` with
its cancel function; `ask` the cancel requests, which read, then cancel or write.
Every exit of `Run` is an action: `Create` and `Prepare` that fail, `StopAtHead`,
`ToolCancelled`, `FailScan`, `Complete`. `UpdateScan` writes the whole row from the
run's own copy, so `WriteRow` overwrites whatever another process wrote.

### ScanDiff

`asset[a]` has the status and the second of `last_seen`; `finding[f]` the status,
`scan_id` and whether `resolved_at` is set. `Begin` takes the snapshot `pre`,
`SeeAsset` and `SeeFinding` are the upserts, `Compare` the comparison of assets,
`List` and `Resolve` that of findings (the list is read once, then its findings are
updated one by one). `EditRead`, `EditWrite`, `EditTime` are the status request.
`saw` is a history variable. `Serial` and `MayShareSecond` name two assumptions: the
scheduler runs one scan of a target at a time (`SerialPerTarget` above; scans of the
CLI and of the UI do not take part in that), and a scan begins at least a second
after the last upsert of the one before. `MayReopen` says whether requests set findings
other than to `resolved`. `DetTypeOK` contains what `UpdateFindingStatus` is for: a
resolved finding has its time.

### Runner

`main` is where `runUI` / `runDaemonRun` is, `loop` the goroutine of `Runner.loop`, `sched` the
one that runs `Scheduler.Run` under `recoverSchedulerPanic`, `file` the state file: whether it
has a `last_error`, and its age in heartbeats. `Update` is two steps, `LoadState` and
`SaveState`, because nothing is held in between; `Save` may fail. Steps: `StartRunner`,
`AskStop` (a signal, or the HTTP server fails), `SeeAsked`, `DrainHttp`, `StopReturns` (the
loop is done, or the grace period over), `Release`; `Heartbeat`, `SeeStopCtx`, `AwaitSched`;
`DrainSched`, `Panic`, `NoteLoad`, `NoteSave`, `CallBack`, `PanicExit` (status 1), `Abort` (a panic of
the ticker or a worker, status 2). `Status` is `buildDaemonStatus`.

### Boot

`schema[k]` is what migration `k` has made of its tables (old, half, new), `version` the stored
number; a script is two steps, its first statements and its last, since it is not in
a transaction. Then `Stat`, `ListSites`, `Commit` (one transaction) and `Rename` of the legacy
file, and `Seed`. `Die` is an exit or a crash at any point. Some migrations are
`Repeatable` (all statements say IF NOT EXISTS), some are `Rebuilds` (they rebuild a
table and can be run again once they are complete), the others fail when they meet
their own columns.

### ScheduleStore

A cadence (rrule, dtstart, timezone) is a member of `Rules`; `next_run_at` is abstracted to the
cadence it was computed from, so that "is it up to date" is an equality. `req[h]` is a
request with the copies its handler has read, `job[i]` a scheduler's run with the
copies of its dispatch. A handler is `Begin` (its reads, or all of it if it is one
statement) and then `Continue`: check, write, refresh of `next_run_at`, and the cascade over
the templates in `todo`, row by row. Foreign keys and uniqueness are `Admissible`; ON
DELETE CASCADE and SET NULL are in `TargetDelete` and `Detach`. `ReqFault` and `RunFault` are
statements that fail, at most `MaxFaults` of them.

### Calendar

A rule is the set of its occurrences, a recurring blackout the set of its `starts` with a
`length`; both are arbitrary, as is the jitter. `Covering` looks back no further than
`LookBack`. `Fire` and `SkipRun` may come late; the next run is computed from the clock. The
preview of the API (`UpcomingBlackouts`) and the maintenance window (`InWindow`, `NextOpen`,
`NextStart`) are operators.

### Discovery

`stage` is the tool that runs; `results` are dnsx's in the order in which the parallel lookups
ended, `inputs` what the next tool gets: where to dial and on whose behalf. `OwnerOfIp` is
`resolved_from`, `Narrowed` is `narrowHostnamesByResolution`, `ScopeMatches` and `Recorded` decide which
answers of `httpx` count and under which name; an answer comes from any host, the
target's or not, with any certificate. `ForNuclei` picks what is assessed.

### PortScan

One goroutine per probe. `Spawn` takes a token of `sem`; `ReadCap`, `Add`, `Undo` are `tryAdmit`,
which reads the cap and adds itself in two steps; `Dial`, `Retry`, `Redial`; `Settle` merges
`recordResult` with the recording of the outcome and the deferred releases, which
follow each other without waiting.

### LogSink

`ch` is the channel, `batch` the flusher's, `table` is `scan_logs`; a line is its scan and its
number. `Send` and `DropOldest` are the two halves of `enqueue` on a full channel; `Insert` stores
the whole batch or none of it. `Poll` is a page of the scan that is `Watched`, from its
cursor on.

## 3. Runs

The `sched_*` runs use schedules `s1` (due at 0) and `s2` (due at 1), ad-hoc runs
`c1`, `c2`; `s2` and `c2` are on target `t2`, the rest on `t1`; `b1` is a global
blackout, [1,2) or, in `sched_shutdown`, [0,2). `Horizon` bounds the clock, `MaxSkips` stands
for the 100 of the expander, `Overhead` for the 5 extra rows of `ListDue`.

| run | distinct states | instance | checks | shows |
|---|---|---|---|---|
| `sched_safety` | 5.5 M | s1, s2, c1, c2 (unresolvable); 2 workers; b1; horizon 2 | `TypeOK`, `OneJobPerTarget`, `LockAccounted`, `ScansTracked`, `SkipIsIdle` | the core invariants while scans, ticks and handlers overlap and a blackout starts and ends |
| `sched_shutdown` | 554 k | s1, c1; 1 worker; stop; hang-ups; store faults; blackouts edited; fair | `StoppedIsQuiet`, `AdHocFinal`, `ShutdownEnds` | shutdown from every state, with failing statements |
| `sched_progress` | 113 k | s1, s2, c1; 1 worker; b1; horizon 2; fair | `DueAdvances`, `AdHocSettles`, `SerialPerTarget` | nothing starves while the process is up; refinement of `TargetSerial` |
| `recovery` | 145 k | 2 processes on 2 hosts, a scheduled and an ad-hoc scan; crashes, store faults, lost last writes; 1 process's inside; 4 probes, 3 at a time, cap 3 to 1, 1 retry at a time; fair | `ProcTypeOK`, `OneScheduler`, `NoZombies`, `DeadHolderReplaced`, `LiveScansKept`, `FinalStays`; `RunnerEnds`; `RunReturns` | one scheduler at a time; a dead one is replaced and its scans, no others, are failed; a process that is to end ends; a port scan returns |
| `recovery_onehost` | 1.3 M | 3 processes on one host, a scheduled and an ad-hoc scan; scans of processes without the lock; drain timeouts | `LostToTakeOver`, `AdHocMatchesScan` | what is left of these guarantees with the PID probe, the forced retry and scans outside the lock |
| `pipeline` | 433 k | 2 scans of the UI, 1 of a daemon whose context may be cancelled; 3 tools; 1 cancel request; fair | `SlotIsScan`, `EndedIsFinal`, `DiffAfterTools`, `CompletedIsComplete`, `FinalStays`, `SlotFreed` | every way through `Run` |
| `store` | 876 k | 1 target, 2 ids, 2 names, 3 templates (1 built in), 2 blackouts, 2 rules; a request of any kind and one that creates, edits or deletes; 1 fault; fair | `RefsHold`, `DeletedStays`, `RunsKeepEdits`, `NextSettles` | the handlers' read-check-write sequences against each other and the runs |
| `detection` | 2.2 M | *diff*: 3 scans of one target, 1 of another, 1 status request, clock to 3; *names*: 3 hostnames, 2 addresses, 2 URLs; *log*: 2 scans of 2 lines, channel and batch of 2, pages of 1; *calendar*: all rules and blackouts over 5 instants, lengths to 2, jitter to 1, 2 tries; *boot*: 2 processes, 3 migrations, 1 target, 1 built-in | `DetTypeOK`; `GoneIsUnseen`, `ResolvesUnseen`; `InScope`; `CloseFlushes`, `ReaderSeesAll`; `NoRunMissed`, `CalendarsAgree`; `BootsOnce` | what scans find, log and conclude, when they run, and what the database is when they do |
| `recovery_v_adhoc` | | expected violation | `AdHocReaped` | the ad-hoc row of an interrupted scan stays running |
| `pipeline_v_cancel` | | expected violation; 1 scan of a daemon, 1 request | `CancelSticks` | a cancellation is overwritten |
| `diff_v_target` | | expected violation; 2 scans | `ResolvesItsOwn` | a scan resolves findings of other targets |
| `discovery_v_shared` | | expected violation; the parts of `detection` | `ResolvedAreKept` | a hostname that shares its addresses with one resolved before it is dropped |

**Why these bounds.** Scheduler: contention for a lock needs two jobs of a target
(s1, c1) and one of another (s2, c2) to fill the queue; a queue as long as the pool is
wide is full with one or two jobs; a blackout is met at every phase of a job with a
horizon of 2 (before, in and after [1,2)). Two workers are needed for two scans at
once and for the exactness of the in-flight table; they are interchangeable, hence
the symmetry in `sched_safety` (a run without liveness). A shutdown meets every phase
of one scheduled and one ad-hoc job without the clock moving; starts of the
blackout come from edits. Recovery: two processes are
a holder and its successor, the third is the one that takes the row between the
probe and the retry; ages 0, 1 and 2 with
`StaleAfter` 1 are fresh, at the limit and stale; on one host the processes are
interchangeable (a run without liveness). Port scan: two admissions can only collide
for ever while the cap is below the number of tokens and nobody has a slot, which
takes a probe that timed out, one that is dialling and two more. The window of the
breaker is 1 (50 in the code) and its floor 1 (5), so that one timeout moves the cap.
Pipeline: three tools are one that fails hard, the one after which the rest may
be skipped, and one after that; two UI scans contend for the slot. Diff: with three
scans an asset can be seen, missed and seen again, or missed twice; the fourth is of
the other target; the scans of one target are interchangeable. Discovery: three
hostnames, of which the middle one has both addresses, are each alone with, or behind
another at, an address. Log: with a channel of two and two writers, a line is dropped
between the two halves of a send; pages of one line make a cursor pass over another
scan's lines. Calendar: five instants hold an occurrence before, at the start of,
in, at the end of and after a blackout, or two blackouts that touch; two tries
saturate. Boot: one migration of each kind, two processes on different versions.
Store: a request of any kind against one that writes a row (three at once repeat
these pairs); two rules tell an old `next_run_at` from a new one.

`MaxUrls`, `Lines`, `MaxNow`, `LastInstant` and `MaxFaults` bound counters and histories only. The
proofs remove the bounds for every invariant and every action property of the passing runs;
they matter for the liveness properties only.

**Deadlock** is not checked where everything ends (`pipeline`, `store`, `detection` and
`recovery`, whose processes, requests and scans all come to an end) nor where a
configuration stops the scheduler or the clock (`sched_shutdown`, `diff_v_target`,
`pipeline_v_cancel`, `discovery_v_shared`).

**Fairness.** A goroutine that can take a step eventually does (weak fairness per
worker, per handler, for the ticker and for `Stop`): the Go scheduler is
preemptive. Scans end: every detection tool runs under a timeout. The clock
advances. The tick loop's `select` chooses at random among ready cases, so it
takes the cancelled context if that is ready infinitely often (strong fairness of
`TickExit`). `StopExpire` and `HangUp` have no fairness: they need not happen. A
worker's `select` gets no more than weak fairness: it may prefer the cancelled
context to a queued job. `RecLiveSpec`: time passes, and the service manager starts
processes again and again, so that one which finds the row reclaimable infinitely
often gets it (strong fairness of `Acquire`). `Pipeline`'s `FairSpec`: weak fairness
of each run's steps; nobody has to press a button or cancel anything. `Runner`: main, the
loop's own steps and the supervisor go on (each wait of main has a time limit in the
code: 10 s, the grace period, 5 s), and time passes; neither a heartbeat nor the end of
a drain is fair. `PortScan`: weak fairness of the loop and of each goroutine, and `Apart`: again
and again no goroutine is between adding itself to the breaker's count and taking
itself back. Without it two goroutines can refuse each other for ever (TLC finds it
with four probes); the code's two atomic operations are adjacent and a refused
goroutine waits 10 ms, so they would have to be preempted between the two every time.
`StoreLiveSpec`: weak fairness of each handler after its first statement, of each run's
steps, and of `ListDue`: the ticker keeps finding what is due. Nobody has to send a
request.

## 4. Proofs

Every invariant and every action property that a passing run checks is a theorem of
the module's specification, and so is the refinement. A theorem holds for every value of the
constants: arbitrary sets of targets, schedules, requests, processes, scans, tools, hosts,
rules and windows, and any limits. It rests on the ASSUME of the module
(`RecurrenceAssumption` and `SchedAssumption` for the scheduler, and so on), which TLC
evaluates, and on what is named below. They ask for finite sets only of the workers, of the
scans that write a log and of the hosts of a target; `InitAssumption` of `ScheduleStore` says
that the tables satisfy their own constraints at the start.
Where a theorem has a hypothesis of its own it is the value that the run gives to a
constant, and section 5 names the way in which the guarantee fails in the code without it.

**Scheduler** (`IntervalSched_proofs`, `InFlight_proofs`)

* `TypeCorrect`: `TypeOK` is inductive.
* `MutualExclusion`, `LocksBalanced`: the properties quantify over the set
  `Claims(t)`, which is not inductive to work with; `LockInv` states the same place by
  place: no two of {workers past `WorkerTake`, queue slots, handlers between
  `TryAcquire` and `Dispatch`, the ticker's claim} have one target (`Apart`), each
  has its target's lock (`Locked`), each lock has one of them (`Claimed`). A step
  that moves no claim is covered by the lemma `Frame`; a claim that is taken finds
  the lock free, so by `Locked` no other place has the target; one that is handed
  on (ticker or handler to queue, queue to worker) moves between places; one that
  is dropped takes the lock along, and `Apart` says nobody else relied on it.
* `InFlightExact`: the deletion from the table is by id; two workers with one id
  would have one target, which `LockInv` excludes (`JobsDiffer`).
* `SkipsAreIdle`: at `TickBlackout` the ticker still has the claim, so by `Apart` no
  queued or running job is the schedule's; afterwards only the ticker could add one.
* `StopIsQuiet`: the ticker and the workers never come back from `exited`, and an
  empty table follows from `InFlightExact`'s invariant.
* `AdHocStaysFinal`: whoever may still write the row of a request is its handler before it has
  handed the job on, the queue, or one worker. `AdHocInv` says that nobody of these is left once the
  row is final, and that a handler whose job is queued only waits for the answer.
* `Serialized`: `Spec => SerialPerTarget`, the refinement of `TargetSerial`. `TurnLaw` says that the
  owner and phase which the mapping reads off are those of the one claim there is; it
  follows from `LockInv`. With it each action of `IntervalSched` is shown to be one of the abstract
  steps (claim, begin, end, give back) on one target, or a stutter.

**Lock, recovery, process** (`Process_proofs`)

* `LockTypeCorrect`: `TypeOK` of the lock row and its processes is inductive, for any
  processes, hosts and staleness limit (`LockAssumption`).
* `OneSchedulerAcrossHosts`: assuming in addition that heartbeats are in time
  (`Timely`) and that no two processes share a host. The strengthening says that
  whoever is between acquisition and the end of its heartbeat owns the row and that
  the row is not stale; nobody is `forcing`, since that needs a dead holder seen on
  one's own host.
* `LostOnlyToTakeOver`: assuming `Timely` only, wherever the processes run. The row
  of a live holder is not older than `StaleAfter`, so `Acquire` is not enabled, and
  refresh and release touch only one's own row; only the forced retry is left.
* `RecoveryImplementsLock`: `RecSpec => Spec`. Each step of `CrashRecovery` is a step of
  `SchedulerLock` or leaves its variables alone, so whatever is proved of the lock
  (`OneScheduler` above all) holds with scans, reaps and exits around it.
* `RecoveryTypeCorrect`: `RecTypeOK` is inductive.
* `AdHocMatchesScanHolds`, assuming that the last write of a run is not lost
  (`~MayLoseWrite`), on any hosts, with late heartbeats, drains that give up and scans
  without the lock: `Attached` says at which step of the goroutine the scan is
  completed and when it is linked. A goroutine that is about to link has a
  completed row, which no reap takes away.
* `NoZombiesHolds`, `LiveScansKeptHolds`, `FinalRowsStayAcrossProcesses`, assuming `Timely`, distinct
  hosts, `~MayRunUnlocked` and `~MayTimeOut`: `WorkIsHeld` says that every goroutine at work
  belongs to a process that is running or draining, and `RowsOfWork` that a running row
  belongs to a goroutine that is scanning or died. With `OneScheduler` the process that reaps is
  the only one with the row, so every goroutine at work would be its own, and it has
  none yet.
* `ScannerSettles`: the safety half of `RunReturns`. A port scan that has returned has no
  goroutine in the breaker and an outcome for every probe that was begun; that it returns is
  left to TLC. `PortInv` ties the breaker's counter to the goroutines that are counted in it
  (`inflight = Cardinality(Counted)`), which the two steps of `tryAdmit` make more than the dials.
* `AdmissionsHold`: although reading the cap and adding oneself are two steps, a probe passes
  only if its own addition leaves the count within the cap it has read, so the dials do not
  exceed that, whatever the others do in between.
* `ProcPartsAreBehaviours`, `ProcTypeCorrect`: a behaviour of the run is a behaviour of each part, and
  every part is well typed.

**Pipeline and diff** (`Pipeline_proofs`, `ScanDiff_proofs`)

* `PipelineTypeCorrect`: `TypeOK` with `AtTool` (a run that is at a tool has the index of
  a registered tool) is inductive, for any scans, tools and requests.
* `SlotFollowsScan`: `SlotIsScan` is inductive. A run moves itself only
  (`RunStepMoves`), a scan of the UI leaves `idle` through the button only, and whoever
  empties the slot is the one scan that is in it.
* `FinalRowsStay`, also with failing statements: a row is not final before its run is
  at its end, unless a request has read it (`OpenRows`), and a run at its end writes
  no row.
* `EndsAreFinal`, assuming `~StoreFaults`: `EndedIsFinal` is inductive; each way to an
  end goes through a write that a live context lets through. (Statements still fail
  under a cancelled context, which is where the code's own gap is.)
* `DiffFollowsTools`, `CompletedRowsAreComplete`, under the same assumption: `Turns` says
  of a run with a live context that every tool before its index has its record or is
  left out by the type of the scan, all of them at the diff phase, and that a run that
  closes has its diff. The early exit of `NothingToProbe` is the case that needs it.
* `DiffTypeCorrect`: `TypeOK`, whether the scans of a target are serialised or not.
* `GoneIsUnseenHolds`, assuming `Serial` and `~MayShareSecond`: `SnapshotHolds` says that while the
  tools run, an asset of the target differs from the snapshot exactly if the scan has seen
  it. That needs that no other scan of the target is under way (`UnderIsLast`) and that
  nothing was seen in the second of a snapshot (`Past`).
* `ResolvesUnseenHolds`, assuming `~MayReopen` too: `Reporter` ties `scan_id` to the scan that saw the
  finding, `Pending` the list that was read to what is still open, `NoReopen` the requests
  in flight to what they have read.

**Store** (`ScheduleStore_proofs`)

* `ReferencesHold`: `RefsHold` is inductive as it stands, in five parts that are about different
  variables: the requests and the runs hold well-typed copies, the tables are what they
  should be, each row is `Admissible` (its target and template are stored, its name is
  unique), each blackout valid. A deletion is covered by `Kept` (what is left was there and
  refers to nothing that went), an update by `Touched` (name, target and template stay), and only
  inserts and edits go through the check of `Admissible`. A copy that is stale when it is
  written back is harmless for this reason: the write is refused or affects no row.
* `DeletedStayDeleted`: a row comes from an insert only, and an insert takes an identifier
  that was never used.
* `RunsKeepWhatIsEdited`: for each of a run's statements, what it leaves alone.

**Calendar** (`Calendar_proofs`), for any horizon, jitter, look-back, length of a day and number of tries

* `CalendarTypes`, `NoRunIsMissed`: `CalInv` says that `next_run_at` is the date of an occurrence and lies
  outside of blackouts, that there are no more runs than occurrences before that one
  (`Counted`), and that each occurrence no run has followed yet is waited for (`Awaited`). The search is a
  recursion; what it returns is proved by the lemma `Along`, which replaces
  induction: the numbers that lack a property have a least one.
  A candidate that gives way to the end of a blackout passes only over occurrences that
  this blackout meets.
* `WindowsReopen`: arithmetic modulo the length of the day, by cases on the order of the ends.
* `CalendarsMeet`: the API's list and the evaluator look back equally far, which is enough since
  no blackout is longer than the look-back; and, without jitter, `NextRun` is `ComputeNextRunAt` of
  `Recurrence` with one window per occurrence. The latter is an equality of two
  recursive functions: `IterationExists` gives each its values, `SameWindows` says that both
  evaluators agree on an instant and on the end of its blackout, also where occurrences of
  the blackout overlap (both take the first one). The scheduler's model is thereby
  tied to the detailed one for every rule and every blackout.

**Log, names, boot** (`Detection_proofs`)

* `NothingLeftBehind`: `Accounted` is the balance: what was sent is in the channel, the batch or the
  table, or is counted as failed or dropped. The sums over all scans are folds over a set;
  `SumsExist` and what follows it show that they are what one expects when one scan's count
  changes. `Draining` says that the flusher is gone only once the channel and its
  batch are empty.
* `NothingUnseen`: table, batch and channel, in this order, have each scan's lines in ascending order
  (`InOrderOfWriting`); a page therefore appends, in order, exactly the watched lines between the old
  cursor and the new one (`ReadInv`). The page is a list of a set of positions in increasing order;
  that there is one and only one is proved by counting.
* `StaysInScope`: `Backed` says of each URL under a host that the host itself, its certificate or one of its
  addresses stands behind it; `Expects` that after a port scan every probe is on behalf of
  a host of the target, and `Owned` that its address was resolved for it.
* `BootTypeCorrect`, `BootsOnceHolds`, for any number of processes, migrations and targets, from
  `BootAssumption` alone: `SeenIsNew` says that the tables up to the version that a process
  has come past are complete, even when another one lowers the stored version or runs a
  migration again; `Promotion` orders the commit before the rename.
* `LogTypeCorrect`, `NamesTypeCorrect`, `PartsAreBehaviours`, `DetTypeCorrect`: the composition implements its
  parts, each of them well typed; the calendar rests where another part has the behaviour.

**Not proved, and why.** The liveness properties (`DueAdvances`, `AdHocSettles`, `ShutdownEnds`,
`DeadHolderReplaced`, `SlotFreed`, `RunReturns`, `RunnerEnds`, `NextSettles`): they rest on fairness, hence on
ENABLED, which the prover does not handle; TLC checks them. Of `RunReturns` the part that is an
invariant is proved. Induction over data is done by hand as said above, for numbers up to a bound and
for finite sets; the library's induction theorems take an operator as a parameter.
The properties of the four runs that expect a violation are false of the code.

## 5. Not modelled, and divergences met

**Not modelled.** The web UI's pages and read-only handlers, the CLI's formatting and
its HTTP client, lists, filters, paging and the validation of request bodies,
configuration files, service installation, scoring and remediation text: they keep no
state that interleaves with the above. Parsing of rules and time zones, and of the
tools' output. The merge of tool configurations (a function of three maps without
state) beyond the choice of the cadence, the two weeks' expansion in `overlap.go`
(abstracted to the relation `Clashes`), `asset_changes` and metadata changes, pruning of
logs, `Resize` of the pool, which no production code calls, and what each migration
script does to each table.

**Divergences with a run** are listed as findings in `PROJECT.json`:
`recovery_v_adhoc`, `pipeline_v_cancel`, `diff_v_target`, `discovery_v_shared`.

**Divergences met while modelling, without a run of their own.** The constant or the
exemption named in brackets keeps them out of the passing runs.

Scheduler

* `scheduler.go:429`: a scan that starts in a blackout is never paused by it. The instant
  compared is `acquiredAt`, when the worker starts the job; the ticker checked the blackout
  before the job was queued. A job queued before the blackout scans through it, against
  `docs/scheduling.md:206-207` ("When a blackout activates while a scan is running against
  an affected target, the scheduler cancels the job"); the comment at 418-419 takes such a
  job for impossible.
* `scheduler.go:364`: the due list is read once per tick. A row on it whose earlier run
  finishes and advances it before the loop gets there is dispatched although it is no
  longer due. (Only a row's claim, not its due time, enters `SkipIsIdle` and
  `DueAdvances`.)
* `scheduler.go:220` cancels the run context, and with it every scan, before the
  drain; the comment at 235-238 describes a drain of running scans.
* `scheduler.go:579`: after the cancellation a run's `RecordRun` and `SetNextRunAt` fail under the
  cancelled context; the schedule stays due and fires at the next boot.
* `workerpool.go:157`: `Dispatch` reads `stopped` under the mutex and sends after unlocking. If `Stop`
  closes the channel in between, the send panics in the handler's goroutine; `net/http`
  recovers it, the target stays locked and the ad-hoc row `running`. (The panic is an outcome
  of `CallSend`; `StoppedIsQuiet` speaks of what `Stop` leaves, not of the locks.)
* `rrule_expand.go:109`: a schedule whose next 100 occurrences are all blacked out keeps its
  `next_run_at` and is retried at every tick. (`NoRunMissed` exempts it by `gaveUp`.)
* `rrule_expand.go:103`: the search goes on strictly after the end of a blackout, so an
  occurrence exactly at its end, which is outside it, does not run. (`Meets` counts it as met by
  the blackout.)
* `workerpool.go:98`: at shutdown a queued ad-hoc job may be dropped; its caller waits
  for an answer until its own context ends, against `scheduler.go:272-273`.
  (`MayStop = FALSE` in `sched_progress`.)
* `scheduler.go:310`: a refused ad-hoc run whose client has hung up stays `running`,
  against 276-278. (`MayHangUp = FALSE` there.)

Lock, recovery, process

* `cli/scheduler_lock.go:72`: the forced retry overwrites the row of a process that
  took it after the probe, against the comments at 79-80 and `cli/ui.go:97-98`. (On one
  host `OneScheduler` fails; `LostToTakeOver` says that this is the only way.)
* `storage/scheduler_lock.go:80`: a heartbeat that is late is overwritten without a PID
  probe, against `cli/scheduler_lock_test.go:67-68,83`. (`Timely = TRUE`.)
* `storage/zombie_reap.go:108` fails live scans of processes without the lock
  (`cli/scan.go:52`, `webui/handlers.go:1022`), against `zombie_reap.go:84-86` and
  `cli/ui.go:123-124`. (`MayRunUnlocked` and `MayTimeOut`: `LiveScansKept` and
  `FinalStays` hold, and are proved, without them; `AdHocMatchesScan` with them.)
* `cli/ui.go:167`, `cli/ui.go:208`: `runUI` returns without closing the lock; the row stays until it is
  stale. (In `SchedulerLock` a boot that fails may leave the row.)
* `runner.go`: `StateStore.Update` loads and saves without holding the mutex in between, so a
  heartbeat can write back the state without the `last_error` that the supervisor has just
  noted; nothing ever clears it; a file that does not parse makes every later update
  fail; two processes share the name of the temporary file. The supervisor covers the
  goroutine of `Scheduler.Run` only: a panic of the ticker or of a worker ends the process
  without a `last_error`. After a clean stop the dashboard shows "running" for three heartbeats,
  since the last write renews the file. (`RunnerEnds` asks for the end only.)
* `cli/daemon.go:213`: `ScanRunner.Close` is never called, although `daemon/scan_runner.go:66-67` says that shutdown
  does: the last lines of the log are lost. (`CloseFlushes` is about `Close`.)

Scans and findings

* `pipeline.go:510,553`: if the context is cancelled during the last tool, the writes
  that follow fail unnoticed, `Run` reports success and the row stays `running` until
  the next reap, against `zombie_reap.go:81-84` and `docs/scheduling.md:206-209`.
  (`EndedIsFinal` exempts cancelled contexts; `MayLoseWrite` in `recovery`, where
  `AdHocMatchesScan` would fail.)
* `webui/handlers.go:1140`: the cancel handler cancels the scan this process runs,
  whichever scan the request names.
* `storage/storage.go:743`: a resolved finding that is reported again stays resolved;
  only `scan_id` and `last_seen` change.
* `storage/storage.go:744`: `scan_id` is that of the latest scan. Two scans of a
  target at once (one of the scheduler, one of the CLI or the UI) take findings from
  each other, and each may resolve what it has just seen. (`Serial = TRUE`.)
* `diff.go:48`: an asset seen again within the second of its snapshot counts as
  disappeared. (`MayShareSecond = FALSE`.)
* `pipeline.go:512` drops the error of the second snapshot; with an empty list every
  asset of the target is marked as disappeared. Errors of the first snapshot and of
  `ListScans` turn a scan into a baseline. (`ScanDiff` has no failing statements.)
* `diff.go:44-60`: an asset that has disappeared is reported as disappeared again by
  every later scan that does not see it, although the delta "reflects only what this
  scan actually changed" (`finalize.go:72`). (`asset_changes` is not modelled.)
* `storage.go:617`: the upsert sets the status of an asset seen again to `new`,
  undoing `NormalizeAssetStatuses`; `new` says no more than "seen by the last scan".
* `diff_findings.go:64` overwrites a status that the user sets after the list was read.
* `webui/handlers.go:937` clears `resolved_at` by a status read earlier; a scan that
  resolves the finding in between leaves it resolved without a time, against
  `diff_integration_test.go:195`. (`MayReopen = FALSE`.)
* `httpx.go:462`: for a probe of a bare address the recorded URL has the host that a redirect
  ended at, whatever it is, against 101-102. If the port scan has failed, or is skipped
  (quick scans), there are only such inputs and hostnames, and `nuclei` may be sent there.
  (`InScope` speaks of scans whose port scan has run.)
* `pipeline.go:691-720`: a finding's asset is looked up by iterating over a map with a substring
  match; the comment says "prefix matching", and which of several matches is taken is random.

Store and API

* `schedules.go:442-465`: pausing and resuming writes the flag only and computes no `next_run_at`,
  against `docs/scheduling.md:342-343` ("pause+resume the affected schedule - that re-computes
  `next_run_at` immediately"). A schedule that was created paused and is then resumed has no
  `next_run_at` and never runs. (`NextSettles` is about schedules that have one.)
* A bulk clone has no `next_run_at` either, and its overrides always contain `rrule`, so no
  cascade gives it one. (Likewise.)
* `PUT /schedule-defaults` cascades over templates only, and the expanders of the process keep the
  defaults they were built with, against `docs/api.md:254-256`. (`NextOf` resolves with
  `BootRule`, as the code does.)
* `cascade_recompute.go:46` skips schedules that override the time zone alone, whose rule is still
  the template's: they keep an outdated `next_run_at` until they run. (In the instance the
  schedule overrides nothing until a request edits it; a run settles it.)
* `schedules.go:396`: an edit writes back every column of the row it read. A `next_run_at`, `last_run_at` or
  another request's edit in between is overwritten. (`RunsKeepEdits` is about runs;
  `NextSettles` about what is stored in the end.)
* `schedules.go:291`: the overlap check and the insert are separate statements, so two requests that do
  not see each other store two schedules that overlap; `overlap.go` does not see a run that
  is in progress either. (No property states the absence of overlaps.)

Boot

* Migration 003 rebuilds the table `assets` with foreign keys on: `DROP TABLE` deletes the
  findings by their cascade, although 003:32-35 has just backfilled them.
* 003 and 0007 run statement by statement; a crash inside one makes every later boot fail
  on a column or table that is already there. (`BootsOnce` is a safety property: no version vouches
  for incomplete tables.)
* `migrate_legacy.go:197`: a crash or a failed rename between the commit and the rename makes
  every later boot fail on the unique name of the template, against "idempotent" at 72-76
  and `appcore.go:31`. Two processes that boot at once meet the same error, since the
  migration runs before the lock is asked for. (`BootsOnce` likewise.)

## 6. Plan

All blocks of the plan are built:

1. Core: `Recurrence`, `IntervalSched`, `TargetSerial`, `SchedRefinement`, and their proofs.
2. `SchedulerLock` and `CrashRecovery`: stale takeover, crash, reap, shutdown with a
   timeout; the proofs of both.
3. `Pipeline` and `ScanDiff` with their proofs.
4. `ScheduleStore`: the API handlers against the scheduler's runs.
5. `Runner`, `PortScan`, `LogSink`: the concurrency inside a process.
6. `Calendar` and `Discovery`: algorithms and data flow, with `Recurrence` as the reference of
   the scheduler's model.
7. `Boot` and its proof.
8. Proofs for every part: store, calendar, log, names, port scanner, refinement.

Proved since: all safety properties of the runs, and the refinement of `TargetSerial`.

Worth doing next: the safety halves of the other liveness properties (what `ShutdownEnds` and
`RunnerEnds` say of the end, without that it comes); that `ComputeNextRunAt` of `Recurrence` returns
an instant after now and outside of every window, for several blackouts at once; the
metadata changes of `diff.go`; the tool configurations of the cascade.
