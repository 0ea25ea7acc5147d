---------------------------- MODULE CrashRecovery ----------------------------
(***************************************************************************)
(* Scan rows across process lifetimes: the processes of SchedulerLock run  *)
(* scheduled and ad-hoc scans while they hold the lock, other processes of *)
(* the product (surfbot scan, the UI's scan button) run scans without it,  *)
(* and a starting scheduler reaps what a dead one left behind              *)
(* (intervalsched/zombie_reap.go, storage/zombie_reap.go).                 *)
(***************************************************************************)
EXTENDS SchedulerLock

CONSTANTS Scans,            \* runs of the scan pipeline, each with its scans row
          AdHoc,            \* those started by an ad_hoc_scan_runs row
          MayRunUnlocked,   \* scans are also run by processes without the lock
          MayTimeOut,       \* runner.Stop may give up on running scans
          MayLoseWrite      \* the last UpdateScan of a run may fail

Outsider == "unlocked"   \* a process that never takes the lock

ASSUME RecoveryAssumption ==
  /\ AdHoc \subseteq Scans
  /\ Outsider \notin Procs
  /\ MayRunUnlocked \in BOOLEAN /\ MayTimeOut \in BOOLEAN /\ MayLoseWrite \in BOOLEAN

VARIABLES
  scan,   \* scans.status; "none": no row yet
  adhoc,  \* ad_hoc_scan_runs.status of the row that asks for the scan
  link,   \* ad-hoc runs whose scan_id has been set
  work    \* the goroutine of the scan: the process it runs in, and how far it is

recVars == <<scan, adhoc, link, work>>
vars == <<lockVars, recVars>>

Final == {"completed", "cancelled", "failed"}
Idle == [in |-> NoOne, at |-> "start"]

RecTypeOK ==
  /\ TypeOK
  /\ scan \in [Scans -> Final \cup {"none", "running"}]
  /\ adhoc \in [AdHoc -> {"none", "pending", "running", "completed", "failed"}]
  /\ link \subseteq AdHoc
  /\ work \in [Scans -> [in : Procs \cup {NoOne, Outsider},
                         at : {"start", "requested", "marked", "scanning", "succeeded", "errored", "linked", "done", "dead"}]]

RecInit ==
  /\ Init
  /\ scan = [s \in Scans |-> "none"]
  /\ adhoc = [s \in AdHoc |-> "none"]
  /\ link = {}
  /\ work = [s \in Scans |-> Idle]

\* (Mutant: nothing counts as an orphan.)
OrphansNone == {}

\* ListOrphanedScanIDs: every running row, whichever process it belongs to.
Orphans == {s \in Scans : scan[s] = "running"}

\* MarkScansFailed takes running rows, MarkAdHocRunsFailed those that are not over and have a scan_id.
MarkScansFailed(ids) == scan' = [s \in Scans |-> IF s \in ids /\ scan[s] = "running" THEN "failed" ELSE scan[s]]
MarkAdHocRunsFailed(ids) ==
  adhoc' = [s \in AdHoc |-> IF s \in link \cap ids /\ adhoc[s] \in {"pending", "running"} THEN "failed" ELSE adhoc[s]]

\* The scan's goroutine exists; the scans a process runs.
LiveWork(s) == work[s].at \in {"requested", "marked", "scanning", "succeeded", "errored", "linked"}
WorkOf(p) == {s \in Scans : work[s].in = p /\ LiveWork(s)}
Step(s, at) == work' = [work EXCEPT ![s].at = at]

-----------------------------------------------------------------------------
(* One run: the HTTP handler, DispatchAdHoc, Pipeline.Run, runAdHoc *)

\* POST /scans/ad-hoc creates the row; the dispatcher then marks it running, or
\* turns the request down (target busy, blackout) and leaves the row as it is.
RequestAdHoc(p, s) ==
  /\ pc[p] = "running" /\ work[s] = Idle
  /\ work' = [work EXCEPT ![s] = [in |-> p, at |-> "requested"]]
  /\ adhoc' = [adhoc EXCEPT ![s] = "pending"]
  /\ UNCHANGED <<lockVars, scan, link>>

MarkRunning(s) ==
  /\ work[s].at = "requested"
  /\ \/ adhoc' = [adhoc EXCEPT ![s] = "running"] /\ Step(s, "marked")
     \/ UNCHANGED adhoc /\ Step(s, "done")
  /\ UNCHANGED <<lockVars, scan, link>>

\* The pool is full, the config does not resolve or CreateScan fails.
FailAdHoc(s) ==
  /\ work[s].at = "marked"
  /\ adhoc' = [adhoc EXCEPT ![s] = "failed"]
  /\ Step(s, "done")
  /\ UNCHANGED <<lockVars, scan, link>>

\* CreateScan inserts the row with status running: for a schedule that is due, for
\* an ad-hoc run, or in a process that does not hold the lock.
StartScan(s) ==
  /\ \/ work[s] = Idle /\ s \notin AdHoc
        /\ \/ \E p \in Procs : pc[p] = "running" /\ work' = [work EXCEPT ![s] = [in |-> p, at |-> "scanning"]]
           \/ MayRunUnlocked /\ work' = [work EXCEPT ![s] = [in |-> Outsider, at |-> "scanning"]]
     \/ work[s].at = "marked" /\ Step(s, "scanning")
  /\ scan' = [scan EXCEPT ![s] = "running"]
  /\ UNCHANGED <<lockVars, adhoc, link>>

\* UpdateScan before each tool: the whole row, status running included.
Progress(s) ==
  /\ work[s].at = "scanning"
  /\ scan' = [scan EXCEPT ![s] = "running"]
  /\ UNCHANGED <<lockVars, adhoc, link, work>>

\* The pipeline's last UpdateScan writes the whole row, whatever it says now.  When
\* the write fails (the database is busy, or the context of a scan that was about
\* to complete is cancelled), the row stays as it is and Run returns as if it had
\* not: with the id of the scan if that was to be completed, and an error if not.
FinishScan(s) ==
  /\ work[s].at = "scanning"
  /\ \E status \in Final :
       /\ \/ scan' = [scan EXCEPT ![s] = status]
          \/ MayLoseWrite /\ UNCHANGED scan
       /\ Step(s, IF s \notin AdHoc THEN "done"
                  ELSE IF status = "completed" THEN "succeeded" ELSE "errored")
  /\ UNCHANGED <<lockVars, adhoc, link>>

\* (Mutants: the scan id is attached whatever the outcome; the ad-hoc row takes
\* over the status of the scan.)
AttachScanAlways(s) ==
  /\ work[s].at \in {"succeeded", "errored"}
  /\ link' = link \cup {s}
  /\ Step(s, "linked")
  /\ UNCHANGED <<lockVars, scan, adhoc>>
SettleAdHocAsScan(s) ==
  /\ work[s].at = "linked"
  /\ adhoc' = [adhoc EXCEPT ![s] = scan[s]]
  /\ Step(s, "done")
  /\ UNCHANGED <<lockVars, scan, link>>

\* AttachScan, only for a run that returned a scan id, and that is one that
\* completed: the pipeline returns no result with an error.
AttachScan(s) ==
  /\ work[s].at \in {"succeeded", "errored"}
  /\ link' = IF work[s].at = "succeeded" THEN link \cup {s} ELSE link
  /\ Step(s, "linked")
  /\ UNCHANGED <<lockVars, scan, adhoc>>

SettleAdHoc(s) ==
  /\ work[s].at = "linked"
  /\ adhoc' = [adhoc EXCEPT ![s] = IF s \in link THEN "completed" ELSE "failed"]
  /\ Step(s, "done")
  /\ UNCHANGED <<lockVars, scan, link>>

-----------------------------------------------------------------------------
(* Processes *)

\* A process that ends takes its goroutines with it.
Killed(p) == work' = [s \in Scans |-> IF s \in WorkOf(p) THEN [in |-> p, at |-> "dead"] ELSE work[s]]

\* (Mutant: the reap precedes the acquisition of the lock.)
ReapRefused(p) ==
  /\ pc[p] \in {"booted", "probing"}
  /\ IF pc[p] = "booted" THEN Boot(p) ELSE GiveUp(p)
  /\ MarkScansFailed(Orphans)
  /\ UNCHANGED <<adhoc, link, work>>

\* ReapOrphanedScans: one transaction over scans and ad_hoc_scan_runs (tool_runs
\* rows are only ever inserted with a final status, so none matches there).
Reap(p) ==
  /\ Boot(p)
  /\ MarkScansFailed(Orphans) /\ MarkAdHocRunsFailed(Orphans)
  /\ UNCHANGED <<link, work>>

\* (Mutant: Stop does not wait for the scans.)
DrainedAtOnce(p) == StopHeartbeat(p) /\ UNCHANGED recVars

\* runner.Stop returns when no scan is left, or after its grace period.
Drained(p) ==
  /\ StopHeartbeat(p)
  /\ WorkOf(p) = {} \/ MayTimeOut
  /\ UNCHANGED recVars

ExitProc(p) == Exit(p) /\ Killed(p) /\ UNCHANGED <<scan, adhoc, link>>
CrashProc(p) == Crash(p) /\ Killed(p) /\ UNCHANGED <<scan, adhoc, link>>

\* A process without the lock dies in mid-scan.
OutsiderDies ==
  /\ MayCrash
  /\ WorkOf(Outsider) # {}
  /\ Killed(Outsider)
  /\ UNCHANGED <<lockVars, scan, adhoc, link>>

LockStep ==
  /\ \/ AgeRow
     \/ \E p \in Procs : \/ Acquire(p) \/ Refused(p) \/ GiveUp(p) \/ JudgeDead(p) \/ TakeOver(p)
                         \/ TakeOverFails(p) \/ BootFails(p) \/ Shutdown(p) \/ ReleaseRow(p) \/ Beat(p)
  /\ UNCHANGED recVars

RecNext ==
  \/ LockStep
  \/ \E p \in Procs : Reap(p) \/ Drained(p) \/ ExitProc(p) \/ CrashProc(p)
  \/ \E p \in Procs, s \in AdHoc : RequestAdHoc(p, s)
  \/ \E s \in Scans : StartScan(s) \/ Progress(s) \/ FinishScan(s)
  \/ \E s \in AdHoc : MarkRunning(s) \/ FailAdHoc(s) \/ AttachScan(s) \/ SettleAdHoc(s)
  \/ OutsiderDies

RecSpec == RecInit /\ [][RecNext]_vars

\* Time passes, and the service manager keeps starting processes: one that finds
\* the row reclaimable again and again eventually gets through.
RecLiveSpec ==
  /\ RecSpec
  /\ WF_vars(AgeRow /\ UNCHANGED recVars)
  /\ \A p \in Procs : SF_vars(Acquire(p) /\ UNCHANGED recVars)

-----------------------------------------------------------------------------
(* Properties *)

\* The cleanup happens before the first tick (docs/scheduling.md:376-377): while a
\* scheduler is up, no row says running of a scan that died with its process.
NoZombies ==
  (\E p \in Procs : pc[p] = "running") =>
     \A s \in Scans : scan[s] = "running" => work[s].at # "dead"

\* Reap catches genuine crashes only (zombie_reap.go:81-87) and two processes
\* never reap each other's in-flight state (cli/ui.go:120-124): nobody changes the
\* row of a scan that goes on.
LiveScansKept ==
  [][\A s \in Scans : work[s].at = "scanning" /\ work'[s].at = "scanning" => scan'[s] = scan[s]]_vars

\* A scan that was reported as over is not reported as something else later.
FinalStays == [][\A s \in Scans : scan[s] \in Final => scan'[s] = scan[s]]_vars

\* An ad-hoc run is completed only with a completed scan attached
\* (intervalsched/scheduler.go:276-278), whatever crashed or was reaped meanwhile.
AdHocMatchesScan ==
  \A s \in AdHoc : adhoc[s] = "completed" => s \in link /\ scan[s] = "completed"

\* The ad-hoc run of a reaped scan is failed with it (docs/scheduling.md:352-353).
AdHocReaped ==
  [][\A s \in AdHoc : (work[s].at = "dead" /\ scan[s] = "running" /\ scan'[s] = "failed")
                         => adhoc'[s] = "failed"]_vars
=============================================================================
