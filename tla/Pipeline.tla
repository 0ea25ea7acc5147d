------------------------------ MODULE Pipeline ------------------------------
(***************************************************************************)
(* The life of scans rows (internal/pipeline/pipeline.go, Run): each run   *)
(* executes its tools in turn and writes the whole row again and again,    *)
(* while the UI's cancel handler (internal/webui/handlers.go) cancels      *)
(* contexts or writes the row itself, and contexts are cancelled from      *)
(* outside (blackout, shutdown, Ctrl-C).  A write of the row is one step,  *)
(* and so are the two checks before a tool and the work of the diff phase. *)
(***************************************************************************)
EXTENDS Naturals

CONSTANTS Scans,        \* runs of the pipeline
          Web,          \* those started with the UI's button, in the UI's process
          Asks,         \* cancel requests
          NTools,       \* the registered detection tools are 1..NTools
          Hard,         \* those of the discovery phase
          Probe,        \* the tool of the http_probe phase
          Skip,         \* Skip[s]: the tools that the type of scan s leaves out
          MayCancel,    \* the contexts of scans outside Web may be cancelled
          StoreFaults,  \* a SQL statement may fail ("database is locked")
          NoScan

Tools == 1..NTools

ASSUME PipelineAssumption ==
  /\ NoScan \notin Scans
  /\ Web \subseteq Scans
  /\ NTools \in Nat
  /\ Hard \subseteq Tools
  /\ Skip \in [Scans -> SUBSET Tools]
  /\ MayCancel \in BOOLEAN /\ StoreFaults \in BOOLEAN

VARIABLES
  row,       \* scans: status, and whether target_state, delta and work are filled in
  run,       \* Pipeline.Run of each scan: where it is, the index i of its tool
  recorded,  \* tool_runs: the tools of each scan that have a row
  diffed,    \* scans whose diff phase changed assets and findings
  ctx,       \* scans whose context is cancelled
  killed,    \* scans whose current tool the poll goroutine has killed
  slot,      \* handler.runningScan and cancelFunc: the UI's scan
  ask        \* the cancel handlers: where they are, the scan they have read

vars == <<row, run, recorded, diffed, ctx, killed, slot, ask>>

Final   == {"completed", "cancelled", "failed"}
NoRow   == [status |-> "none", aggr |-> FALSE]
Running == [status |-> "running", aggr |-> FALSE]
RunPCs  == {"idle", "pressed", "created", "loop", "checked", "tool", "ok", "error",
            "failing", "diff", "closing", "returned", "gaveup", "over"}

TypeOK ==
  /\ row \in [Scans -> [status : Final \cup {"none", "running"}, aggr : BOOLEAN]]
  /\ run \in [Scans -> [pc : RunPCs, i : 1..NTools + 1]]
  /\ recorded \in [Scans -> SUBSET Tools]
  /\ diffed \subseteq Scans /\ ctx \subseteq Scans /\ killed \subseteq Scans
  /\ slot \in Web \cup {NoScan}
  /\ ask \in [Asks -> [pc : {"idle", "read", "writing", "over"}, scan : Scans \cup {NoScan}]]

Init ==
  /\ row = [s \in Scans |-> NoRow]
  /\ run = [s \in Scans |-> [pc |-> "idle", i |-> 1]]
  /\ recorded = [s \in Scans |-> {}]
  /\ diffed = {} /\ ctx = {} /\ killed = {}
  /\ slot = NoScan
  /\ ask = [k \in Asks |-> [pc |-> "idle", scan |-> NoScan]]

At(s, pc) == run[s].pc = pc
Goto(s, pc) == run' = [run EXCEPT ![s].pc = pc]
NextTool(s) == run' = [run EXCEPT ![s] = [pc |-> "loop", i |-> @.i + 1]]

\* Whether a statement takes effect: under context.Background(), and under the
\* context of the scan, with which it fails once that is cancelled.
Outcomes == IF StoreFaults THEN BOOLEAN ELSE {TRUE}
CtxOutcomes(s) == IF s \in ctx THEN {FALSE} ELSE Outcomes

\* UpdateScan writes every column from the run's own copy of the row.
WriteRow(s, r, outcomes) == \E done \in outcomes : row' = IF done THEN [row EXCEPT ![s] = r] ELSE row
Ended(status) == [status |-> status, aggr |-> FALSE]

Record(s, tools) ==
  \E done \in CtxOutcomes(s) :
    recorded' = IF done THEN [recorded EXCEPT ![s] = @ \cup tools] ELSE recorded

Cancelled(s) == row[s].status = "cancelled"

-----------------------------------------------------------------------------
(* Start *)

\* (Mutant: the handler does not look at the slot.)
PressAnyway(s) ==
  /\ At(s, "idle")
  /\ slot' = s
  /\ Goto(s, "pressed")
  /\ UNCHANGED <<row, recorded, diffed, ctx, killed, ask>>

\* handleCreateScan: one scan at a time in this process.
Press(s) ==
  /\ At(s, "idle")
  /\ slot = NoScan
  /\ slot' = s
  /\ Goto(s, "pressed")
  /\ UNCHANGED <<row, recorded, diffed, ctx, killed, ask>>

\* CreateScan inserts the row with status running.
Create(s) ==
  /\ At(s, IF s \in Web THEN "pressed" ELSE "idle")
  /\ \E done \in CtxOutcomes(s) :
       /\ row' = IF done THEN [row EXCEPT ![s] = Running] ELSE row
       /\ Goto(s, IF done THEN "created" ELSE "gaveup")
  /\ UNCHANGED <<recorded, diffed, ctx, killed, slot, ask>>

\* GetTarget and the snapshot of the assets; without the target Run returns and
\* leaves the row as it is.
Prepare(s) ==
  /\ At(s, "created")
  /\ \E done \in CtxOutcomes(s) : Goto(s, IF done THEN "loop" ELSE "gaveup")
  /\ UNCHANGED <<row, recorded, diffed, ctx, killed, slot, ask>>

-----------------------------------------------------------------------------
(* The loop over the tools *)

\* A cancelled context or row is noticed before the next tool and made final
\* under context.Background().
StopAtHead(s) ==
  /\ At(s, "loop") /\ run[s].i \in Tools
  /\ s \in ctx \/ Cancelled(s)
  /\ WriteRow(s, Ended("cancelled"), Outcomes)
  /\ Goto(s, "gaveup")
  /\ UNCHANGED <<recorded, diffed, ctx, killed, slot, ask>>

\* Both checks pass, the second one also because GetScan fails.
PassChecks(s) == At(s, "loop") /\ s \notin ctx /\ (~Cancelled(s) \/ StoreFaults)

\* shouldSkip: a tool that the scan's type leaves out is recorded as skipped.
SkipTool(s) ==
  /\ PassChecks(s) /\ run[s].i \in Skip[s]
  /\ Record(s, {run[s].i})
  /\ NextTool(s)
  /\ UNCHANGED <<row, diffed, ctx, killed, slot, ask>>

EnterTool(s) ==
  /\ PassChecks(s) /\ run[s].i \in Tools \ Skip[s]
  /\ Goto(s, "checked")
  /\ UNCHANGED <<row, recorded, diffed, ctx, killed, slot, ask>>

\* The phase is written with status running, over a cancellation that another
\* process wrote since the check.
StartTool(s) ==
  /\ At(s, "checked")
  /\ WriteRow(s, Running, CtxOutcomes(s))
  /\ Goto(s, "tool")
  /\ UNCHANGED <<recorded, diffed, ctx, killed, slot, ask>>

\* Every two seconds the poll goroutine looks for an external cancellation.
Poll(s) ==
  /\ At(s, "tool") /\ s \notin killed
  /\ Cancelled(s)
  /\ killed' = killed \cup {s}
  /\ UNCHANGED <<row, run, recorded, diffed, ctx, slot, ask>>

\* The tool finishes, fails, times out or is killed; nuclei reports what it has
\* found so far and no error in any of these cases.
ToolEnds(s) ==
  /\ At(s, "tool")
  /\ Goto(s, "ok") \/ Goto(s, "error")
  /\ killed' = killed \ {s}
  /\ UNCHANGED <<row, recorded, diffed, ctx, slot, ask>>

ToolSucceeds(s) ==
  /\ At(s, "ok")
  /\ Record(s, {run[s].i})
  /\ NextTool(s)
  /\ UNCHANGED <<row, diffed, ctx, killed, slot, ask>>

\* (Mutant: the loop is left without a record of the other tools.)
NothingToProbeSilent(s) ==
  /\ At(s, "ok") /\ run[s].i = Probe
  /\ Record(s, {Probe})
  /\ Goto(s, "diff")
  /\ UNCHANGED <<row, diffed, ctx, killed, slot, ask>>

\* httpx found no URL: the other tools are recorded as skipped.
NothingToProbe(s) ==
  /\ At(s, "ok") /\ run[s].i = Probe
  /\ Record(s, {i \in Tools : i = Probe \/ (i > Probe /\ i \notin Skip[s])})
  /\ Goto(s, "diff")
  /\ UNCHANGED <<row, diffed, ctx, killed, slot, ask>>

\* An error is taken for the cancellation if the row says so.
ToolCancelled(s) ==
  /\ At(s, "error")
  /\ Cancelled(s)
  /\ Record(s, {run[s].i})
  /\ WriteRow(s, Ended("cancelled"), Outcomes)
  /\ Goto(s, "gaveup")
  /\ UNCHANGED <<diffed, ctx, killed, slot, ask>>

ToolFails(s) ==
  /\ At(s, "error")
  /\ ~Cancelled(s) \/ StoreFaults
  /\ Record(s, {run[s].i})
  /\ IF run[s].i \in Hard THEN Goto(s, "failing") ELSE NextTool(s)
  /\ UNCHANGED <<row, diffed, ctx, killed, slot, ask>>

\* (Mutants: the loop goes on; the failure is returned and not written.)
FailScanGoesOn(s) ==
  /\ At(s, "failing")
  /\ WriteRow(s, Ended("failed"), CtxOutcomes(s))
  /\ NextTool(s)
  /\ UNCHANGED <<recorded, diffed, ctx, killed, slot, ask>>
FailScanUnsaved(s) ==
  /\ At(s, "failing")
  /\ Goto(s, "gaveup")
  /\ UNCHANGED <<row, recorded, diffed, ctx, killed, slot, ask>>

\* Status failed, under the context of the scan.
FailScan(s) ==
  /\ At(s, "failing")
  /\ WriteRow(s, Ended("failed"), CtxOutcomes(s))
  /\ Goto(s, "gaveup")
  /\ UNCHANGED <<recorded, diffed, ctx, killed, slot, ask>>

-----------------------------------------------------------------------------
(* The end *)

LeaveLoop(s) ==
  /\ At(s, "loop") /\ run[s].i \notin Tools
  /\ Goto(s, "diff")
  /\ UNCHANGED <<row, recorded, diffed, ctx, killed, slot, ask>>

\* The phase is written, then assets and findings are compared and changed, all
\* under the context of the scan.
Diff(s) ==
  /\ At(s, "diff")
  /\ WriteRow(s, Running, CtxOutcomes(s))
  /\ \E done \in CtxOutcomes(s) : diffed' = IF done THEN diffed \cup {s} ELSE diffed
  /\ Goto(s, "closing")
  /\ UNCHANGED <<recorded, ctx, killed, slot, ask>>

\* (Mutant: the last write uses context.Background().)
CompleteInBackground(s) ==
  /\ At(s, "closing")
  /\ \E done \in Outcomes :
       WriteRow(s, [status |-> "completed", aggr |-> done], Outcomes)
  /\ Goto(s, "returned")
  /\ UNCHANGED <<recorded, diffed, ctx, killed, slot, ask>>

\* The aggregates (as far as they could be computed) and status completed.  Run
\* returns without an error, whether or not the row is written.
Complete(s) ==
  /\ At(s, "closing")
  /\ \E done \in Outcomes :
       WriteRow(s, [status |-> "completed", aggr |-> done], CtxOutcomes(s))
  /\ Goto(s, "returned")
  /\ UNCHANGED <<recorded, diffed, ctx, killed, slot, ask>>

\* (Mutant: only a scan that went well gives the slot back.)
LeaveIfOk(s) ==
  /\ At(s, "returned") \/ At(s, "gaveup")
  /\ Goto(s, "over")
  /\ slot' = IF s \in Web /\ At(s, "returned") THEN NoScan ELSE slot
  /\ UNCHANGED <<row, recorded, diffed, ctx, killed, ask>>

\* Run has returned; the UI's goroutine clears the slot.
Leave(s) ==
  /\ At(s, "returned") \/ At(s, "gaveup")
  /\ Goto(s, "over")
  /\ slot' = IF s \in Web THEN NoScan ELSE slot
  /\ UNCHANGED <<row, recorded, diffed, ctx, killed, ask>>

-----------------------------------------------------------------------------
(* Cancellation *)

\* A blackout, a shutdown or Ctrl-C, in the process that runs the scan.
CancelCtx(s) ==
  /\ MayCancel
  /\ s \notin Web \cup ctx
  /\ ~At(s, "over")
  /\ ctx' = ctx \cup {s}
  /\ UNCHANGED <<row, run, recorded, diffed, killed, slot, ask>>

\* handleCancelScan reads the row, turns down a scan that is not running,
AskRead(k, s) ==
  /\ ask[k].pc = "idle"
  /\ row[s].status = "running"
  /\ ask' = [ask EXCEPT ![k] = [pc |-> "read", scan |-> s]]
  /\ UNCHANGED <<row, run, recorded, diffed, ctx, killed, slot>>

\* cancels the context of the scan of this process, if it has one,
AskCancel(k) ==
  /\ ask[k].pc = "read"
  /\ IF slot # NoScan
     THEN ctx' = ctx \cup {slot} /\ ask' = [ask EXCEPT ![k].pc = "over"]
     ELSE UNCHANGED ctx /\ ask' = [ask EXCEPT ![k].pc = "writing"]
  /\ UNCHANGED <<row, run, recorded, diffed, killed, slot>>

\* or writes its copy of the row back with status cancelled.
AskWrite(k) ==
  /\ ask[k].pc = "writing"
  /\ WriteRow(ask[k].scan, Ended("cancelled"), Outcomes)
  /\ ask' = [ask EXCEPT ![k].pc = "over"]
  /\ UNCHANGED <<run, recorded, diffed, ctx, killed, slot>>

-----------------------------------------------------------------------------

RunStep(s) ==
  \/ Create(s) \/ Prepare(s) \/ StopAtHead(s) \/ SkipTool(s) \/ EnterTool(s) \/ StartTool(s)
  \/ ToolEnds(s) \/ ToolSucceeds(s) \/ NothingToProbe(s) \/ ToolCancelled(s) \/ ToolFails(s)
  \/ FailScan(s) \/ LeaveLoop(s) \/ Diff(s) \/ Complete(s) \/ Leave(s)

Next ==
  \/ \E s \in Web : Press(s)
  \/ \E s \in Scans : RunStep(s) \/ Poll(s) \/ CancelCtx(s)
  \/ \E k \in Asks : (\E s \in Scans : AskRead(k, s)) \/ AskCancel(k) \/ AskWrite(k)

Spec == Init /\ [][Next]_vars

\* A goroutine that can take a step does, and every tool ends: it has a timeout.
FairSpec == Spec /\ \A s \in Scans : WF_vars(RunStep(s) /\ ~At(s, "idle"))
-----------------------------------------------------------------------------
(* Properties *)

\* The UI runs one scan at a time, and its slot has the cancel function of that
\* scan for as long as it runs (webui/handlers.go:1013-1038).
SlotIsScan == \A s \in Web : run[s].pc \notin {"idle", "over"} => slot = s

\* A scan whose context was not cancelled ends with its row in a final status,
\* whatever failed and whoever cancelled it through the database: no reader takes
\* it for running for ever, and no reap fails it later.
EndedIsFinal ==
  \A s \in Scans : (run[s].pc \in {"returned", "gaveup", "over"} /\ s \notin ctx)
                      => row[s].status \in Final

\* What is over stays as it was reported, unless a cancel request read the row
\* while the scan was running.
FinalStays ==
  [][\A s \in Scans : row[s].status \in Final /\ row'[s] # row[s]
                         => \E k \in Asks : ask[k].scan = s]_vars

\* Assets are declared disappeared and findings resolved only on the evidence of a
\* run in which every tool was given its turn (pipeline.go:508).
DiffAfterTools == \A s \in diffed : Tools \ Skip[s] \subseteq recorded[s]

\* A row that says completed is of a scan whose changes are in the database, and
\* has its aggregates.
CompletedIsComplete ==
  \A s \in Scans : row[s].status = "completed" => row[s].aggr /\ s \in diffed

\* A scan that occupies the UI gives it back, whether it completes, fails or is
\* cancelled.
SlotFreed == \A s \in Web : slot = s ~> slot # s

\* A scan marked as cancelled in the database is cancelled: "The pipeline checks
\* scan status at each tool boundary" (webui/handlers.go:1148-1149).
CancelSticks == [][\A s \in Scans : Cancelled(s) => row'[s].status = "cancelled"]_vars
=============================================================================
