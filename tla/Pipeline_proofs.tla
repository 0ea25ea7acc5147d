-------------------------- MODULE Pipeline_proofs --------------------------
(***************************************************************************)
(* Type correctness of Pipeline, the UI's slot and how runs end, for any   *)
(* number of scans, tools and requests.  What is over stays over.  Where   *)
(* no statement fails by itself (StoreFaults is FALSE: statements still    *)
(* fail under a cancelled context), every run whose context lives ends     *)
(* with a final row, the diff phase follows the tools, and completed rows  *)
(* are complete.                                                           *)
(***************************************************************************)
EXTENDS Pipeline, TLAPS

Rows == [status : Final \cup {"none", "running"}, aggr : BOOLEAN]
Runs == [pc : RunPCs, i : 1..NTools + 1]

\* A run that is at a tool is at one of the registered tools.
ToolPCs == {"checked", "tool", "ok", "error", "failing"}
AtTool == \A s \in Scans : run[s].pc \in ToolPCs => run[s].i \in Tools

TypeInv == TypeOK /\ AtTool

-----------------------------------------------------------------------------
(* The steps' building blocks *)

\* A statement under the scan's context can at most succeed or fail.
LEMMA OutcomesAreBoolean == \A s : Outcomes \subseteq BOOLEAN /\ CtxOutcomes(s) \subseteq BOOLEAN
  BY PipelineAssumption DEF Outcomes, CtxOutcomes

\* UpdateScan writes the row of its scan or nothing.
LEMMA WriteRowEffect ==
  ASSUME NEW s, NEW r, NEW o, WriteRow(s, r, o)
  PROVE  row' = row \/ row' = [row EXCEPT ![s] = r]
  BY Zenon DEF WriteRow

\* A row written is a row.
LEMMA WriteRowType ==
  ASSUME NEW s, NEW r \in Rows, NEW o, row \in [Scans -> Rows], WriteRow(s, r, o)
  PROVE  row' \in [Scans -> Rows]
  BY WriteRowEffect, SMT

\* A run goes where the step says and keeps its index.
LEMMA GotoType ==
  ASSUME NEW s \in Scans, NEW l \in RunPCs, run \in [Scans -> Runs], Goto(s, l)
  PROVE  /\ run' \in [Scans -> Runs]
         /\ run'[s].pc = l /\ run'[s].i = run[s].i
         /\ \A o \in Scans \ {s} : run'[o] = run[o]
  BY SMT DEF Goto, Runs

\* The next tool has the next index, at most the one behind the last tool.
LEMMA NextToolType ==
  ASSUME NEW s \in Scans, run \in [Scans -> Runs], run[s].i \in Tools, NextTool(s)
  PROVE  /\ run' \in [Scans -> Runs]
         /\ run'[s].pc = "loop" /\ run'[s].i = run[s].i + 1
         /\ \A o \in Scans \ {s} : run'[o] = run[o]
  <1>1. run[s].i + 1 \in 1..NTools + 1
    BY PipelineAssumption, SMT DEF Tools
  <1> QED
    BY <1>1, SMT DEF NextTool, Runs, RunPCs

\* Neither takes a run to a tool that does not exist.
LEMMA GotoKeeps ==
  ASSUME NEW s \in Scans, NEW l \in RunPCs, run \in [Scans -> Runs], AtTool, Goto(s, l),
         l \in ToolPCs => run[s].i \in Tools
  PROVE  run' \in [Scans -> Runs] /\ AtTool'
  <1>1. /\ run' \in [Scans -> Runs]
        /\ run'[s].i = run[s].i /\ run'[s].pc = l
        /\ \A o \in Scans \ {s} : run'[o] = run[o]
    BY GotoType
  <1> QED
    BY <1>1, Zenon DEF AtTool

\* Nor does the next iteration: it is not at its tool yet.
LEMMA NextToolKeeps ==
  ASSUME NEW s \in Scans, run \in [Scans -> Runs], AtTool, run[s].i \in Tools, NextTool(s)
  PROVE  run' \in [Scans -> Runs] /\ AtTool'
  <1>1. /\ run' \in [Scans -> Runs]
        /\ run'[s].pc = "loop"
        /\ \A o \in Scans \ {s} : run'[o] = run[o]
    BY NextToolType
  <1>2. "loop" \notin ToolPCs
    BY DEF ToolPCs
  <1> QED
    BY <1>1, <1>2, Zenon DEF AtTool

\* Only registered tools are recorded.
LEMMA RecordType ==
  ASSUME NEW s \in Scans, NEW T \in SUBSET Tools, recorded \in [Scans -> SUBSET Tools], Record(s, T)
  PROVE  recorded' \in [Scans -> SUBSET Tools]
  BY Zenon DEF Record

-----------------------------------------------------------------------------
(* Types *)

\* The initial state is well typed.
LEMMA TypeInit == Init => TypeInv
  BY PipelineAssumption, SMT DEF Init, TypeInv, TypeOK, AtTool, ToolPCs, NoRow, RunPCs, Final, Tools

\* Every variable keeps its type.
LEMMA TypeStep == TypeInv /\ [Next]_vars => TypeInv'
<1> SUFFICES ASSUME TypeInv, [Next]_vars PROVE TypeInv'
  OBVIOUS
<1>a. /\ row \in [Scans -> Rows] /\ run \in [Scans -> Runs]
      /\ recorded \in [Scans -> SUBSET Tools] /\ AtTool
  BY DEF TypeInv, TypeOK, Rows, Runs
<1>b. \A w \in {"completed", "cancelled", "failed", "running", "none"}, b \in BOOLEAN :
        [status |-> w, aggr |-> b] \in Rows
  BY DEF Rows, Final
<1>c. {Running, Ended("cancelled"), Ended("failed")} \subseteq Rows
  BY <1>b DEF Running, Ended
<1>d. Web \subseteq Scans
  BY PipelineAssumption
<1>1. ASSUME NEW s \in Web, Press(s) PROVE TypeInv'
  <2>1. run' \in [Scans -> Runs] /\ AtTool'
    BY <1>1, <1>a, <1>d, GotoKeeps DEF Press, RunPCs, ToolPCs
  <2> QED
    BY <1>1, <2>1, SMT DEF Press, TypeInv, TypeOK, Runs
<1>2. ASSUME NEW s \in Scans, RunStep(s) PROVE TypeInv'
  <2>1. CASE Create(s)
    <3>1. row' \in [Scans -> Rows]
      BY <1>a, <1>c, <2>1, SMT DEF Create
    <3>2. run' \in [Scans -> Runs] /\ AtTool'
      <4>1. PICK l \in {"created", "gaveup"} : Goto(s, l)
        BY <2>1, Zenon DEF Create
      <4> QED
        BY <4>1, <1>a, GotoKeeps DEF RunPCs, ToolPCs
    <3> QED
      BY <2>1, <3>1, <3>2 DEF Create, TypeInv, TypeOK, Rows, Runs
  <2>2. CASE Prepare(s)
    <3>1. PICK l \in {"loop", "gaveup"} : Goto(s, l)
      BY <2>2, Zenon DEF Prepare
    <3>2. run' \in [Scans -> Runs] /\ AtTool'
      BY <3>1, <1>a, GotoKeeps DEF RunPCs, ToolPCs
    <3> QED
      BY <2>2, <3>2 DEF Prepare, TypeInv, TypeOK, Runs
  <2>3. CASE StopAtHead(s) \/ FailScan(s)
    <3>1. row' \in [Scans -> Rows]
      BY <1>a, <1>c, <2>3, WriteRowType DEF StopAtHead, FailScan
    <3>2. run' \in [Scans -> Runs] /\ AtTool'
      BY <2>3, <1>a, GotoKeeps DEF StopAtHead, FailScan, RunPCs, ToolPCs
    <3> QED
      BY <2>3, <3>1, <3>2 DEF StopAtHead, FailScan, TypeInv, TypeOK, Rows, Runs
  <2>4. CASE SkipTool(s)
    <3>1. run[s].i \in Tools
      BY <2>4, PipelineAssumption DEF SkipTool
    <3>2. recorded' \in [Scans -> SUBSET Tools]
      BY <1>a, <2>4, <3>1, RecordType DEF SkipTool
    <3>3. run' \in [Scans -> Runs] /\ AtTool'
      BY <2>4, <1>a, <3>1, NextToolKeeps DEF SkipTool
    <3> QED
      BY <2>4, <3>2, <3>3 DEF SkipTool, TypeInv, TypeOK, Runs
  <2>5. CASE EnterTool(s)
    <3>0. run[s].i \in Tools /\ Goto(s, "checked")
      BY <2>5 DEF EnterTool
    <3>1. run' \in [Scans -> Runs] /\ AtTool'
      BY <3>0, <1>a, GotoKeeps DEF RunPCs
    <3> QED
      BY <2>5, <3>1 DEF EnterTool, TypeInv, TypeOK, Runs
  <2>6. CASE StartTool(s)
    <3>1. row' \in [Scans -> Rows]
      BY <1>a, <1>c, <2>6, WriteRowType DEF StartTool
    <3>0. run[s].i \in Tools
      BY <2>6, <1>a DEF StartTool, At, AtTool, ToolPCs
    <3>2. run' \in [Scans -> Runs] /\ AtTool'
      BY <2>6, <3>0, <1>a, GotoKeeps DEF StartTool, RunPCs
    <3> QED
      BY <2>6, <3>1, <3>2 DEF StartTool, TypeInv, TypeOK, Rows, Runs
  <2>7. CASE ToolEnds(s)
    <3>0. run[s].i \in Tools
      BY <2>7, <1>a DEF ToolEnds, At, AtTool, ToolPCs
    <3>1. run' \in [Scans -> Runs] /\ AtTool'
      BY <2>7, <3>0, <1>a, GotoKeeps DEF ToolEnds, RunPCs
    <3> QED
      BY <2>7, <3>1 DEF ToolEnds, TypeInv, TypeOK, Runs
  <2>8. CASE ToolSucceeds(s)
    <3>1. run[s].i \in Tools
      BY <1>a, <2>8 DEF ToolSucceeds, At, AtTool, ToolPCs
    <3>2. recorded' \in [Scans -> SUBSET Tools]
      BY <1>a, <2>8, <3>1, RecordType DEF ToolSucceeds
    <3>3. run' \in [Scans -> Runs] /\ AtTool'
      BY <2>8, <1>a, <3>1, NextToolKeeps DEF ToolSucceeds
    <3> QED
      BY <2>8, <3>2, <3>3 DEF ToolSucceeds, TypeInv, TypeOK, Runs
  <2>9. CASE NothingToProbe(s)
    <3>1. recorded' \in [Scans -> SUBSET Tools]
      BY <1>a, <2>9, RecordType DEF NothingToProbe
    <3>2. run' \in [Scans -> Runs] /\ AtTool'
      BY <2>9, <1>a, GotoKeeps DEF NothingToProbe, RunPCs, ToolPCs
    <3> QED
      BY <2>9, <3>1, <3>2 DEF NothingToProbe, TypeInv, TypeOK, Runs
  <2>10. CASE ToolCancelled(s)
    <3>1. run[s].i \in Tools
      BY <1>a, <2>10 DEF ToolCancelled, At, AtTool, ToolPCs
    <3>2. recorded' \in [Scans -> SUBSET Tools] /\ row' \in [Scans -> Rows]
      BY <1>a, <1>c, <2>10, <3>1, RecordType, WriteRowType DEF ToolCancelled
    <3>3. run' \in [Scans -> Runs] /\ AtTool'
      BY <2>10, <1>a, GotoKeeps DEF ToolCancelled, RunPCs, ToolPCs
    <3> QED
      BY <2>10, <3>2, <3>3 DEF ToolCancelled, TypeInv, TypeOK, Rows, Runs
  <2>11. CASE ToolFails(s)
    <3>1. run[s].i \in Tools
      BY <1>a, <2>11 DEF ToolFails, At, AtTool, ToolPCs
    <3>2. recorded' \in [Scans -> SUBSET Tools]
      BY <1>a, <2>11, <3>1, RecordType DEF ToolFails
    <3>3. run' \in [Scans -> Runs] /\ AtTool'
      <4>1. CASE Goto(s, "failing")
        BY <4>1, <1>a, <3>1, GotoKeeps DEF RunPCs, ToolPCs
      <4>2. CASE NextTool(s)
        BY <4>2, <1>a, <3>1, NextToolKeeps
      <4> QED
        BY <2>11, <4>1, <4>2 DEF ToolFails
    <3> QED
      BY <2>11, <3>2, <3>3 DEF ToolFails, TypeInv, TypeOK, Runs
  <2>12. CASE LeaveLoop(s)
    <3>1. run' \in [Scans -> Runs] /\ AtTool'
      BY <2>12, <1>a, GotoKeeps DEF LeaveLoop, RunPCs, ToolPCs
    <3> QED
      BY <2>12, <3>1 DEF LeaveLoop, TypeInv, TypeOK, Runs
  <2>13. CASE Diff(s)
    <3>1. row' \in [Scans -> Rows]
      BY <1>a, <1>c, <2>13, WriteRowType DEF Diff
    <3>2. run' \in [Scans -> Runs] /\ AtTool'
      BY <2>13, <1>a, GotoKeeps DEF Diff, RunPCs, ToolPCs
    <3>3. diffed' \subseteq Scans
      BY <2>13, Zenon DEF Diff, TypeInv, TypeOK
    <3> QED
      BY <2>13, <3>1, <3>2, <3>3 DEF Diff, TypeInv, TypeOK, Rows, Runs
  <2>14. CASE Complete(s)
    <3>1. PICK d \in Outcomes : WriteRow(s, [status |-> "completed", aggr |-> d], CtxOutcomes(s))
      BY <2>14 DEF Complete
    <3>2. [status |-> "completed", aggr |-> d] \in Rows
      BY <1>b, OutcomesAreBoolean
    <3>3. row' \in [Scans -> Rows]
      BY <1>a, <3>1, <3>2, WriteRowType
    <3>4. run' \in [Scans -> Runs] /\ AtTool'
      BY <2>14, <1>a, GotoKeeps DEF Complete, RunPCs, ToolPCs
    <3> QED
      BY <2>14, <3>3, <3>4 DEF Complete, TypeInv, TypeOK, Rows, Runs
  <2>15. CASE Leave(s)
    <3>1. run' \in [Scans -> Runs] /\ AtTool'
      BY <2>15, <1>a, GotoKeeps DEF Leave, RunPCs, ToolPCs
    <3> QED
      BY <2>15, <3>1 DEF Leave, TypeInv, TypeOK, Runs
  <2> QED
    BY <1>2, <2>1, <2>2, <2>3, <2>4, <2>5, <2>6, <2>7, <2>8, <2>9, <2>10, <2>11, <2>12, <2>13, <2>14, <2>15 DEF RunStep
<1>3. ASSUME NEW s \in Scans, Poll(s) \/ CancelCtx(s) PROVE TypeInv'
  BY <1>3 DEF Poll, CancelCtx, TypeInv, TypeOK, AtTool
<1>4. ASSUME NEW k \in Asks, NEW s \in Scans, AskRead(k, s) PROVE TypeInv'
  BY <1>4, SMT DEF AskRead, TypeInv, TypeOK, AtTool
<1>5. ASSUME NEW k \in Asks, AskCancel(k) PROVE TypeInv'
  BY <1>5, <1>d, SMT DEF AskCancel, TypeInv, TypeOK, AtTool
<1>6. ASSUME NEW k \in Asks, AskWrite(k) PROVE TypeInv'
  <2>1. row' \in [Scans -> Rows]
    BY <1>a, <1>c, <1>6, WriteRowType DEF AskWrite
  <2> QED
    BY <1>6, <2>1, SMT DEF AskWrite, TypeInv, TypeOK, AtTool, Rows
<1>7. CASE UNCHANGED vars
  BY <1>7 DEF vars, TypeInv, TypeOK, AtTool
<1> QED
  BY <1>1, <1>2, <1>3, <1>4, <1>5, <1>6, <1>7 DEF Next

\* The rows, runs, requests and the slot stay within their types in every reachable
\* state, for any number of scans and tools.
THEOREM PipelineTypeCorrect == Spec => []TypeOK
<1>1. TypeInv => TypeOK
  BY DEF TypeInv
<1> QED
  BY <1>1, TypeInit, TypeStep, PTL DEF Spec

-----------------------------------------------------------------------------
(* What a step of a run can touch *)

\* A move is of one run.
LEMMA MoveOne ==
  ASSUME NEW s \in Scans, run \in [Scans -> Runs], NextTool(s) \/ \E l : Goto(s, l)
  PROVE  \A o \in Scans \ {s} : run'[o] = run[o]
  BY SMT DEF NextTool, Goto

\* A run moves itself only, and none starts as the UI's without the button.
LEMMA RunStepMoves ==
  ASSUME TypeInv, NEW s \in Scans, RunStep(s)
  PROVE  /\ \A o \in Scans \ {s} : run'[o] = run[o]
         /\ run[s].pc # "over"
         /\ s \in Web => run[s].pc # "idle"
         /\ Leave(s) \/ slot' = slot
         /\ ctx' = ctx /\ ask' = ask
<1>1. run \in [Scans -> Runs]
  BY DEF TypeInv, TypeOK, Runs
<1>2. NextTool(s) \/ \E l : Goto(s, l)
  BY Zenon DEF RunStep, Create, Prepare, StopAtHead, SkipTool, EnterTool, StartTool, ToolEnds, ToolSucceeds,
       NothingToProbe, ToolCancelled, ToolFails, FailScan, LeaveLoop, Diff, Complete, Leave
<1>3. run[s].pc # "over" /\ (s \in Web => run[s].pc # "idle")
  BY DEF RunStep, Create, Prepare, StopAtHead, SkipTool, EnterTool, StartTool, ToolEnds, ToolSucceeds,
       NothingToProbe, ToolCancelled, ToolFails, FailScan, LeaveLoop, Diff, Complete, Leave, PassChecks, At
<1>4. (Leave(s) \/ slot' = slot) /\ ctx' = ctx /\ ask' = ask
  BY DEF RunStep, Create, Prepare, StopAtHead, SkipTool, EnterTool, StartTool, ToolEnds, ToolSucceeds,
       NothingToProbe, ToolCancelled, ToolFails, FailScan, LeaveLoop, Diff, Complete, Leave
<1> QED
  BY <1>1, <1>2, <1>3, <1>4, MoveOne

-----------------------------------------------------------------------------
(* The UI's slot *)

\* The slot follows the UI's only active scan.
LEMMA SlotStep == TypeInv /\ SlotIsScan /\ [Next]_vars => SlotIsScan'
<1> SUFFICES ASSUME TypeInv, SlotIsScan, [Next]_vars, NEW w \in Web,
                    run'[w].pc \notin {"idle", "over"}
             PROVE  slot' = w
  BY Zenon DEF SlotIsScan
<1>a. w \in Scans /\ w # NoScan /\ Web \subseteq Scans
  BY PipelineAssumption
<1>b. run \in [Scans -> Runs]
  BY DEF TypeInv, TypeOK, Runs
<1>1. ASSUME NEW s \in Web, Press(s) PROVE slot' = w
  <2>1. CASE w = s
    BY <1>1, <2>1 DEF Press
  <2>2. CASE w # s
    <3>1. run'[w] = run[w]
      BY <1>1, <1>a, <1>b, <2>2, MoveOne, Zenon DEF Press
    <3> QED
      BY <1>1, <1>a, <3>1 DEF Press, SlotIsScan
  <2> QED
    BY <2>1, <2>2
<1>2. ASSUME NEW s \in Scans, RunStep(s) PROVE slot' = w
  <2>1. CASE Leave(s)
    <3>1. w # s
      BY <1>a, <1>b, <2>1, GotoType DEF Leave, RunPCs
    <3>2. slot = w
      BY <1>2, <1>a, <3>1, RunStepMoves DEF SlotIsScan
    <3>3. s \notin Web
      BY <2>1, <3>1, <3>2 DEF Leave, At, SlotIsScan
    <3> QED
      BY <2>1, <3>2, <3>3 DEF Leave
  <2>2. CASE slot' = slot
    <3>1. run[w].pc \notin {"idle", "over"}
      BY <1>2, <1>a, RunStepMoves
    <3> QED
      BY <2>2, <3>1 DEF SlotIsScan
  <2> QED
    BY <1>2, <2>1, <2>2, RunStepMoves
<1>3. ASSUME NEW s \in Scans, Poll(s) \/ CancelCtx(s) PROVE slot' = w
  BY <1>3 DEF Poll, CancelCtx, SlotIsScan
<1>4. ASSUME NEW k \in Asks, AskCancel(k) \/ AskWrite(k) \/ \E s \in Scans : AskRead(k, s) PROVE slot' = w
  BY <1>4 DEF AskRead, AskCancel, AskWrite, SlotIsScan
<1>5. CASE UNCHANGED vars
  BY <1>5 DEF vars, SlotIsScan
<1> QED
  BY <1>1, <1>2, <1>3, <1>4, <1>5 DEF Next

\* At most one scan of the UI is active, and the cancel function in the slot is its
\* own, however many scans, requests and failing statements there are.
THEOREM SlotFollowsScan == Spec => []SlotIsScan
<1>1. Init => SlotIsScan
  BY PipelineAssumption DEF Init, SlotIsScan
<1> QED
  BY <1>1, TypeInit, TypeStep, SlotStep, PTL DEF Spec

-----------------------------------------------------------------------------
(* What a step of a run does to the scans *)

\* Without faults of the store a write under context.Background() takes effect, and
\* so does one under a context that lives.
LEMMA SureWrite ==
  ASSUME ~StoreFaults, NEW s \in Scans, NEW r, NEW o, row \in [Scans -> Rows],
         WriteRow(s, r, o), o = Outcomes \/ (o = CtxOutcomes(s) /\ s \notin ctx)
  PROVE  row'[s] = r
<1>1. o = {TRUE}
  BY DEF Outcomes, CtxOutcomes
<1> QED
  BY <1>1, SMT DEF WriteRow

\* A write is of the row of one scan.
LEMMA OtherRows ==
  ASSUME NEW s \in Scans, NEW r, NEW o, WriteRow(s, r, o), row \in [Scans -> Rows]
  PROVE  \A x \in Scans \ {s} : row'[x] = row[x]
  BY WriteRowEffect, SMT

\* tool_runs only grow, and those of one scan only.
LEMMA RecordGrows ==
  ASSUME NEW s \in Scans, NEW T, recorded \in [Scans -> SUBSET Tools], Record(s, T)
  PROVE  /\ \A x \in Scans : recorded[x] \subseteq recorded'[x]
         /\ \A x \in Scans \ {s} : recorded'[x] = recorded[x]
<1>1. \/ recorded' = recorded
      \/ recorded' = [recorded EXCEPT ![s] = @ \cup T]
  BY Zenon DEF Record
<1> QED
  BY <1>1, SMT

\* Without faults a tool of a scan whose context lives gets its row.
LEMMA SureRecord ==
  ASSUME ~StoreFaults, NEW s \in Scans \ ctx, NEW T, recorded \in [Scans -> SUBSET Tools], Record(s, T)
  PROVE  recorded'[s] = recorded[s] \cup T
<1>1. CtxOutcomes(s) = {TRUE}
  BY DEF Outcomes, CtxOutcomes
<1>2. recorded' = [recorded EXCEPT ![s] = @ \cup T]
  BY <1>1, Zenon DEF Record
<1> QED
  BY <1>2, SMT

\* A step of a run writes the rows of its own scan; records and diffs only grow.
LEMMA RunStepWrites ==
  ASSUME TypeInv, NEW s \in Scans, RunStep(s)
  PROVE  /\ \A x \in Scans \ {s} : row'[x] = row[x]
         /\ \A x \in Scans : recorded[x] \subseteq recorded'[x]
         /\ \A x \in Scans \ {s} : recorded'[x] = recorded[x]
         /\ diffed \subseteq diffed'
         /\ diffed' \subseteq diffed \cup {s}
<1>a. row \in [Scans -> Rows] /\ recorded \in [Scans -> SUBSET Tools]
  BY DEF TypeInv, TypeOK, Rows
<1>1. \A x \in Scans \ {s} : row'[x] = row[x]
  <2>1. CASE row' = row
    BY <2>1
  <2>2. CASE row' = [row EXCEPT ![s] = Running]
    BY <2>2, <1>a, SMT
  <2>3. CASE \E r, o : WriteRow(s, r, o)
    BY <2>3, <1>a, OtherRows
  <2> QED
    <3>1. row' = row \/ row' = [row EXCEPT ![s] = Running] \/ \E r, o : WriteRow(s, r, o)
      BY Zenon DEF RunStep, Create, Prepare, StopAtHead, SkipTool, EnterTool, StartTool, ToolEnds, ToolSucceeds,
           NothingToProbe, ToolCancelled, ToolFails, FailScan, LeaveLoop, Diff, Complete, Leave
    <3> QED
      BY <3>1, <2>1, <2>2, <2>3
<1>2. /\ \A x \in Scans : recorded[x] \subseteq recorded'[x]
      /\ \A x \in Scans \ {s} : recorded'[x] = recorded[x]
  <2>1. recorded' = recorded \/ \E T : Record(s, T)
    BY Zenon DEF RunStep, Create, Prepare, StopAtHead, SkipTool, EnterTool, StartTool, ToolEnds, ToolSucceeds,
         NothingToProbe, ToolCancelled, ToolFails, FailScan, LeaveLoop, Diff, Complete, Leave
  <2> QED
    BY <2>1, <1>a, RecordGrows
<1>3. diffed \subseteq diffed' /\ diffed' \subseteq diffed \cup {s}
  <2>1. diffed' = diffed \/ diffed' = diffed \cup {s}
    BY Zenon DEF RunStep, Create, Prepare, StopAtHead, SkipTool, EnterTool, StartTool, ToolEnds, ToolSucceeds,
         NothingToProbe, ToolCancelled, ToolFails, FailScan, LeaveLoop, Diff, Complete, Leave
  <2> QED
    BY <2>1
<1> QED
  BY <1>1, <1>2, <1>3

\* What a cancel request, a cancelled context, the poll goroutine or the button
\* leaves alone.
LEMMA OtherStepWrites ==
  ASSUME TypeInv,
         \/ \E s \in Web : Press(s)
         \/ \E s \in Scans : Poll(s) \/ CancelCtx(s)
         \/ \E k \in Asks : (\E s \in Scans : AskRead(k, s)) \/ AskCancel(k) \/ AskWrite(k)
         \/ UNCHANGED vars
  PROVE  /\ recorded' = recorded /\ diffed' = diffed /\ ctx \subseteq ctx'
         /\ \/ row' = row
            \/ \E k \in Asks : ask[k].pc = "writing" /\ WriteRow(ask[k].scan, Ended("cancelled"), Outcomes)
         /\ run' = run \/ \E s \in Web : At(s, "idle") /\ Goto(s, "pressed")
  BY Zenon DEF Press, Poll, CancelCtx, AskRead, AskCancel, AskWrite, vars

-----------------------------------------------------------------------------
(* Ends *)

Ends == {"returned", "gaveup", "over"}

\* A run that comes to its end, or is there, with a live context has its row final.
LEMMA EndOfRunStep ==
  ASSUME TypeInv, EndedIsFinal, ~StoreFaults, NEW s \in Scans \ ctx, RunStep(s),
         run'[s].pc \in Ends
  PROVE  row'[s].status \in Final
<1>a. row \in [Scans -> Rows] /\ run \in [Scans -> Runs] /\ s \in Scans
  BY DEF TypeInv, TypeOK, Rows, Runs
<1>b. CtxOutcomes(s) = {TRUE} /\ Outcomes = {TRUE}
  BY DEF CtxOutcomes, Outcomes
<1>c. \A w \in {"cancelled", "failed"} : Ended(w).status \in Final
  BY DEF Ended, Final
<1>d. \A l \in RunPCs : Goto(s, l) => l \in Ends
  BY <1>a, GotoType
<1>e. ~NextTool(s)
  BY <1>a, SMT DEF NextTool, Ends
<1>1. ~Create(s) /\ ~Prepare(s)
  BY <1>b, <1>d, SMT DEF Create, Prepare, RunPCs, Ends
<1>2. CASE StopAtHead(s) \/ ToolCancelled(s)
  BY <1>2, <1>a, <1>c, SureWrite DEF StopAtHead, ToolCancelled
<1>3. CASE FailScan(s)
  BY <1>3, <1>a, <1>c, SureWrite DEF FailScan
<1>4. CASE Complete(s)
  <2>1. PICK d : WriteRow(s, [status |-> "completed", aggr |-> d], CtxOutcomes(s))
    BY <1>4 DEF Complete
  <2>2. row'[s] = [status |-> "completed", aggr |-> d]
    BY <2>1, <1>a, SureWrite
  <2> QED
    BY <2>2 DEF Final
<1>5. CASE Leave(s)
  <2>1. row' = row /\ run[s].pc \in Ends
    BY <1>5 DEF Leave, At, Ends
  <2> QED
    BY <2>1, <1>a DEF EndedIsFinal, Ends
<1>6. ~(SkipTool(s) \/ EnterTool(s) \/ StartTool(s) \/ ToolEnds(s) \/ ToolSucceeds(s)
         \/ NothingToProbe(s) \/ ToolFails(s) \/ LeaveLoop(s) \/ Diff(s))
  BY <1>d, <1>e DEF SkipTool, EnterTool, StartTool, ToolEnds, ToolSucceeds, NothingToProbe, ToolFails,
       LeaveLoop, Diff, RunPCs, Ends
<1> QED
  BY <1>1, <1>2, <1>3, <1>4, <1>5, <1>6 DEF RunStep

\* Every step keeps the rows of ended runs final.
LEMMA EndStep ==
  ASSUME TypeInv, EndedIsFinal, ~StoreFaults, [Next]_vars
  PROVE  EndedIsFinal'
<1> SUFFICES ASSUME NEW x \in Scans, run'[x].pc \in Ends, x \notin ctx'
             PROVE  row'[x].status \in Final
  BY Zenon DEF EndedIsFinal, Ends
<1>a. row \in [Scans -> Rows] /\ run \in [Scans -> Runs]
  BY DEF TypeInv, TypeOK, Rows, Runs
<1>1. ASSUME NEW s \in Scans, RunStep(s) PROVE row'[x].status \in Final
  <2>1. ctx' = ctx
    BY <1>1, RunStepMoves
  <2>2. CASE x = s
    BY <1>1, <2>1, <2>2, EndOfRunStep
  <2>3. CASE x # s
    <3>1. row'[x] = row[x] /\ run'[x] = run[x]
      BY <1>1, <2>3, RunStepMoves, RunStepWrites
    <3> QED
      BY <2>1, <3>1 DEF EndedIsFinal, Ends
  <2> QED
    BY <2>2, <2>3
<1>2. ASSUME ~\E s \in Scans : RunStep(s) PROVE row'[x].status \in Final
  <2>1. /\ ctx \subseteq ctx'
        /\ \/ row' = row
           \/ \E k \in Asks : ask[k].pc = "writing" /\ WriteRow(ask[k].scan, Ended("cancelled"), Outcomes)
        /\ run' = run \/ \E s \in Web : At(s, "idle") /\ Goto(s, "pressed")
    BY <1>2, OtherStepWrites DEF Next
  <2>2. run[x].pc \in Ends
    <3>1. ASSUME NEW s \in Web, Goto(s, "pressed") PROVE run[x].pc \in Ends
      <4>1. s \in Scans /\ "pressed" \in RunPCs /\ "pressed" \notin Ends
        BY PipelineAssumption DEF RunPCs, Ends
      <4> QED
        BY <3>1, <4>1, <1>a, GotoType
    <3> QED
      BY <2>1, <3>1
  <2>3. row[x].status \in Final
    BY <2>1, <2>2 DEF EndedIsFinal, Ends
  <2>4. row'[x] = row[x] \/ row'[x] = Ended("cancelled")
    BY <2>1, <1>a, WriteRowEffect, SMT
  <2> QED
    BY <2>3, <2>4 DEF Ended, Final
<1> QED
  BY <1>1, <1>2

\* Where statements fail only under cancelled contexts, a run whose context lives
\* ends with its row in a final status.
THEOREM EndsAreFinal == ASSUME ~StoreFaults PROVE Spec => []EndedIsFinal
<1>1. Init => EndedIsFinal
  BY SMT DEF Init, EndedIsFinal
<1>2. TypeInv /\ EndedIsFinal /\ [Next]_vars => EndedIsFinal'
  BY EndStep
<1> QED
  BY <1>1, <1>2, TypeInit, TypeStep, PTL DEF Spec

-----------------------------------------------------------------------------
(* What is over stays over *)

\* A row is not final before its run ends, but for a cancel request that has read
\* it; and a request keeps the scan that it has read.
Asked(s) == \E k \in Asks : ask[k].scan = s
OpenRows == \A s \in Scans : run[s].pc \notin Ends /\ ~Asked(s) => row[s].status \notin Final
AskFresh == \A k \in Asks : ask[k].pc = "idle" => ask[k].scan = NoScan

\* A step of a run that is not at its end leaves its row unchanged or running.
LEMMA OpenRunStep ==
  ASSUME TypeInv, OpenRows, NEW s \in Scans, RunStep(s), run'[s].pc \notin Ends, ~Asked(s)
  PROVE  row'[s].status \notin Final
<1>a. row \in [Scans -> Rows] /\ run \in [Scans -> Runs]
  BY DEF TypeInv, TypeOK, Rows, Runs
<1>b. \A l \in RunPCs : Goto(s, l) => l \notin Ends
  BY <1>a, GotoType
<1>1. ~(StopAtHead(s) \/ ToolCancelled(s) \/ FailScan(s) \/ Complete(s) \/ Leave(s))
  BY <1>b DEF StopAtHead, ToolCancelled, FailScan, Complete, Leave, RunPCs, Ends
<1>2. row' = row \/ row' = [row EXCEPT ![s] = Running]
  <2>1. row' = row \/ row' = [row EXCEPT ![s] = Running] \/ \E o : WriteRow(s, Running, o)
    BY <1>1, Zenon DEF RunStep, Create, Prepare, SkipTool, EnterTool, StartTool, ToolEnds, ToolSucceeds,
       NothingToProbe, ToolFails, LeaveLoop, Diff
  <2> QED
    BY <2>1, WriteRowEffect
<1>3. run[s].pc \notin Ends
  BY <1>1 DEF RunStep, Create, Prepare, SkipTool, EnterTool, StartTool, ToolEnds, ToolSucceeds,
     NothingToProbe, ToolFails, LeaveLoop, Diff, PassChecks, At, Ends
<1>4. row[s].status \notin Final
  BY <1>3 DEF OpenRows
<1>5. row'[s] = row[s] \/ row'[s] = Running
  BY <1>2, <1>a
<1> QED
  BY <1>4, <1>5 DEF Running, Final

\* A request keeps the scan it has read.
LEMMA AsksKept ==
  ASSUME TypeInv, AskFresh, [Next]_vars
  PROVE  AskFresh' /\ \A s \in Scans : Asked(s) => Asked(s)'
<1>a. ask \in [Asks -> [pc : {"idle", "read", "writing", "over"}, scan : Scans \cup {NoScan}]]
  BY DEF TypeInv, TypeOK
<1>1. CASE ask' = ask
  BY <1>1 DEF AskFresh, Asked
<1>2. ASSUME NEW k \in Asks, NEW s \in Scans, AskRead(k, s)
      PROVE  AskFresh' /\ \A x \in Scans : Asked(x) => Asked(x)'
  <2>1. ask[k].scan = NoScan /\ ask' = [ask EXCEPT ![k] = [pc |-> "read", scan |-> s]]
    BY <1>2 DEF AskRead, AskFresh
  <2>2. /\ ask'[k].pc = "read"
        /\ \A j \in Asks \ {k} : ask'[j] = ask[j]
    BY <2>1, <1>a
  <2>3. NoScan \notin Scans
    BY PipelineAssumption
  <2> QED
    BY <2>1, <2>2, <2>3, Zenon DEF AskFresh, Asked
<1>3. ASSUME NEW k \in Asks, AskCancel(k) \/ AskWrite(k)
      PROVE  AskFresh' /\ \A x \in Scans : Asked(x) => Asked(x)'
  <2>1. \E p \in {"over", "writing"} : ask' = [ask EXCEPT ![k].pc = p]
    BY <1>3, Zenon DEF AskCancel, AskWrite
  <2>2. /\ ask'[k].pc # "idle" /\ \A j \in Asks : ask'[j].scan = ask[j].scan
        /\ \A j \in Asks \ {k} : ask'[j] = ask[j]
    BY <2>1, <1>a
  <2> QED
    BY <2>2, Zenon DEF AskFresh, Asked
<1>4. \/ ask' = ask
      \/ \E k \in Asks : (\E s \in Scans : AskRead(k, s)) \/ AskCancel(k) \/ AskWrite(k)
  BY RunStepMoves DEF Next, Press, Poll, CancelCtx, vars
<1> QED
  BY <1>1, <1>2, <1>3, <1>4

\* Every step keeps the rows of scans that run and nobody asked about open.
LEMMA OpenStep ==
  ASSUME TypeInv, OpenRows, AskFresh, [Next]_vars
  PROVE  OpenRows'
<1> SUFFICES ASSUME NEW x \in Scans, run'[x].pc \notin Ends, ~Asked(x)'
             PROVE  row'[x].status \notin Final
  BY Zenon DEF OpenRows
<1>a. row \in [Scans -> Rows] /\ run \in [Scans -> Runs]
  BY DEF TypeInv, TypeOK, Rows, Runs
<1>b. ~Asked(x)
  BY AsksKept
<1>1. ASSUME NEW s \in Scans, RunStep(s) PROVE row'[x].status \notin Final
  <2>1. CASE x = s
    BY <1>1, <1>b, <2>1, OpenRunStep
  <2>2. CASE x # s
    <3>1. row'[x] = row[x] /\ run'[x] = run[x]
      BY <1>1, <2>2, RunStepMoves, RunStepWrites
    <3> QED
      BY <3>1, <1>b DEF OpenRows
  <2> QED
    BY <2>1, <2>2
<1>2. ASSUME ~\E s \in Scans : RunStep(s) PROVE row'[x].status \notin Final
  <2>1. /\ \/ row' = row
           \/ \E k \in Asks : WriteRow(ask[k].scan, Ended("cancelled"), Outcomes)
        /\ run' = run \/ \E s \in Web : At(s, "idle") /\ Goto(s, "pressed")
    BY <1>2, OtherStepWrites DEF Next
  <2>2. row'[x] = row[x]
    BY <2>1, <1>a, <1>b, WriteRowEffect, SMT DEF Asked
  <2>3. run[x].pc \notin Ends
    <3>1. ASSUME NEW s \in Web, At(s, "idle"), Goto(s, "pressed") PROVE run[x].pc \notin Ends
      <4>1. s \in Scans /\ run[s].pc \notin Ends /\ "pressed" \in RunPCs
        BY <3>1, PipelineAssumption DEF At, Ends, RunPCs
      <4> QED
        BY <3>1, <4>1, <1>a, GotoType
    <3> QED
      BY <2>1, <3>1
  <2> QED
    BY <2>2, <2>3, <1>b DEF OpenRows
<1> QED
  BY <1>1, <1>2

\* A final row is rewritten by a cancel request that has read it, and by nothing else.
LEMMA FinalStep ==
  ASSUME TypeInv, OpenRows, [Next]_vars, NEW s \in Scans, row[s].status \in Final, row'[s] # row[s]
  PROVE  Asked(s)
<1>a. row \in [Scans -> Rows]
  BY DEF TypeInv, TypeOK, Rows
<1>1. ASSUME NEW r \in Scans, RunStep(r) PROVE Asked(s)
  <2>1. r = s
    BY <1>1, RunStepWrites
  <2>2. run[s].pc \notin Ends
    <3>1. run[s].pc \in Ends => Leave(s)
      BY <1>1, <2>1 DEF RunStep, Create, Prepare, StopAtHead, SkipTool, EnterTool, StartTool, ToolEnds,
         ToolSucceeds, NothingToProbe, ToolCancelled, ToolFails, FailScan, LeaveLoop, Diff, Complete,
         PassChecks, At, Ends
    <3>2. ~Leave(s)
      BY DEF Leave
    <3> QED
      BY <3>1, <3>2
  <2> QED
    BY <2>2 DEF OpenRows
<1>2. ASSUME ~\E r \in Scans : RunStep(r) PROVE Asked(s)
  <2>1. row' = row \/ \E k \in Asks : WriteRow(ask[k].scan, Ended("cancelled"), Outcomes)
    BY <1>2, OtherStepWrites DEF Next
  <2>2. PICK k \in Asks : row' = [row EXCEPT ![ask[k].scan] = Ended("cancelled")]
    BY <2>1, WriteRowEffect
  <2>3. ask[k].scan = s
    BY <2>2, <1>a
  <2> QED
    BY <2>3 DEF Asked
<1> QED
  BY <1>1, <1>2

\* A final row stays as it was reported, unless a cancel request read it while the
\* scan was running, even if statements fail.
THEOREM FinalRowsStay == Spec => FinalStays
<1>1. Init => OpenRows /\ AskFresh
  BY SMT DEF Init, OpenRows, AskFresh, NoRow, Final
<1>2. TypeInv /\ OpenRows /\ AskFresh /\ [Next]_vars => OpenRows' /\ AskFresh'
  BY OpenStep, AsksKept
<1>3. TypeInv /\ OpenRows /\ [Next]_vars =>
        [\A s \in Scans : row[s].status \in Final /\ row'[s] # row[s]
                            => \E k \in Asks : ask[k].scan = s]_vars
  BY FinalStep DEF Asked
<1> QED
  BY <1>1, <1>2, <1>3, TypeInit, TypeStep, PTL DEF Spec, FinalStays

-----------------------------------------------------------------------------
(* The diff phase and completed rows *)

\* A run whose context lives has recorded every tool before the one it is at, all of
\* them when it comes to the diff phase, and has its diff before it closes.
Turns ==
  \A s \in Scans \ ctx :
    /\ run[s].pc \in {"idle", "pressed", "created"} => run[s].i = 1
    /\ run[s].pc \in ToolPCs \cup {"loop"} =>
         \A j \in Tools : j < run[s].i => j \in Skip[s] \cup recorded[s]
    /\ run[s].pc = "diff" => Tools \ Skip[s] \subseteq recorded[s]
    /\ run[s].pc = "closing" => s \in diffed

Evidence == Turns /\ DiffAfterTools /\ CompletedIsComplete

\* The turn of the tool i is over: recorded, or left out by the type of the scan.
LEMMA TurnOver ==
  ASSUME TypeInv, NEW s \in Scans, Turns, s \notin ctx, run[s].pc \in ToolPCs \cup {"loop"},
         NextTool(s), run[s].i \in Tools,
         recorded[s] \subseteq recorded'[s], run[s].i \in Skip[s] \cup recorded'[s]
  PROVE  /\ run'[s].pc = "loop"
         /\ \A j \in Tools : j < run'[s].i => j \in Skip[s] \cup recorded'[s]
<1>1. run'[s].pc = "loop" /\ run'[s].i = run[s].i + 1
  BY NextToolType DEF TypeInv, TypeOK, Runs
<1>2. ASSUME NEW j \in Tools, j < run'[s].i PROVE j \in Skip[s] \cup recorded'[s]
  <2>1. j < run[s].i \/ j = run[s].i
    BY <1>1, <1>2, PipelineAssumption, SMT DEF Tools
  <2> QED
    BY <2>1 DEF Turns
<1> QED
  BY <1>1, <1>2

\* A run keeps its own turns.
LEMMA TurnsRunStep ==
  ASSUME TypeInv, Turns, ~StoreFaults, NEW s \in Scans \ ctx, RunStep(s)
  PROVE  /\ run'[s].pc \in {"idle", "pressed", "created"} => run'[s].i = 1
         /\ run'[s].pc \in ToolPCs \cup {"loop"} =>
              \A j \in Tools : j < run'[s].i => j \in Skip[s] \cup recorded'[s]
         /\ run'[s].pc = "diff" => Tools \ Skip[s] \subseteq recorded'[s]
         /\ run'[s].pc = "closing" => s \in diffed'
<1> DEFINE Kept ==
      /\ run'[s].pc \in {"idle", "pressed", "created"} => run'[s].i = 1
      /\ run'[s].pc \in ToolPCs \cup {"loop"} =>
           \A j \in Tools : j < run'[s].i => j \in Skip[s] \cup recorded'[s]
      /\ run'[s].pc = "diff" => Tools \ Skip[s] \subseteq recorded'[s]
      /\ run'[s].pc = "closing" => s \in diffed'
<1>a. run \in [Scans -> Runs] /\ recorded \in [Scans -> SUBSET Tools] /\ AtTool /\ s \in Scans
  BY DEF TypeInv, TypeOK, Runs
<1>b. recorded[s] \subseteq recorded'[s]
  BY RunStepWrites
<1>c. \A l \in RunPCs : Goto(s, l) => run'[s].pc = l /\ run'[s].i = run[s].i
  BY <1>a, GotoType
<1>d. CtxOutcomes(s) = {TRUE}
  BY DEF CtxOutcomes, Outcomes
<1>1. CASE Create(s)
  <2>1. Goto(s, "created") /\ run[s].i = 1
    BY <1>1, <1>d, SMT DEF Create, At, Turns
  <2> QED
    BY <2>1, <1>c DEF RunPCs, ToolPCs
<1>2. CASE Prepare(s)
  <2>1. Goto(s, "loop") /\ run[s].i = 1
    BY <1>2, <1>d, SMT DEF Prepare, At, Turns
  <2>2. run'[s].pc = "loop" /\ run'[s].i = 1
    BY <2>1, <1>c DEF RunPCs
  <2>3. \A j \in Tools : ~(j < 1)
    BY PipelineAssumption, SMT DEF Tools
  <2> QED
    BY <2>2, <2>3
<1>3. CASE StopAtHead(s) \/ ToolCancelled(s) \/ FailScan(s) \/ Complete(s) \/ Leave(s)
  <2>1. run'[s].pc \in Ends
    BY <1>3, <1>c DEF StopAtHead, ToolCancelled, FailScan, Complete, Leave, RunPCs, Ends
  <2> QED
    BY <2>1 DEF Ends, ToolPCs
<1>4. CASE EnterTool(s) \/ StartTool(s) \/ ToolEnds(s)
  <2>1. run[s].pc \in ToolPCs \cup {"loop"}
    BY <1>4 DEF EnterTool, StartTool, ToolEnds, PassChecks, At, ToolPCs
  <2>2. run'[s].pc \in ToolPCs /\ run'[s].i = run[s].i
    BY <1>4, <1>c DEF EnterTool, StartTool, ToolEnds, RunPCs, ToolPCs
  <2>3. \A j \in Tools : j < run'[s].i => j \in Skip[s] \cup recorded'[s]
    BY <2>1, <2>2, <1>b DEF Turns
  <2> QED
    BY <2>2, <2>3 DEF ToolPCs
<1>5. ASSUME SkipTool(s) \/ ToolSucceeds(s) \/ ToolFails(s), NextTool(s) PROVE Kept
  <2>1. run[s].pc \in ToolPCs \cup {"loop"} /\ run[s].i \in Tools
    BY <1>5, <1>a, PipelineAssumption
       DEF SkipTool, ToolSucceeds, ToolFails, PassChecks, At, AtTool, ToolPCs
  <2>2. run[s].i \in recorded'[s]
    BY <1>5, <1>a, SureRecord DEF SkipTool, ToolSucceeds, ToolFails
  <2>3. /\ run'[s].pc = "loop"
        /\ \A j \in Tools : j < run'[s].i => j \in Skip[s] \cup recorded'[s]
    BY <1>5, <1>a, <1>b, <2>1, <2>2, TurnOver
  <2> QED
    BY <2>3
<1>6. CASE ToolFails(s) /\ Goto(s, "failing")
  <2>1. run'[s].pc = "failing" /\ run'[s].i = run[s].i /\ run[s].pc \in ToolPCs
    BY <1>6, <1>c DEF ToolFails, At, RunPCs, ToolPCs
  <2> QED
    BY <2>1, <1>b DEF Turns
<1>7. CASE NothingToProbe(s)
  <2>1. run'[s].pc = "diff" /\ run[s].pc \in ToolPCs /\ run[s].i = Probe /\ Probe \in Tools
    BY <1>7, <1>a, <1>c DEF NothingToProbe, At, AtTool, RunPCs, ToolPCs
  <2>2. recorded'[s] = recorded[s] \cup {i \in Tools : i = Probe \/ (i > Probe /\ i \notin Skip[s])}
    BY <1>7, <1>a, SureRecord DEF NothingToProbe
  <2>3. ASSUME NEW j \in Tools \ Skip[s] PROVE j \in recorded'[s]
    <3>1. j < Probe \/ j = Probe \/ j > Probe
      BY <2>1, PipelineAssumption, SMT DEF Tools
    <3>2. CASE j < Probe
      BY <3>2, <2>1, <1>b DEF Turns
    <3>3. CASE j = Probe \/ j > Probe
      BY <3>3, <2>2
    <3> QED
      BY <3>1, <3>2, <3>3
  <2> QED
    BY <2>1, <2>3 DEF ToolPCs
<1>8. CASE LeaveLoop(s)
  <2>1. run'[s].pc = "diff" /\ run[s].pc = "loop" /\ run[s].i \notin Tools
    BY <1>8, <1>c DEF LeaveLoop, At, RunPCs
  <2>2. ASSUME NEW j \in Tools PROVE j < run[s].i
    <3>1. run[s].i \in 1..NTools + 1
      BY <1>a, SMT DEF Runs
    <3> QED
      BY <2>1, <3>1, PipelineAssumption, SMT DEF Tools
  <2> QED
    BY <2>1, <2>2, <1>b DEF Turns, ToolPCs
<1>9. CASE Diff(s)
  <2>1. run'[s].pc = "closing"
    BY <1>9, <1>c DEF Diff, RunPCs
  <2>2. s \in diffed'
    BY <1>9, <1>d, SMT DEF Diff
  <2> QED
    BY <2>1, <2>2 DEF ToolPCs
<1> QED
  BY <1>1, <1>2, <1>3, <1>4, <1>5, <1>6, <1>7, <1>8, <1>9 DEF RunStep, SkipTool, ToolSucceeds, ToolFails

\* Steps of other actors leave the turns of a run alone.
LEMMA TurnsStep ==
  ASSUME TypeInv, Turns, ~StoreFaults, [Next]_vars
  PROVE  Turns'
<1>a. run \in [Scans -> Runs]
  BY DEF TypeInv, TypeOK, Runs
<1>1. ASSUME NEW s \in Scans, RunStep(s) PROVE Turns'
  <2>1. ctx' = ctx
    BY <1>1, RunStepMoves
  <2>2. \A x \in Scans \ {s} : run'[x] = run[x] /\ recorded'[x] = recorded[x]
    BY <1>1, RunStepMoves, RunStepWrites
  <2>3. diffed \subseteq diffed'
    BY <1>1, RunStepWrites
  <2> SUFFICES ASSUME NEW x \in Scans \ ctx
      PROVE /\ run'[x].pc \in {"idle", "pressed", "created"} => run'[x].i = 1
            /\ run'[x].pc \in ToolPCs \cup {"loop"} =>
                 \A j \in Tools : j < run'[x].i => j \in Skip[x] \cup recorded'[x]
            /\ run'[x].pc = "diff" => Tools \ Skip[x] \subseteq recorded'[x]
            /\ run'[x].pc = "closing" => x \in diffed'
    BY <2>1, Zenon DEF Turns
  <2>4. CASE x = s
    BY <1>1, <2>4, TurnsRunStep
  <2>5. CASE x # s
    BY <2>2, <2>3, <2>5 DEF Turns
  <2> QED
    BY <2>4, <2>5
<1>2. ASSUME ~\E s \in Scans : RunStep(s) PROVE Turns'
  <2>1. /\ recorded' = recorded /\ diffed' = diffed /\ ctx \subseteq ctx'
        /\ run' = run \/ \E s \in Web : At(s, "idle") /\ Goto(s, "pressed")
    BY <1>2, OtherStepWrites DEF Next
  <2>2. CASE run' = run
    BY <2>1, <2>2 DEF Turns
  <2>3. ASSUME NEW s \in Web, At(s, "idle"), Goto(s, "pressed") PROVE Turns'
    <3>1. /\ s \in Scans /\ run[s].pc = "idle"
          /\ run'[s].pc = "pressed" /\ run'[s].i = run[s].i
          /\ \A x \in Scans \ {s} : run'[x] = run[x]
      BY <2>3, <1>a, PipelineAssumption, GotoType DEF At, RunPCs
    <3>2. "pressed" \notin ToolPCs \cup {"loop", "diff", "closing"}
      BY DEF ToolPCs
    <3> SUFFICES ASSUME NEW x \in Scans \ ctx'
        PROVE /\ run'[x].pc \in {"idle", "pressed", "created"} => run'[x].i = 1
              /\ run'[x].pc \in ToolPCs \cup {"loop"} =>
                   \A j \in Tools : j < run'[x].i => j \in Skip[x] \cup recorded'[x]
              /\ run'[x].pc = "diff" => Tools \ Skip[x] \subseteq recorded'[x]
              /\ run'[x].pc = "closing" => x \in diffed'
      BY Zenon DEF Turns
    <3>3. CASE x = s
      BY <3>1, <3>2, <3>3, <2>1 DEF Turns
    <3>4. CASE x # s
      BY <3>1, <3>4, <2>1 DEF Turns
    <3> QED
      BY <3>3, <3>4
  <2> QED
    BY <2>1, <2>2, <2>3
<1> QED
  BY <1>1, <1>2

\* A scan that enters the diff phase has had its tools, and a row is completed after it.
LEMMA EvidenceStep ==
  ASSUME TypeInv, Evidence, ~StoreFaults, [Next]_vars
  PROVE  Evidence'
<1>a. row \in [Scans -> Rows] /\ run \in [Scans -> Runs]
  BY DEF TypeInv, TypeOK, Rows, Runs
<1>b. Turns /\ DiffAfterTools /\ CompletedIsComplete
  BY DEF Evidence
<1>c. Turns'
  BY <1>b, TurnsStep
<1>1. ASSUME NEW s \in Scans, RunStep(s) PROVE DiffAfterTools' /\ CompletedIsComplete'
  <2>1. /\ \A x \in Scans : recorded[x] \subseteq recorded'[x]
        /\ \A x \in Scans \ {s} : row'[x] = row[x]
        /\ diffed \subseteq diffed' /\ diffed' \subseteq diffed \cup {s}
    BY <1>1, RunStepWrites
  <2>2. ASSUME s \in diffed' \ diffed PROVE Tools \ Skip[s] \subseteq recorded'[s]
    <3>1. Diff(s)
      BY <1>1, <2>2 DEF RunStep, Create, Prepare, StopAtHead, SkipTool, EnterTool, StartTool, ToolEnds,
         ToolSucceeds, NothingToProbe, ToolCancelled, ToolFails, FailScan, LeaveLoop, Complete, Leave
    <3>2. s \notin ctx
      <4>1. s \in ctx => CtxOutcomes(s) = {FALSE}
        BY DEF CtxOutcomes
      <4>2. \E done \in CtxOutcomes(s) : diffed' = IF done THEN diffed \cup {s} ELSE diffed
        BY <3>1, Zenon DEF Diff
      <4> QED
        BY <2>2, <4>1, <4>2
    <3> QED
      BY <3>1, <3>2, <2>1, <1>b DEF Diff, At, Turns
  <2>3. DiffAfterTools'
    <3>1. diffed \subseteq Scans
      BY DEF TypeInv, TypeOK
    <3> QED
      BY <1>b, <2>1, <2>2, <3>1 DEF DiffAfterTools
  <2>4. row'[s].status = "completed" => row'[s].aggr /\ s \in diffed'
    <3>1. CASE row'[s] = row[s]
      BY <3>1, <1>b, <2>1 DEF CompletedIsComplete
    <3>2. CASE \E w \in {Running, Ended("cancelled"), Ended("failed")} : row'[s] = w
      BY <3>2 DEF Running, Ended
    <3>3. CASE Complete(s)
      <4>1. Outcomes = {TRUE}
        BY DEF Outcomes
      <4>2. WriteRow(s, [status |-> "completed", aggr |-> TRUE], CtxOutcomes(s)) /\ run[s].pc = "closing"
        BY <3>3, <4>1, SMT DEF Complete, At
      <4>3. CASE s \in ctx
        <5>1. row' = row
          BY <4>2, <4>3, SMT DEF WriteRow, CtxOutcomes
        <5> QED
          BY <5>1, <1>b, <2>1 DEF CompletedIsComplete
      <4>4. CASE s \notin ctx
        <5>1. row'[s] = [status |-> "completed", aggr |-> TRUE]
          BY <4>2, <4>4, <1>a, SureWrite
        <5>2. s \in diffed
          BY <4>2, <4>4, <1>b DEF Turns
        <5> QED
          BY <5>1, <5>2, <2>1
      <4> QED
        BY <4>3, <4>4
    <3>4. Complete(s) \/ row' = row \/ \E w \in {Running, Ended("cancelled"), Ended("failed")} :
                                         row' = [row EXCEPT ![s] = w]
      <4>1. \/ Complete(s)
            \/ row' = row
            \/ row' = [row EXCEPT ![s] = Running]
            \/ \E w \in {Running, Ended("cancelled"), Ended("failed")} : \E o : WriteRow(s, w, o)
        BY <1>1, Zenon DEF RunStep, Create, Prepare, StopAtHead, SkipTool, EnterTool, StartTool, ToolEnds,
           ToolSucceeds, NothingToProbe, ToolCancelled, ToolFails, FailScan, LeaveLoop, Diff, Leave
      <4> QED
        BY <4>1, WriteRowEffect, Zenon
    <3>5. \A w : row' = [row EXCEPT ![s] = w] => row'[s] = w
      BY <1>a
    <3> QED
      BY <3>1, <3>2, <3>3, <3>4, <3>5
  <2>5. CompletedIsComplete'
    BY <1>b, <2>1, <2>4, Zenon DEF CompletedIsComplete
  <2> QED
    BY <2>3, <2>5
<1>2. ASSUME ~\E s \in Scans : RunStep(s) PROVE DiffAfterTools' /\ CompletedIsComplete'
  <2>1. /\ recorded' = recorded /\ diffed' = diffed
        /\ row' = row \/ \E k : WriteRow(ask[k].scan, Ended("cancelled"), Outcomes)
    BY <1>2, OtherStepWrites DEF Next
  <2>2. \A x \in Scans : row'[x] = row[x] \/ row'[x] = Ended("cancelled")
    BY <2>1, <1>a, WriteRowEffect, SMT
  <2> QED
    BY <1>b, <2>1, <2>2 DEF DiffAfterTools, CompletedIsComplete, Ended
<1> QED
  BY <1>c, <1>1, <1>2 DEF Evidence

\* The evidence holds from the start and is kept.
LEMMA EvidenceAlways == ASSUME ~StoreFaults PROVE Spec => []Evidence
<1>1. Init => Evidence
  <2>1. Init => Turns
    <3>1. \A j \in Tools : ~(j < 1)
      BY PipelineAssumption, SMT DEF Tools
    <3>2. "idle" \notin ToolPCs \cup {"loop", "diff", "closing"}
      BY DEF ToolPCs
    <3>3. ASSUME Init, NEW s \in Scans PROVE run[s].pc = "idle" /\ run[s].i = 1
      BY <3>3, SMT DEF Init
    <3> QED
      BY <3>1, <3>2, <3>3, Zenon DEF Turns
  <2>2. Init => DiffAfterTools /\ CompletedIsComplete
    BY SMT DEF Init, DiffAfterTools, CompletedIsComplete, NoRow
  <2> QED
    BY <2>1, <2>2 DEF Evidence
<1>2. TypeInv /\ Evidence /\ [Next]_vars => Evidence'
  BY EvidenceStep
<1> QED
  BY <1>1, <1>2, TypeInit, TypeStep, PTL DEF Spec

\* Where statements fail only under cancelled contexts, the diff phase changes assets
\* and findings only after each tool of the scan was given its turn.
THEOREM DiffFollowsTools == ASSUME ~StoreFaults PROVE Spec => []DiffAfterTools
<1>1. Evidence => DiffAfterTools
  BY DEF Evidence
<1> QED
  BY <1>1, EvidenceAlways, PTL

\* There, a row that says completed has its aggregates, and its changes are stored.
THEOREM CompletedRowsAreComplete == ASSUME ~StoreFaults PROVE Spec => []CompletedIsComplete
<1>1. Evidence => CompletedIsComplete
  BY DEF Evidence
<1> QED
  BY <1>1, EvidenceAlways, PTL

=============================================================================
