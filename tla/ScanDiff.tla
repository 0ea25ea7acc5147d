------------------------------ MODULE ScanDiff ------------------------------
(***************************************************************************)
(* What scans conclude from what they see (internal/pipeline/diff.go and   *)
(* diff_findings.go, called from Pipeline.Run): assets of the target that  *)
(* were not seen again have disappeared, open findings that were not       *)
(* reported again are resolved.  Scans of several targets share the two    *)
(* tables with the UI's requests that set a finding's status.              *)
(***************************************************************************)
EXTENDS Naturals

CONSTANTS Scans, Targets, Target,   \* Target[s]: what scan s is about
          Assets, OwnerOf,          \* OwnerOf[a]: the target_id of asset a
          Findings, On,             \* On[f]: the asset_id of finding f
          Edits,                    \* requests that set a finding's status
          MayReopen,                \* requests may take a finding back
          Serial,                   \* one scan of a target at a time
          MayShareSecond,           \* a scan may begin in the second in which an
                                    \* asset was last seen
          MaxNow,                   \* bound on the clock, in seconds
          NoScan

ASSUME ScanDiffAssumption ==
  /\ NoScan \notin Scans
  /\ Target \in [Scans -> Targets]
  /\ OwnerOf \in [Assets -> Targets]
  /\ On \in [Findings -> Assets] /\ Assets \cap Findings = {}
  /\ MayReopen \in BOOLEAN /\ Serial \in BOOLEAN /\ MayShareSecond \in BOOLEAN
  /\ MaxNow \in Nat \ {0}

VARIABLES
  asset,    \* assets: status, and seen, the second of last_seen (0: no row)
  finding,  \* findings: status, scan_id, and whether resolved_at is set
  pc,       \* how far each scan is
  first,    \* the scans that found no earlier scan of their target
  pre,      \* preAssets of each scan: when each asset was last seen (0: absent)
  todo,     \* resolvedFindings of each scan, less those already updated
  last,     \* the scan of each target that was created last
  edit,     \* the requests: finding, the status read and the status asked for
  saw,      \* history: the assets and findings that each scan reported
  now       \* the clock

vars == <<asset, finding, pc, first, pre, todo, last, edit, saw, now>>

AssetStatuses   == {"none", "new", "active", "disappeared"}
FindingStatuses == {"none", "open", "resolved", "triaged"}
Second == 0..MaxNow

TypeOK ==
  /\ asset \in [Assets -> [status : AssetStatuses, seen : Second]]
  /\ \A a \in Assets : asset[a].status = "none" <=> asset[a].seen = 0
  /\ finding \in [Findings -> [status : FindingStatuses, scan : Scans \cup {NoScan}, timed : BOOLEAN]]
  /\ pc \in [Scans -> {"idle", "tools", "listing", "resolving", "done", "stopped"}]
  /\ first \subseteq Scans
  /\ pre \in [Scans -> [Assets -> Second]]
  /\ todo \in [Scans -> SUBSET Findings]
  /\ last \in [Targets -> Scans \cup {NoScan}]
  /\ edit \in [Edits -> [pc : {"idle", "read", "wrote", "over"}, old : FindingStatuses,
                         new : FindingStatuses, f : Findings]]
  /\ saw \in [Scans -> SUBSET (Assets \cup Findings)]
  /\ now \in Second \ {0}

Init ==
  /\ asset = [a \in Assets |-> [status |-> "none", seen |-> 0]]
  /\ finding = [f \in Findings |-> [status |-> "none", scan |-> NoScan, timed |-> FALSE]]
  /\ pc = [s \in Scans |-> "idle"]
  /\ first = {}
  /\ pre = [s \in Scans |-> [a \in Assets |-> 0]]
  /\ todo = [s \in Scans |-> {}]
  /\ last = [t \in Targets |-> NoScan]
  /\ edit \in [Edits -> [pc : {"idle"}, old : {"none"}, new : {"none"}, f : Findings]]
  /\ saw = [s \in Scans |-> {}]
  /\ now = 1

Mine(s) == {a \in Assets : OwnerOf[a] = Target[s]}
Under(s) == pc[s] \in {"tools", "listing", "resolving"}
Goto(s, where) == pc' = [pc EXCEPT ![s] = where]

\* NormalizeAssetStatuses: what earlier scans have found is new no more.
Normalized(s) == [a \in Assets |-> IF a \in Mine(s) /\ asset[a].status = "new"
                                   THEN [asset[a] EXCEPT !.status = "active"] ELSE asset[a]]

-----------------------------------------------------------------------------
(* A scan *)

\* Run up to its tools: the row of the scan, whether it is the first one, the
\* snapshot of the assets, and the status new of earlier scans becomes active.
Begin(s) ==
  /\ pc[s] = "idle"
  /\ Serial => \A o \in Scans : Target[o] = Target[s] => ~Under(o)
  /\ MayShareSecond \/ \A a \in Mine(s) : asset[a].seen < now
  /\ first' = IF last[Target[s]] = NoScan THEN first \cup {s} ELSE first
  /\ last' = [last EXCEPT ![Target[s]] = s]
  /\ pre' = [pre EXCEPT ![s] = [a \in Assets |-> IF a \in Mine(s) THEN asset[a].seen ELSE 0]]
  /\ asset' = Normalized(s)
  /\ Goto(s, "tools")
  /\ UNCHANGED <<finding, todo, edit, saw, now>>

\* (Mutant: the status the tool gave is kept, and some give none.)
SeeAssetAsGiven(s, a) ==
  /\ pc[s] = "tools" /\ a \in Mine(s)
  /\ \E status \in {"new", ""} : asset' = [asset EXCEPT ![a] = [status |-> status, seen |-> now]]
  /\ saw' = [saw EXCEPT ![s] = @ \cup {a}]
  /\ UNCHANGED <<finding, pc, first, pre, todo, last, edit, now>>

\* UpsertAsset: every tool reports its assets with status new.
SeeAsset(s, a) ==
  /\ pc[s] = "tools" /\ a \in Mine(s)
  /\ asset' = [asset EXCEPT ![a] = [status |-> "new", seen |-> now]]
  /\ saw' = [saw EXCEPT ![s] = @ \cup {a}]
  /\ UNCHANGED <<finding, pc, first, pre, todo, last, edit, now>>

\* (Mutant: scan_id stays that of the first scan to report it.)
ReportedKeep(f, s) == IF finding[f].status = "none"
                      THEN [status |-> "open", scan |-> s, timed |-> FALSE] ELSE finding[f]

\* The row after UpsertFinding: a conflict updates scan_id and leaves the status.
Reported(f, s) == IF finding[f].status = "none"
                  THEN [status |-> "open", scan |-> s, timed |-> FALSE]
                  ELSE [finding[f] EXCEPT !.scan = s]

\* A finding is stored with an asset of the target, if there is any.
SeeFinding(s, f) ==
  /\ pc[s] = "tools" /\ On[f] \in Mine(s) /\ asset[On[f]].seen # 0
  /\ finding' = [finding EXCEPT ![f] = Reported(f, s)]
  /\ saw' = [saw EXCEPT ![s] = @ \cup {f}]
  /\ UNCHANGED <<asset, pc, first, pre, todo, last, edit, now>>

\* The scan fails or is cancelled: no diff phase.
Stop(s) ==
  /\ pc[s] = "tools"
  /\ Goto(s, "stopped")
  /\ UNCHANGED <<asset, finding, first, pre, todo, last, edit, saw, now>>

-----------------------------------------------------------------------------
(* The diff phase *)

\* computeBaselineChanges, or the assets that the snapshot lacks.
Appeared(s) == {a \in Mine(s) : asset[a].seen # 0 /\ (s \in first \/ pre[s][a] = 0)}

\* (Mutant: gone only if the row is.)
DisappearedMissing(s) == {a \in Mine(s) : s \notin first /\ pre[s][a] # 0 /\ asset[a].seen = 0}

\* Not touched since the snapshot.
Disappeared(s) == {a \in Mine(s) : s \notin first /\ pre[s][a] # 0 /\ asset[a].seen = pre[s][a]}

\* The second snapshot, ComputeChanges and ApplyStatusChanges.
Compare(s) ==
  /\ pc[s] = "tools"
  /\ asset' = [a \in Assets |->
                 IF a \in Appeared(s) THEN [asset[a] EXCEPT !.status = "new"]
                 ELSE IF a \in Disappeared(s) THEN [asset[a] EXCEPT !.status = "disappeared"]
                 ELSE asset[a]]
  /\ Goto(s, "listing")
  /\ UNCHANGED <<finding, first, pre, todo, last, edit, saw, now>>

\* ListFindings with a status only, and no target.
OpenFindings == {f \in Findings : finding[f].status = "open"}

\* The open findings that are not among those with this scan's scan_id.
NotReported(s) == {f \in OpenFindings : finding[f].scan # s}

\* ComputeFindingChanges
List(s) ==
  /\ pc[s] = "listing"
  /\ todo' = [todo EXCEPT ![s] = NotReported(s)]
  /\ Goto(s, "resolving")
  /\ UNCHANGED <<asset, finding, first, pre, last, edit, saw, now>>

\* UpdateFindingStatus sets resolved_at with status resolved and otherwise leaves it.
StatusSet(r, status) == [r EXCEPT !.status = status, !.timed = @ \/ status = "resolved"]

\* UpdateFindingResolvedAt
ResolvedAtSet(r, timed) == [r EXCEPT !.timed = timed]

\* AutoResolveFindings, one finding of the list, whatever its status is by now;
\* the UpdateFindingResolvedAt that follows repeats the time.
Resolve(s, f) ==
  /\ pc[s] = "resolving" /\ f \in todo[s]
  /\ finding' = [finding EXCEPT ![f] = StatusSet(@, "resolved")]
  /\ todo' = [todo EXCEPT ![s] = @ \ {f}]
  /\ UNCHANGED <<asset, pc, first, pre, last, edit, saw, now>>

Done(s) ==
  /\ pc[s] = "resolving" /\ todo[s] = {}
  /\ Goto(s, "done")
  /\ UNCHANGED <<asset, finding, first, pre, todo, last, edit, saw, now>>

-----------------------------------------------------------------------------
(* Requests and time *)

\* handleUpdateFindingStatus reads the finding,
EditRead(k) ==
  /\ edit[k].pc = "idle"
  /\ \E f \in Findings, new \in {"open", "resolved", "triaged"} :
       /\ finding[f].status # "none"
       /\ MayReopen \/ (finding[f].status # "resolved" /\ new # "open")
       /\ edit' = [edit EXCEPT ![k] = [pc |-> "read", old |-> finding[f].status, new |-> new, f |-> f]]
  /\ UNCHANGED <<asset, finding, pc, first, pre, todo, last, saw, now>>

\* sets the status,
EditWrite(k) ==
  /\ edit[k].pc = "read"
  /\ finding' = [finding EXCEPT ![edit[k].f] = StatusSet(@, edit[k].new)]
  /\ edit' = [edit EXCEPT ![k].pc = "wrote"]
  /\ UNCHANGED <<asset, pc, first, pre, todo, last, saw, now>>

\* and corrects resolved_at by the status that it has read.
EditTime(k) ==
  /\ edit[k].pc = "wrote"
  /\ finding' = [finding EXCEPT ![edit[k].f] = ResolvedAtSet(@,
                   edit[k].new = "resolved" \/ (@.timed /\ edit[k].old # "resolved"))]
  /\ edit' = [edit EXCEPT ![k].pc = "over"]
  /\ UNCHANGED <<asset, pc, first, pre, todo, last, saw, now>>

Tick ==
  /\ now < MaxNow
  /\ now' = now + 1
  /\ UNCHANGED <<asset, finding, pc, first, pre, todo, last, edit, saw>>

Next ==
  \/ \E s \in Scans :
       \/ Begin(s) \/ Stop(s) \/ Compare(s) \/ List(s) \/ Done(s)
       \/ \E a \in Assets : SeeAsset(s, a)
       \/ \E f \in Findings : SeeFinding(s, f) \/ Resolve(s, f)
  \/ \E k \in Edits : EditRead(k) \/ EditWrite(k) \/ EditTime(k)
  \/ Tick

Spec == Init /\ [][Next]_vars
-----------------------------------------------------------------------------
(* Properties *)

\* Once a scan has compared, and until the next one of its target is created, the
\* assets of the target that are marked as disappeared are those it has not seen:
\* scans that stopped half-way in between have not disturbed the comparison
\* (diff.go:46-62).
GoneIsUnseen ==
  \A s \in Scans : (pc[s] \in {"listing", "resolving", "done"} /\ last[Target[s]] = s) =>
    \A a \in Mine(s) : asset[a].seen # 0 => (asset[a].status = "disappeared" <=> a \notin saw[s])

\* A scan never resolves what it has itself reported: nothing takes scan_id away from
\* it before it lists (storage.go:731-744); and no finding of its target that it has
\* not reported is left open after it, unless a request has reopened it
\* (diff_findings.go:13-14); and what is resolved says since when, although requests
\* correct resolved_at by what they read before (handlers.go:933-940).
ResolvesUnseen ==
  /\ \A f \in Findings : finding[f].status = "resolved" => finding[f].timed
  /\ \A s \in Scans :
       /\ todo[s] \cap saw[s] = {}
       /\ (pc[s] = "done" /\ last[Target[s]] = s) =>
            \A f \in Findings : (On[f] \in Mine(s) /\ finding[f].status = "open") => f \in saw[s]

\* A scan resolves findings of its own target: "all open findings (across all scans
\* for this target's assets)" (diff_findings.go:22).
ResolvesItsOwn == \A s \in Scans : \A f \in todo[s] : On[f] \in Mine(s)
=============================================================================
