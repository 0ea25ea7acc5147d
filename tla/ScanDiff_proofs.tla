--------------------------- MODULE ScanDiff_proofs ---------------------------
(***************************************************************************)
(* What a scan concludes from what it sees, for any number of scans,       *)
(* targets, assets and findings: scans of one target are serialised, a     *)
(* scan does not begin in the second in which an asset of its target was   *)
(* last seen, and (for ResolvesUnseen) no request reopens a finding.  The  *)
(* instance that TLC checks makes the same assumptions.                    *)
(***************************************************************************)
EXTENDS ScanDiff, TLAPS

Compared == {"listing", "resolving", "done"}

\* The scan under way on a target is the last one that was created there.
UnderIsLast == \A s \in Scans : Under(s) => last[Target[s]] = s

\* What is not begun has left no trace; a target without scans has no assets.
Clean ==
  /\ \A s \in Scans : pc[s] = "idle" => s \notin first /\ saw[s] = {}
  /\ \A s \in Scans : pc[s] \in {"idle", "tools", "listing"} => todo[s] = {}
  /\ \A a \in Assets : last[OwnerOf[a]] = NoScan => asset[a].seen = 0

\* Nothing was seen in the future, and no snapshot is of this second.
Past ==
  /\ now >= 1
  /\ \A a \in Assets : asset[a].seen <= now
  /\ \A s \in Scans, a \in Assets : pc[s] = "tools" => pre[s][a] < now

\* While its tools run, an asset of the target differs from the snapshot of a scan if and only if the scan has
\* seen it; the first scan of a target has an empty snapshot.
SnapshotHolds ==
  \A s \in Scans : pc[s] = "tools" =>
    /\ \A a \in Mine(s) : IF a \in saw[s] THEN pre[s][a] < asset[a].seen /\ asset[a].status = "new"
                                          ELSE asset[a].seen = pre[s][a]
    /\ s \in first => \A a \in Assets : pre[s][a] = 0

DiffInv == TypeOK /\ UnderIsLast /\ Clean /\ Past /\ SnapshotHolds

-----------------------------------------------------------------------------

\* The initial state satisfies all of it.
LEMMA DiffInitInv == Init => DiffInv /\ GoneIsUnseen
  <1> USE ScanDiffAssumption
  <1> SUFFICES ASSUME Init PROVE DiffInv /\ GoneIsUnseen
    OBVIOUS
  <1>1. TypeOK
    <2>1. edit \in [Edits -> [pc : {"idle", "read", "wrote", "over"}, old : FindingStatuses,
                              new : FindingStatuses, f : Findings]]
      BY DEF Init, FindingStatuses
    <2>2. finding \in [Findings -> [status : FindingStatuses, scan : Scans \cup {NoScan}, timed : BOOLEAN]]
      BY DEF Init, FindingStatuses
    <2>3. asset \in [Assets -> [status : AssetStatuses, seen : Second]]
      BY DEF Init, AssetStatuses, Second
    <2>4. pre \in [Scans -> [Assets -> Second]]
      BY DEF Init, Second
    <2> QED BY <2>1, <2>2, <2>3, <2>4 DEF Init, TypeOK, Second
  <1>2. UnderIsLast /\ Clean /\ Past /\ SnapshotHolds
    BY DEF Init, UnderIsLast, Under, Clean, Past, SnapshotHolds
  <1>3. GoneIsUnseen
    BY DEF Init, GoneIsUnseen
  <1> QED BY <1>1, <1>2, <1>3 DEF DiffInv

\* Two scans under way are of two targets, so that they have no assets in common.
LEMMA UnderApart ==
  ASSUME UnderIsLast, NEW s \in Scans, NEW o \in Scans, Under(s), Under(o), Target[s] = Target[o]
  PROVE  s = o
  BY DEF UnderIsLast

\* The steps that leave assets, snapshots and scans alone.
LEMMA ElsewhereSteps ==
  ASSUME DiffInv, GoneIsUnseen, UNCHANGED <<asset, pc, first, pre, last>>,
         now' \in Nat, now <= now', TypeOK',
         UNCHANGED saw, \A s \in Scans : pc[s] \in {"idle", "tools", "listing"} => todo'[s] = {}
  PROVE  DiffInv' /\ GoneIsUnseen'
  <1> USE ScanDiffAssumption DEF DiffInv
  <1>1. UnderIsLast' /\ Clean'
    BY DEF UnderIsLast, Under, Clean
  <1>2. Past'
    BY DEF Past, TypeOK, Second
  <1>3. SnapshotHolds' /\ GoneIsUnseen'
    BY DEF SnapshotHolds, Mine, GoneIsUnseen
  <1> QED BY <1>1, <1>2, <1>3

-----------------------------------------------------------------------------
(* Types *)

FindingRow == [status : FindingStatuses, scan : Scans \cup {NoScan}, timed : BOOLEAN]

\* What the two statements that change a finding's status leave in its row.
LEMMA StatusSetRow ==
  ASSUME NEW r \in FindingRow, NEW status \in FindingStatuses
  PROVE  /\ StatusSet(r, status) \in FindingRow
         /\ StatusSet(r, status).status = status /\ StatusSet(r, status).scan = r.scan
         /\ StatusSet(r, status).timed = (r.timed \/ status = "resolved")
  <1> DEFINE tm == r.timed \/ status = "resolved"
  <1>1. r.timed \in BOOLEAN /\ r.scan \in Scans \cup {NoScan}
    BY DEF FindingRow
  <1>2. tm \in BOOLEAN
    OBVIOUS
  <1>3. StatusSet(r, status) = [status |-> status, scan |-> r.scan, timed |-> tm]
    <2>1. StatusSet(r, status) = [r EXCEPT !.status = status, !.timed = tm]
      BY DEF StatusSet, FindingRow
    <2> HIDE DEF tm
    <2> QED BY <2>1 DEF FindingRow
  <1> HIDE DEF tm
  <1>4. StatusSet(r, status) \in FindingRow
    BY <1>1, <1>2, <1>3 DEF FindingRow
  <1>5. StatusSet(r, status).status = status /\ StatusSet(r, status).scan = r.scan /\ StatusSet(r, status).timed = tm
    BY <1>3
  <1> QED BY <1>4, <1>5 DEF tm

\* The same of resolved_at.
LEMMA ResolvedAtSetRow ==
  ASSUME NEW r \in FindingRow, NEW tm \in BOOLEAN
  PROVE  /\ ResolvedAtSet(r, tm) \in FindingRow
         /\ ResolvedAtSet(r, tm).status = r.status /\ ResolvedAtSet(r, tm).scan = r.scan
         /\ ResolvedAtSet(r, tm).timed = tm
  <1>1. ResolvedAtSet(r, tm) = [status |-> r.status, scan |-> r.scan, timed |-> tm]
    BY DEF ResolvedAtSet, FindingRow
  <1> QED BY <1>1 DEF FindingRow

\* Scans keep the tables and their own variables typed.
LEMMA ScanTypes ==
  ASSUME TypeOK, NEW s \in Scans,
         \/ Begin(s) \/ Stop(s) \/ Compare(s) \/ List(s) \/ Done(s)
         \/ \E a \in Assets : SeeAsset(s, a)
         \/ \E f \in Findings : SeeFinding(s, f) \/ Resolve(s, f)
  PROVE  TypeOK'
  <1> USE ScanDiffAssumption
  <1> DEFINE Row == [status : AssetStatuses, seen : Second]
  <1>0. asset \in [Assets -> Row] /\ finding \in [Findings -> FindingRow] /\ now \in Second \ {0}
    BY DEF TypeOK, FindingRow
  <1>a. ASSUME NEW a \in Assets, NEW st \in AssetStatuses
        PROVE  [asset[a] EXCEPT !.status = st] = [status |-> st, seen |-> asset[a].seen]
    BY <1>0
  <1>1. CASE Begin(s)
    <2>1. asset' \in [Assets -> Row] /\ \A a \in Assets : asset'[a].status = "none" <=> asset'[a].seen = 0
      <3>1. ASSUME NEW a \in Assets
            PROVE  asset'[a] \in Row /\ (asset'[a].status = "none" <=> asset'[a].seen = 0)
        <4>1. asset'[a] = asset[a] \/ (asset[a].status = "new" /\ asset'[a] = [asset[a] EXCEPT !.status = "active"])
          BY <1>1 DEF Begin, Normalized
        <4>2. asset[a] \in Row /\ (asset[a].status = "none" <=> asset[a].seen = 0)
          BY DEF TypeOK
        <4>3. "active" \in AssetStatuses
          BY DEF AssetStatuses
        <4> QED BY <4>1, <4>2, <4>3, <1>a
      <3>2. asset' = [a \in Assets |-> asset'[a]]
        BY <1>1 DEF Begin, Normalized
      <3> QED BY <3>1, <3>2
    <2>2. pre' \in [Scans -> [Assets -> Second]]
      <3>1. [a \in Assets |-> IF a \in Mine(s) THEN asset[a].seen ELSE 0] \in [Assets -> Second]
        BY <1>0 DEF Second
      <3> QED BY <1>1, <3>1 DEF Begin, TypeOK
    <2>3. /\ pc' \in [Scans -> {"idle", "tools", "listing", "resolving", "done", "stopped"}]
          /\ first' \subseteq Scans /\ last' \in [Targets -> Scans \cup {NoScan}]
      BY <1>1 DEF Begin, Goto, TypeOK
    <2> QED BY <1>1, <2>1, <2>2, <2>3 DEF Begin, TypeOK
  <1>2. CASE Stop(s) \/ List(s) \/ Done(s)
    <2>1. pc' \in [Scans -> {"idle", "tools", "listing", "resolving", "done", "stopped"}]
      BY <1>2 DEF Stop, List, Done, Goto, TypeOK
    <2>2. todo' \in [Scans -> SUBSET Findings]
      BY <1>2 DEF Stop, List, Done, NotReported, OpenFindings, TypeOK
    <2> QED BY <1>2, <2>1, <2>2 DEF Stop, List, Done, TypeOK
  <1>3. CASE Compare(s)
    <2>1. ASSUME NEW a \in Assets
          PROVE  asset'[a] \in Row /\ (asset'[a].status = "none" <=> asset'[a].seen = 0)
      <3>1. \/ asset'[a] = asset[a]
            \/ /\ asset[a].seen # 0
               /\ \E st \in {"new", "disappeared"} : asset'[a] = [asset[a] EXCEPT !.status = st]
        <4>1. a \in Disappeared(s) => asset[a].seen # 0
          BY DEF Disappeared
        <4> QED BY <1>3, <4>1 DEF Compare, Appeared
      <3>2. asset[a] \in Row /\ (asset[a].status = "none" <=> asset[a].seen = 0)
        BY DEF TypeOK
      <3>3. {"new", "disappeared"} \subseteq AssetStatuses \ {"none"}
        BY DEF AssetStatuses
      <3> QED BY <3>1, <3>2, <3>3, <1>a
    <2>2. asset' = [a \in Assets |-> asset'[a]]
      BY <1>3 DEF Compare
    <2>3. asset' \in [Assets -> Row]
      BY <2>1, <2>2
    <2> QED BY <1>3, <2>1, <2>3 DEF Compare, Goto, TypeOK
  <1>4. CASE \E a \in Assets : SeeAsset(s, a)
    <2> PICK a \in Assets : SeeAsset(s, a)
      BY <1>4
    <2>1. [status |-> "new", seen |-> now] \in Row /\ now # 0
      BY <1>0 DEF AssetStatuses
    <2>2. asset' = [asset EXCEPT ![a] = [status |-> "new", seen |-> now]]
      BY DEF SeeAsset
    <2>3. asset' \in [Assets -> Row] /\ \A b \in Assets : asset'[b].status = "none" <=> asset'[b].seen = 0
      BY <1>0, <2>1, <2>2 DEF TypeOK
    <2> QED BY <2>3 DEF SeeAsset, TypeOK
  <1>5. CASE \E f \in Findings : SeeFinding(s, f)
    <2> PICK f \in Findings : SeeFinding(s, f)
      BY <1>5
    <2>1. Reported(f, s) \in FindingRow
      <3>1. finding[f] \in FindingRow
        BY <1>0
      <3>2. [finding[f] EXCEPT !.scan = s] = [status |-> finding[f].status, scan |-> s, timed |-> finding[f].timed]
        BY <3>1 DEF FindingRow
      <3>3. "open" \in FindingStatuses
        BY DEF FindingStatuses
      <3> QED BY <3>1, <3>2, <3>3 DEF Reported, FindingRow
    <2>2. finding' = [finding EXCEPT ![f] = Reported(f, s)]
      BY DEF SeeFinding
    <2>3. finding' \in [Findings -> FindingRow]
      BY <1>0, <2>1, <2>2
    <2> QED BY <2>3 DEF SeeFinding, TypeOK, FindingRow
  <1>6. CASE \E f \in Findings : Resolve(s, f)
    <2> PICK f \in Findings : Resolve(s, f)
      BY <1>6
    <2>2. StatusSet(finding[f], "resolved") \in FindingRow
      BY <1>0, StatusSetRow DEF FindingStatuses
    <2>3. finding' = [finding EXCEPT ![f] = StatusSet(finding[f], "resolved")]
      BY DEF Resolve
    <2>4. finding' \in [Findings -> FindingRow]
      BY <1>0, <2>2, <2>3
    <2>5. todo' \in [Scans -> SUBSET Findings]
      BY DEF Resolve, TypeOK
    <2> QED BY <2>4, <2>5 DEF Resolve, TypeOK, FindingRow
  <1> QED BY <1>1, <1>2, <1>3, <1>4, <1>5, <1>6

\* So do requests, and the clock.
LEMMA EditTypes ==
  ASSUME TypeOK, Tick \/ \E k \in Edits : EditRead(k) \/ EditWrite(k) \/ EditTime(k)
  PROVE  TypeOK'
  <1> USE ScanDiffAssumption
  <1> DEFINE Req == [pc : {"idle", "read", "wrote", "over"}, old : FindingStatuses, new : FindingStatuses, f : Findings]
  <1>0. edit \in [Edits -> Req] /\ finding \in [Findings -> FindingRow]
    BY DEF TypeOK, FindingRow
  <1>1. CASE Tick
    BY <1>1 DEF Tick, TypeOK, Second
  <1>2. ASSUME NEW k \in Edits, EditRead(k) PROVE TypeOK'
    <2>1. edit' \in [Edits -> Req]
      <3>1. PICK f \in Findings, new \in {"open", "resolved", "triaged"} :
              edit' = [edit EXCEPT ![k] = [pc |-> "read", old |-> finding[f].status, new |-> new, f |-> f]]
        BY <1>2 DEF EditRead
      <3>2. new \in FindingStatuses /\ finding[f].status \in FindingStatuses
        BY <1>0 DEF FindingStatuses, FindingRow
      <3> QED BY <1>0, <3>1, <3>2
    <2> QED BY <1>2, <2>1 DEF EditRead, TypeOK
  <1>3. ASSUME NEW k \in Edits, EditWrite(k) \/ EditTime(k) PROVE TypeOK'
    <2>1. PICK at \in {"wrote", "over"} : edit' = [edit EXCEPT ![k] = [edit[k] EXCEPT !.pc = at]]
      BY <1>3 DEF EditWrite, EditTime
    <2>2. edit[k] \in Req /\ edit[k].f \in Findings /\ edit[k].new \in FindingStatuses
      BY <1>0
    <2>3. [edit[k] EXCEPT !.pc = at] = [pc |-> at, old |-> edit[k].old, new |-> edit[k].new, f |-> edit[k].f]
      BY <2>2
    <2>4. edit' \in [Edits -> Req]
      BY <1>0, <2>1, <2>2, <2>3
    <2>5. finding' \in [Findings -> FindingRow]
      <3>1. CASE EditWrite(k)
        <4>1. finding' = [finding EXCEPT ![edit[k].f] = StatusSet(finding[edit[k].f], edit[k].new)]
          BY <3>1 DEF EditWrite
        <4> QED BY <1>0, <2>2, <4>1, StatusSetRow
      <3>2. CASE EditTime(k)
        <4>1. PICK tm \in BOOLEAN : finding' = [finding EXCEPT ![edit[k].f] = ResolvedAtSet(finding[edit[k].f], tm)]
          BY <3>2 DEF EditTime
        <4> QED BY <1>0, <2>2, <4>1, ResolvedAtSetRow
      <3> QED BY <1>3, <3>1, <3>2
    <2> QED BY <1>3, <2>4, <2>5 DEF EditWrite, EditTime, TypeOK, FindingRow
  <1> QED BY <1>1, <1>2, <1>3

-----------------------------------------------------------------------------
(* Steps of the invariant; o is the scan that takes the step *)

\* A scan begins: its snapshot is of the assets as they are, all seen before this second.
LEMMA BeginKeeps ==
  ASSUME DiffInv, GoneIsUnseen, Serial, ~MayShareSecond, NEW o \in Scans, Begin(o)
  PROVE  DiffInv' /\ GoneIsUnseen'
  <1> USE ScanDiffAssumption
  <1>0. TypeOK /\ UnderIsLast /\ Clean /\ Past /\ SnapshotHolds /\ pc[o] = "idle" /\ Target[o] \in Targets
    BY DEF DiffInv, Begin
  <1>1. /\ pc' = [pc EXCEPT ![o] = "tools"] /\ last' = [last EXCEPT ![Target[o]] = o]
        /\ pre' = [pre EXCEPT ![o] = [a \in Assets |-> IF a \in Mine(o) THEN asset[a].seen ELSE 0]]
        /\ UNCHANGED <<finding, todo, edit, saw, now>>
    BY DEF Begin, Goto
  <1>2. \A a \in Assets : /\ asset'[a].seen = asset[a].seen
                          /\ a \notin Mine(o) => asset'[a] = asset[a]
    <2>1. \A a \in Assets : asset[a] \in [status : AssetStatuses, seen : Second]
      BY <1>0 DEF TypeOK
    <2> QED BY <2>1 DEF Begin, Normalized
  <1>3. \A s \in Scans : Target[s] = Target[o] => ~Under(s)
    BY DEF Begin
  <1>4. UnderIsLast'
    BY <1>0, <1>1, <1>3 DEF UnderIsLast, Under, TypeOK
  <1>5. Clean'
    <2>1. \A s \in Scans : pc'[s] = "idle" => s \notin first' /\ saw'[s] = {}
      BY <1>0, <1>1 DEF Clean, Begin, TypeOK
    <2>2. \A s \in Scans : pc'[s] \in {"idle", "tools", "listing"} => todo'[s] = {}
      BY <1>0, <1>1 DEF Clean, TypeOK
    <2>3. \A a \in Assets : last'[OwnerOf[a]] = NoScan => asset'[a].seen = 0
      BY <1>0, <1>1, <1>2 DEF Clean, TypeOK
    <2> QED BY <2>1, <2>2, <2>3 DEF Clean
  <1>6. Past'
    <2>1. \A a \in Mine(o) : asset[a].seen < now
      BY DEF Begin
    <2>2. \A s \in Scans, a \in Assets : pc'[s] = "tools" => pre'[s][a] < now'
      BY <1>0, <1>1, <2>1 DEF Past, TypeOK, Second
    <2>3. \A a \in Assets : asset'[a].seen <= now'
      BY <1>0, <1>1, <1>2 DEF Past
    <2> QED BY <1>0, <1>1, <2>2, <2>3 DEF Past
  <1>7. SnapshotHolds'
    <2> SUFFICES ASSUME NEW s \in Scans, pc'[s] = "tools"
                 PROVE  /\ \A a \in Mine(s) : IF a \in saw'[s] THEN pre'[s][a] < asset'[a].seen /\ asset'[a].status = "new"
                                                               ELSE asset'[a].seen = pre'[s][a]
                        /\ s \in first' => \A a \in Assets : pre'[s][a] = 0
      BY DEF SnapshotHolds, Mine
    <2>1. CASE s = o
      <3>1. saw'[o] = {} /\ o \notin first
        BY <1>0, <1>1 DEF Clean
      <3>2. \A a \in Mine(o) : asset'[a].seen = pre'[o][a]
        BY <1>0, <1>1, <1>2 DEF Mine, TypeOK
      <3>3. o \in first' => \A a \in Assets : pre'[o][a] = 0
        <4>1. o \in first' => last[Target[o]] = NoScan
          BY <3>1 DEF Begin
        <4>2. last[Target[o]] = NoScan => \A a \in Mine(o) : asset[a].seen = 0
          BY <1>0 DEF Clean, Mine
        <4> QED BY <1>0, <1>1, <4>1, <4>2 DEF TypeOK
      <3> QED BY <2>1, <3>1, <3>2, <3>3
    <2>2. CASE s # o
      <3>1. pc[s] = "tools" /\ pre'[s] = pre[s] /\ (s \in first' => s \in first) /\ saw'[s] = saw[s]
        BY <1>0, <1>1, <2>2 DEF TypeOK, Begin
      <3>2. \A a \in Mine(s) : asset'[a] = asset[a]
        BY <1>2, <1>3, <3>1 DEF Mine, Under
      <3>3. Mine(s) \subseteq Assets
        BY DEF Mine
      <3> QED BY <1>0, <3>1, <3>2, <3>3 DEF SnapshotHolds
    <2> QED BY <2>1, <2>2
  <1>8. GoneIsUnseen'
    <2> SUFFICES ASSUME NEW s \in Scans, pc'[s] \in Compared, last'[Target[s]] = s
                 PROVE  \A a \in Mine(s) : asset'[a].seen # 0 => (asset'[a].status = "disappeared" <=> a \notin saw'[s])
      BY DEF GoneIsUnseen, Mine, Compared
    <2>1. s # o /\ pc[s] \in Compared /\ Target[s] # Target[o] /\ last[Target[s]] = s
      BY <1>0, <1>1 DEF TypeOK, Compared
    <2>2. \A a \in Mine(s) : asset'[a] = asset[a] /\ a \in Assets
      BY <1>2, <2>1 DEF Mine
    <2> QED BY <1>1, <2>1, <2>2 DEF GoneIsUnseen, Compared
  <1>9. TypeOK'
    BY <1>0, ScanTypes
  <1> QED BY <1>4, <1>5, <1>6, <1>7, <1>8, <1>9 DEF DiffInv

\* A tool reports an asset of the target: no other scan's.
LEMMA SeeAssetKeeps ==
  ASSUME DiffInv, GoneIsUnseen, NEW o \in Scans, NEW b \in Assets, SeeAsset(o, b)
  PROVE  DiffInv' /\ GoneIsUnseen'
  <1> USE ScanDiffAssumption
  <1>0. TypeOK /\ UnderIsLast /\ Clean /\ Past /\ SnapshotHolds /\ pc[o] = "tools" /\ Under(o) /\ b \in Mine(o)
    BY DEF DiffInv, SeeAsset, Under
  <1>1. /\ asset' = [asset EXCEPT ![b] = [status |-> "new", seen |-> now]]
        /\ saw' = [saw EXCEPT ![o] = saw[o] \cup {b}]
        /\ UNCHANGED <<finding, pc, first, pre, todo, last, edit, now>>
    BY DEF SeeAsset
  <1>2. asset'[b].seen = now /\ asset'[b].status = "new" /\ \A a \in Assets \ {b} : asset'[a] = asset[a]
    BY <1>1 DEF TypeOK, DiffInv
  <1>3. last[OwnerOf[b]] = o
    BY <1>0 DEF Mine, UnderIsLast
  <1>4. \A s \in Scans : b \in Mine(s) /\ last[Target[s]] = s => s = o
    BY <1>3 DEF Mine
  <1>5. UnderIsLast'
    BY <1>0, <1>1 DEF UnderIsLast, Under
  <1>6. Clean'
    <2>1. \A s \in Scans : pc[s] = "idle" => saw'[s] = saw[s]
      BY <1>0, <1>1 DEF TypeOK
    <2> QED BY <1>0, <1>1, <1>2, <1>3, <2>1 DEF Clean
  <1>7. Past'
    BY <1>0, <1>1, <1>2 DEF Past, TypeOK, Second
  <1>8. SnapshotHolds'
    <2> SUFFICES ASSUME NEW s \in Scans, pc[s] = "tools"
                 PROVE  /\ \A a \in Mine(s) : IF a \in saw'[s] THEN pre[s][a] < asset'[a].seen /\ asset'[a].status = "new"
                                                               ELSE asset'[a].seen = pre[s][a]
                        /\ s \in first => \A a \in Assets : pre[s][a] = 0
      BY <1>1 DEF SnapshotHolds, Mine
    <2>1. last[Target[s]] = s
      BY <1>0 DEF UnderIsLast, Under
    <2>2. ASSUME NEW a \in Mine(s)
          PROVE  IF a \in saw'[s] THEN pre[s][a] < asset'[a].seen /\ asset'[a].status = "new"
                                   ELSE asset'[a].seen = pre[s][a]
      <3>1. CASE a = b
        <4>1. s = o
          BY <3>1, <2>1, <2>2, <1>4
        <4>2. pre[o][b] < now /\ b \in saw'[o]
          BY <1>0, <1>1 DEF Past, TypeOK
        <4> QED BY <3>1, <4>1, <4>2, <1>2
      <3>2. CASE a # b
        <4>1. asset'[a] = asset[a] /\ (a \in saw'[s] <=> a \in saw[s])
          BY <3>2, <1>1, <1>2, <1>0, <2>2 DEF Mine, TypeOK
        <4> QED BY <4>1, <1>0, <2>2 DEF SnapshotHolds
      <3> QED BY <3>1, <3>2
    <2> QED BY <2>2, <1>0 DEF SnapshotHolds
  <1>9. GoneIsUnseen'
    <2> SUFFICES ASSUME NEW s \in Scans, pc[s] \in Compared, last[Target[s]] = s
                 PROVE  \A a \in Mine(s) : asset'[a].seen # 0 => (asset'[a].status = "disappeared" <=> a \notin saw'[s])
      BY <1>1 DEF GoneIsUnseen, Mine, Compared
    <2>1. s # o /\ b \notin Mine(s)
      BY <1>0, <1>4 DEF Compared
    <2>2. saw'[s] = saw[s] /\ \A a \in Mine(s) : asset'[a] = asset[a]
      BY <2>1, <1>0, <1>1, <1>2 DEF TypeOK, Mine
    <2> QED BY <2>2 DEF GoneIsUnseen, Compared
  <1>10. TypeOK'
    BY <1>0, ScanTypes
  <1> QED BY <1>5, <1>6, <1>7, <1>8, <1>9, <1>10 DEF DiffInv

\* The comparison marks, of the assets of the target, those that the scan has not seen, and no others.
LEMMA CompareKeeps ==
  ASSUME DiffInv, GoneIsUnseen, NEW o \in Scans, Compare(o)
  PROVE  DiffInv' /\ GoneIsUnseen'
  <1> USE ScanDiffAssumption
  <1>0. TypeOK /\ UnderIsLast /\ Clean /\ Past /\ SnapshotHolds /\ pc[o] = "tools" /\ last[Target[o]] = o
    BY DEF DiffInv, Compare, UnderIsLast, Under
  <1>1. pc' = [pc EXCEPT ![o] = "listing"] /\ UNCHANGED <<finding, first, pre, todo, last, edit, saw, now>>
    BY DEF Compare, Goto
  <1>2. ASSUME NEW a \in Assets
        PROVE  /\ asset'[a].seen = asset[a].seen
               /\ a \notin Mine(o) => asset'[a] = asset[a]
               /\ a \in Appeared(o) => asset'[a].status = "new"
               /\ a \in Disappeared(o) \ Appeared(o) => asset'[a].status = "disappeared"
               /\ a \notin Appeared(o) \cup Disappeared(o) => asset'[a] = asset[a]
    <2>1. asset[a] \in [status : AssetStatuses, seen : Second]
      BY <1>0 DEF TypeOK
    <2>2. Appeared(o) \subseteq Mine(o) /\ Disappeared(o) \subseteq Mine(o)
      BY DEF Appeared, Disappeared
    <2>3. asset'[a] = IF a \in Appeared(o) THEN [asset[a] EXCEPT !.status = "new"]
                      ELSE IF a \in Disappeared(o) THEN [asset[a] EXCEPT !.status = "disappeared"]
                      ELSE asset[a]
      BY DEF Compare
    <2>4. \A st : [asset[a] EXCEPT !.status = st] = [status |-> st, seen |-> asset[a].seen]
      BY <2>1
    <2> QED BY <2>2, <2>3, <2>4
  <1>3. UnderIsLast' /\ Clean' /\ Past'
    BY <1>0, <1>1, <1>2 DEF UnderIsLast, Under, Clean, Past, TypeOK
  <1>4. ASSUME NEW s \in Scans, s # o, Target[s] # Target[o]
        PROVE  \A a \in Mine(s) : asset'[a] = asset[a]
    BY <1>2, <1>4 DEF Mine
  <1>5. SnapshotHolds'
    <2> SUFFICES ASSUME NEW s \in Scans, pc'[s] = "tools"
                 PROVE  /\ \A a \in Mine(s) : IF a \in saw[s] THEN pre[s][a] < asset'[a].seen /\ asset'[a].status = "new"
                                                               ELSE asset'[a].seen = pre[s][a]
                        /\ s \in first => \A a \in Assets : pre[s][a] = 0
      BY <1>1 DEF SnapshotHolds, Mine
    <2>1. s # o /\ pc[s] = "tools" /\ Target[s] # Target[o]
      BY <1>0, <1>1, UnderApart DEF TypeOK, Under
    <2> QED BY <2>1, <1>0, <1>4 DEF SnapshotHolds
  <1>6. GoneIsUnseen'
    <2> SUFFICES ASSUME NEW s \in Scans, pc'[s] \in Compared, last[Target[s]] = s, NEW a \in Mine(s), asset'[a].seen # 0
                 PROVE  asset'[a].status = "disappeared" <=> a \notin saw[s]
      BY <1>1 DEF GoneIsUnseen, Mine, Compared
    <2>1. CASE s = o
      <3>0. a \in Assets /\ asset[a].seen # 0
        BY <1>2 DEF Mine
      <3>1. CASE a \in saw[o]
        <4>1. pre[o][a] < asset[a].seen /\ asset[a].status = "new"
          BY <2>1, <3>1, <1>0 DEF SnapshotHolds
        <4>2. a \notin Disappeared(o)
          BY <4>1, <3>0, <1>0 DEF Disappeared, TypeOK, Second
        <4> QED BY <2>1, <3>0, <3>1, <4>1, <4>2, <1>2
      <3>2. CASE a \notin saw[o]
        <4>1. asset[a].seen = pre[o][a] /\ o \notin first
          BY <2>1, <3>0, <3>2, <1>0 DEF SnapshotHolds
        <4>2. a \in Disappeared(o) \ Appeared(o)
          BY <2>1, <3>0, <4>1 DEF Appeared, Disappeared
        <4> QED BY <2>1, <3>0, <3>2, <4>2, <1>2
      <3> QED BY <2>1, <3>1, <3>2
    <2>2. CASE s # o
      <3>1. pc[s] \in Compared /\ Target[s] # Target[o]
        BY <2>2, <1>0, <1>1 DEF TypeOK
      <3> QED BY <2>2, <3>1, <1>4 DEF GoneIsUnseen, Compared
    <2> QED BY <2>1, <2>2
  <1>7. TypeOK'
    BY <1>0, ScanTypes
  <1> QED BY <1>3, <1>5, <1>6, <1>7 DEF DiffInv

\* A scan reports a finding, ends early, or comes a step further after its comparison: assets stay.
LEMMA AfterwardsKeeps ==
  ASSUME DiffInv, GoneIsUnseen, NEW o \in Scans,
         (\E f \in Findings : SeeFinding(o, f)) \/ Stop(o) \/ List(o) \/ Done(o)
  PROVE  DiffInv' /\ GoneIsUnseen'
  <1> USE ScanDiffAssumption
  <1>0. TypeOK /\ UnderIsLast /\ Clean /\ Past /\ SnapshotHolds
    BY DEF DiffInv
  <1>1. UNCHANGED <<asset, first, pre, last, edit, now>>
    BY DEF SeeFinding, Stop, List, Done
  <1>2. \A s \in Scans : /\ pc'[s] = pc[s] \/ (pc[s] = "tools" /\ pc'[s] = "stopped")
                             \/ (pc[s] \in Compared /\ pc'[s] \in Compared \ {"listing"})
                         /\ pc'[s] \in {"tools", "listing", "resolving"} => pc[s] \in {"tools", "listing", "resolving"}
                         /\ saw[s] \subseteq saw'[s]
                         /\ saw'[s] # saw[s] => pc[s] = "tools"
                         /\ \A a \in Assets : a \in saw'[s] => a \in saw[s]
    BY <1>0 DEF SeeFinding, Stop, List, Done, Goto, TypeOK, Compared
  <1>3. UnderIsLast'
    BY <1>0, <1>1, <1>2 DEF UnderIsLast, Under, Compared
  <1>4. Clean'
    <2>1. \A s \in Scans : pc'[s] = "idle" => s \notin first' /\ saw'[s] = {}
      BY <1>0, <1>1, <1>2 DEF Clean, Compared
    <2>2. \A s \in Scans : pc'[s] \in {"idle", "tools", "listing"} => todo'[s] = {}
      <3>1. \A s \in Scans : pc'[s] \in {"idle", "tools", "listing"} => pc'[s] = pc[s] /\ todo'[s] = todo[s]
        BY <1>0, <1>2 DEF SeeFinding, Stop, List, Done, Goto, TypeOK, Compared
      <3> QED BY <3>1, <1>0 DEF Clean
    <2> QED BY <1>0, <1>1, <2>1, <2>2 DEF Clean
  <1>5. Past'
    BY <1>0, <1>1, <1>2 DEF Past, Compared
  <1>6. SnapshotHolds'
    BY <1>0, <1>1, <1>2 DEF SnapshotHolds, Mine, Compared
  <1>7. GoneIsUnseen'
    <2> SUFFICES ASSUME NEW s \in Scans, pc'[s] \in Compared, last[Target[s]] = s, NEW a \in Mine(s), asset[a].seen # 0
                 PROVE  asset[a].status = "disappeared" <=> a \notin saw'[s]
      BY <1>1 DEF GoneIsUnseen, Mine, Compared
    <2>1. pc[s] \in Compared /\ saw'[s] = saw[s]
      BY <1>2 DEF Compared
    <2> QED BY <2>1 DEF GoneIsUnseen, Compared
  <1>8. TypeOK'
    BY <1>0, ScanTypes
  <1> QED BY <1>3, <1>4, <1>5, <1>6, <1>7, <1>8 DEF DiffInv

\* Every step keeps the invariant, and with it GoneIsUnseen.
LEMMA DiffStep ==
  ASSUME Serial, ~MayShareSecond, DiffInv, GoneIsUnseen, [Next]_vars
  PROVE  DiffInv' /\ GoneIsUnseen'
  <1> USE ScanDiffAssumption
  <1>1. CASE UNCHANGED vars
    BY <1>1 DEF vars, DiffInv, GoneIsUnseen, TypeOK, UnderIsLast, Under, Clean, Past, SnapshotHolds, Mine
  <1>2. ASSUME NEW s \in Scans,
               \/ Begin(s) \/ Stop(s) \/ Compare(s) \/ List(s) \/ Done(s)
               \/ \E a \in Assets : SeeAsset(s, a)
               \/ \E f \in Findings : SeeFinding(s, f)
        PROVE  DiffInv' /\ GoneIsUnseen'
    BY <1>2, BeginKeeps, SeeAssetKeeps, CompareKeeps, AfterwardsKeeps
  <1>3. ASSUME NEW s \in Scans, NEW f \in Findings, Resolve(s, f)
        PROVE  DiffInv' /\ GoneIsUnseen'
    <2>1. TypeOK'
      BY <1>3, ScanTypes DEF DiffInv
    <2>2. \A r \in Scans : pc[r] \in {"idle", "tools", "listing"} => todo'[r] = {}
      BY <1>3 DEF Resolve, DiffInv, Clean, TypeOK
    <2> QED BY <1>3, <2>1, <2>2, ElsewhereSteps DEF Resolve, DiffInv, TypeOK, Second
  <1>4. CASE Tick \/ \E k \in Edits : EditRead(k) \/ EditWrite(k) \/ EditTime(k)
    <2>1. TypeOK'
      BY <1>4, EditTypes DEF DiffInv
    <2>2. \A r \in Scans : pc[r] \in {"idle", "tools", "listing"} => todo'[r] = {}
      BY <1>4 DEF Tick, EditRead, EditWrite, EditTime, DiffInv, Clean
    <2> QED BY <1>4, <2>1, <2>2, ElsewhereSteps DEF Tick, EditRead, EditWrite, EditTime, DiffInv, TypeOK, Second
  <1> QED BY <1>1, <1>2, <1>3, <1>4 DEF Next

-----------------------------------------------------------------------------
(* Findings *)

\* scan_id of a finding is that of the last scan that has reported it, for a scan under way on its target.
Reporter ==
  /\ \A f \in Findings, s \in Scans : finding[f].scan = s => f \in saw[s]
  /\ \A s \in Scans, f \in Findings : pc[s] \in {"tools", "listing"} /\ f \in saw[s]
                                          => On[f] \in Mine(s) /\ finding[f].scan = s

\* What is open, and not reported by a scan that resolves, is still on that scan's list.
Pending ==
  \A s \in Scans, f \in Findings :
    pc[s] = "resolving" /\ On[f] \in Mine(s) /\ finding[f].status = "open" => f \in saw[s] \cup todo[s]

\* Requests do not take a finding back.
NoReopen == \A k \in Edits : edit[k].pc \in {"read", "wrote"} => edit[k].old # "resolved" /\ edit[k].new # "open"

FindingInv == Reporter /\ Pending /\ NoReopen

\* The initial state satisfies it.
LEMMA FindingInitInv == Init => FindingInv /\ ResolvesUnseen
  BY ScanDiffAssumption DEF Init, FindingInv, Reporter, Pending, NoReopen, ResolvesUnseen

\* A step of a scan that changes nothing but its own place among its phases.
LEMMA PhaseSteps ==
  ASSUME DiffInv, FindingInv, ResolvesUnseen, NEW o \in Scans, Begin(o) \/ Stop(o) \/ Compare(o)
  PROVE  FindingInv' /\ ResolvesUnseen'
  <1> USE ScanDiffAssumption
  <1>1. UNCHANGED <<finding, todo, saw, edit>>
    BY DEF Begin, Stop, Compare
  <1>2. \A s \in Scans : /\ pc'[s] \in {"resolving", "done"} => pc[s] = pc'[s]
                         /\ pc'[s] \in {"tools", "listing"} => pc[s] = "idle" \/ pc[s] \in {"tools", "listing"}
                         /\ pc[s] = "idle" => saw[s] = {}
    BY DEF Begin, Stop, Compare, Goto, DiffInv, TypeOK, Clean
  <1>3. \A s \in Scans : pc'[s] = "done" /\ last'[Target[s]] = s => last[Target[s]] = s
    BY <1>2 DEF Begin, Stop, Compare, Goto, DiffInv, TypeOK
  <1>4. FindingInv'
    BY <1>1, <1>2 DEF FindingInv, Reporter, Pending, NoReopen, Mine
  <1>5. ResolvesUnseen'
    BY <1>1, <1>2, <1>3 DEF ResolvesUnseen, Mine
  <1> QED BY <1>4, <1>5

\* A scan reports a finding on an asset of its target, on which no other scan is under way.
LEMMA SeeFindingKeeps ==
  ASSUME DiffInv, FindingInv, ResolvesUnseen, NEW o \in Scans, NEW g \in Findings, SeeFinding(o, g)
  PROVE  FindingInv' /\ ResolvesUnseen'
  <1> USE ScanDiffAssumption
  <1>0. /\ DiffInv /\ TypeOK /\ pc[o] = "tools" /\ todo[o] = {} /\ On[g] \in Mine(o) /\ last[Target[o]] = o
        /\ UNCHANGED <<asset, pc, first, pre, todo, last, edit, now>>
    BY DEF DiffInv, SeeFinding, Clean, UnderIsLast, Under
  <1>1. finding'[g].scan = o /\ (finding'[g].status = "open" => finding[g].status \in {"none", "open"})
        /\ (finding'[g].status = "resolved" => finding'[g].timed)
        /\ \A f \in Findings \ {g} : finding'[f] = finding[f]
    <2>1. finding' = [finding EXCEPT ![g] = Reported(g, o)] /\ finding[g] \in FindingRow
      BY DEF SeeFinding, DiffInv, TypeOK, FindingRow
    <2>2. Reported(g, o).scan = o /\ (Reported(g, o).status = "open" => finding[g].status \in {"none", "open"})
          /\ (Reported(g, o).status = "resolved" => Reported(g, o).timed)
      BY <2>1 DEF Reported, FindingRow, ResolvesUnseen
    <2> QED BY <2>1, <2>2 DEF DiffInv, TypeOK
  <1>2. saw'[o] = saw[o] \cup {g} /\ \A s \in Scans \ {o} : saw'[s] = saw[s]
    BY DEF SeeFinding, DiffInv, TypeOK
  <1>3. \A s \in Scans : On[g] \in Mine(s) /\ last[Target[s]] = s => s = o
    BY <1>0 DEF Mine
  <1>4. \A s \in Scans : Under(s) => last[Target[s]] = s
    BY DEF DiffInv, UnderIsLast
  <1>5. Reporter'
    <2>1. \A f \in Findings, s \in Scans : finding'[f].scan = s => f \in saw'[s]
      BY <1>1, <1>2 DEF FindingInv, Reporter
    <2>2. ASSUME NEW s \in Scans, NEW f \in Findings, pc[s] \in {"tools", "listing"}, f \in saw'[s]
          PROVE  On[f] \in Mine(s) /\ finding'[f].scan = s
      <3>1. CASE f = g
        <4>1. s = o \/ (f \in saw[s] /\ On[g] \in Mine(s))
          BY <2>2, <3>1, <1>2 DEF FindingInv, Reporter
        <4>2. last[Target[s]] = s
          BY <2>2, <1>4 DEF Under
        <4>3. s = o
          BY <4>1, <4>2, <1>3
        <4> QED BY <3>1, <4>3, <1>0, <1>1
      <3>2. CASE f # g
        BY <2>2, <3>2, <1>1, <1>2 DEF FindingInv, Reporter
      <3> QED BY <3>1, <3>2
    <2> QED BY <1>0, <2>1, <2>2 DEF Reporter, Mine
  <1>6. Pending'
    <2> SUFFICES ASSUME NEW s \in Scans, NEW f \in Findings, pc[s] = "resolving", On[f] \in Mine(s), finding'[f].status = "open"
                 PROVE  f \in saw'[s] \cup todo[s]
      BY <1>0 DEF Pending, Mine
    <2>1. s # o /\ last[Target[s]] = s
      BY <1>0, <1>4 DEF Under
    <2>2. f # g
      BY <2>1, <1>3
    <2> QED BY <2>1, <2>2, <1>1, <1>2 DEF FindingInv, Pending
  <1>7. NoReopen'
    BY <1>0 DEF FindingInv, NoReopen
  <1>8. ResolvesUnseen'
    <2>1. \A s \in Scans : todo'[s] \cap saw'[s] = {}
      BY <1>0, <1>2 DEF ResolvesUnseen
    <2>2. ASSUME NEW s \in Scans, pc[s] = "done", last[Target[s]] = s, NEW f \in Findings, On[f] \in Mine(s), finding'[f].status = "open"
          PROVE  f \in saw'[s]
      <3>1. s # o /\ f # g
        BY <2>2, <1>0, <1>3
      <3> QED BY <2>2, <3>1, <1>1, <1>2 DEF ResolvesUnseen
    <2>3. \A f \in Findings : finding'[f].status = "resolved" => finding'[f].timed
      BY <1>1 DEF ResolvesUnseen
    <2> QED BY <1>0, <2>1, <2>2, <2>3 DEF ResolvesUnseen, Mine
  <1> QED BY <1>5, <1>6, <1>7, <1>8 DEF FindingInv

\* The list of what to resolve is what is open and was not reported; it is worked off.
LEMMA ResolvingKeeps ==
  ASSUME DiffInv, FindingInv, ResolvesUnseen, NEW o \in Scans, List(o) \/ Done(o)
  PROVE  FindingInv' /\ ResolvesUnseen'
  <1> USE ScanDiffAssumption
  <1>0. UNCHANGED <<asset, finding, first, pre, last, edit, saw, now>>
    BY DEF List, Done
  <1>1. TypeOK
    BY DEF DiffInv
  <1>2. CASE List(o)
    <2>1. /\ pc[o] = "listing" /\ pc' = [pc EXCEPT ![o] = "resolving"]
          /\ todo' = [todo EXCEPT ![o] = NotReported(o)]
      BY <1>2 DEF List, Goto
    <2>2. \A f \in Findings : f \in NotReported(o) <=> finding[f].status = "open" /\ finding[f].scan # o
      BY DEF NotReported, OpenFindings
    <2>3. \A f \in Findings : f \in saw[o] <=> finding[f].scan = o
      BY <2>1 DEF FindingInv, Reporter
    <2>4. Reporter' /\ NoReopen'
      BY <1>0, <1>1, <2>1 DEF FindingInv, Reporter, NoReopen, Mine, TypeOK
    <2>5. Pending'
      BY <1>0, <1>1, <2>1, <2>2, <2>3 DEF FindingInv, Pending, Mine, TypeOK
    <2>6. ResolvesUnseen'
      <3>1. NotReported(o) \cap saw[o] = {}
        BY <2>2, <2>3 DEF NotReported, OpenFindings
      <3>2. \A s \in Scans : todo'[s] \cap saw'[s] = {}
        BY <1>0, <1>1, <2>1, <3>1 DEF ResolvesUnseen, TypeOK
      <3>3. \A s \in Scans : pc'[s] = "done" => pc[s] = "done"
        BY <1>1, <2>1 DEF TypeOK
      <3> QED BY <1>0, <3>2, <3>3 DEF ResolvesUnseen, Mine
    <2> QED BY <2>4, <2>5, <2>6 DEF FindingInv
  <1>3. CASE Done(o)
    <2>1. pc[o] = "resolving" /\ todo[o] = {} /\ pc' = [pc EXCEPT ![o] = "done"] /\ todo' = todo
      BY <1>3 DEF Done, Goto
    <2>2. FindingInv'
      BY <1>0, <1>1, <2>1 DEF FindingInv, Reporter, Pending, NoReopen, Mine, TypeOK
    <2>3. ResolvesUnseen'
      BY <1>0, <1>1, <2>1 DEF FindingInv, Pending, ResolvesUnseen, Mine, TypeOK
    <2> QED BY <2>2, <2>3
  <1> QED BY <1>2, <1>3

\* Resolutions and requests never open a finding, and leave its scan_id.
LEMMA StatusSteps ==
  ASSUME DiffInv, FindingInv, ResolvesUnseen, ~MayReopen,
         \/ \E s \in Scans, f \in Findings : Resolve(s, f)
         \/ \E k \in Edits : EditRead(k) \/ EditWrite(k) \/ EditTime(k)
         \/ Tick
  PROVE  FindingInv' /\ ResolvesUnseen'
  <1> USE ScanDiffAssumption
  <1> DEFINE Req == [pc : {"idle", "read", "wrote", "over"}, old : FindingStatuses, new : FindingStatuses, f : Findings]
  <1>0. UNCHANGED <<pc, last, saw>> /\ finding \in [Findings -> FindingRow] /\ edit \in [Edits -> Req]
    BY DEF DiffInv, TypeOK, FindingRow, Resolve, EditRead, EditWrite, EditTime, Tick
  <1> DEFINE Kept == \A f \in Findings :
                       /\ finding'[f].scan = finding[f].scan
                       /\ finding'[f].status = "open" => finding[f].status = "open"
                       /\ finding'[f].status = "resolved" => finding'[f].timed
  <1>1. Kept
    <2>0. \A f \in Findings : finding[f] \in FindingRow /\ (finding[f].status = "resolved" => finding[f].timed)
      BY <1>0 DEF ResolvesUnseen
    <2>1. CASE UNCHANGED finding
      BY <2>0, <2>1
    <2>a. ASSUME NEW g \in Findings, NEW r, finding' = [finding EXCEPT ![g] = r],
                 r.scan = finding[g].scan, r.status = "open" => finding[g].status = "open",
                 r.status = "resolved" => r.timed
          PROVE  Kept
      <3>1. finding'[g] = r /\ \A f \in Findings \ {g} : finding'[f] = finding[f]
        BY <1>0, <2>a
      <3> QED BY <2>0, <2>a, <3>1
    <2> HIDE DEF Kept
    <2>2. ASSUME NEW s \in Scans, NEW g \in Findings, Resolve(s, g)
          PROVE  Kept
      <3> DEFINE r == StatusSet(finding[g], "resolved")
      <3>1. finding' = [finding EXCEPT ![g] = r] /\ "resolved" \in FindingStatuses
        BY <2>2 DEF Resolve, FindingStatuses
      <3>2. r.scan = finding[g].scan /\ r.status = "resolved" /\ r.timed = (finding[g].timed \/ "resolved" = "resolved")
        BY <2>0, <3>1, StatusSetRow
      <3> HIDE DEF r
      <3> QED BY <2>a, <3>1, <3>2
    <2>3. ASSUME NEW k \in Edits, EditWrite(k)
          PROVE  Kept
      <3> DEFINE g == edit[k].f
                 new == edit[k].new
                 r == StatusSet(finding[g], new)
      <3>1. finding' = [finding EXCEPT ![g] = r] /\ g \in Findings /\ new \in FindingStatuses /\ new # "open"
        BY <1>0, <2>3 DEF EditWrite, FindingInv, NoReopen
      <3>2. r.scan = finding[g].scan /\ r.status = new /\ r.timed = (finding[g].timed \/ new = "resolved")
        BY <2>0, <3>1, StatusSetRow
      <3> HIDE DEF r, g, new
      <3> QED BY <2>a, <3>1, <3>2
    <2>4. ASSUME NEW k \in Edits, EditTime(k)
          PROVE  Kept
      <3> DEFINE g == edit[k].f
                 tm == edit[k].new = "resolved" \/ (finding[g].timed /\ edit[k].old # "resolved")
                 r == ResolvedAtSet(finding[g], tm)
      <3>1. finding' = [finding EXCEPT ![g] = r] /\ g \in Findings /\ edit[k].old # "resolved"
        BY <1>0, <2>4 DEF EditTime, FindingInv, NoReopen
      <3>2. tm \in BOOLEAN /\ (finding[g].timed => tm)
        BY <2>0, <3>1 DEF FindingRow
      <3>a. finding[g] \in FindingRow
        BY <2>0, <3>1
      <3> HIDE DEF tm, g
      <3>3. r.scan = finding[g].scan /\ r.status = finding[g].status /\ r.timed = tm
        BY <3>a, <3>2, ResolvedAtSetRow
      <3> HIDE DEF r, g
      <3> QED BY <2>0, <2>a, <3>1, <3>2, <3>3
    <2> QED BY <2>1, <2>2, <2>3, <2>4 DEF EditRead, Tick
  <1>2. \A s \in Scans, f \in Findings : f \in todo[s] \ todo'[s] => finding'[f].status # "open"
    <2>1. ASSUME NEW s \in Scans, NEW g \in Findings, Resolve(s, g)
          PROVE  finding'[g].status = "resolved" /\ todo' = [todo EXCEPT ![s] = todo[s] \ {g}]
      <3>1. finding' = [finding EXCEPT ![g] = StatusSet(finding[g], "resolved")] /\ "resolved" \in FindingStatuses
        BY <2>1 DEF Resolve, FindingStatuses
      <3> QED BY <1>0, <2>1, <3>1, StatusSetRow DEF Resolve
    <2>2. CASE UNCHANGED todo
      BY <2>2
    <2>3. CASE \E s \in Scans, g \in Findings : Resolve(s, g)
      <3> PICK s \in Scans, g \in Findings : Resolve(s, g)
        BY <2>3
      <3>1. finding'[g].status = "resolved" /\ todo' = [todo EXCEPT ![s] = todo[s] \ {g}] /\ todo \in [Scans -> SUBSET Findings]
        BY <2>1 DEF DiffInv, TypeOK
      <3>2. \A q \in Scans, f \in Findings : f \in todo[q] \ todo'[q] => f = g
        BY <3>1
      <3> QED BY <3>1, <3>2
    <2> QED BY <2>2, <2>3 DEF EditRead, EditWrite, EditTime, Tick
  <1>3. \A s \in Scans : todo'[s] \subseteq todo[s]
    <2>1. CASE UNCHANGED todo
      BY <2>1
    <2>2. CASE \E s \in Scans, g \in Findings : Resolve(s, g)
      BY <2>2 DEF Resolve, DiffInv, TypeOK
    <2> QED BY <2>1, <2>2 DEF EditRead, EditWrite, EditTime, Tick
  <1>4. Reporter'
    BY <1>0, <1>1 DEF FindingInv, Reporter, Mine
  <1>5. Pending'
    BY <1>0, <1>1, <1>2 DEF FindingInv, Pending, Mine
  <1>6. NoReopen'
    <2>1. CASE UNCHANGED edit
      BY <2>1 DEF FindingInv, NoReopen
    <2>2. ASSUME NEW k \in Edits, EditRead(k)
          PROVE  NoReopen'
      BY <1>0, <2>2 DEF EditRead, FindingInv, NoReopen
    <2>3. ASSUME NEW k \in Edits, EditWrite(k) \/ EditTime(k)
          PROVE  NoReopen'
      BY <1>0, <2>3 DEF EditWrite, EditTime, FindingInv, NoReopen
    <2> QED BY <2>1, <2>2, <2>3 DEF Resolve, Tick
  <1>7. ResolvesUnseen'
    BY <1>0, <1>1, <1>3 DEF ResolvesUnseen, Mine
  <1> QED BY <1>4, <1>5, <1>6, <1>7 DEF FindingInv

\* What a scan sees of assets says nothing of findings.
LEMMA SeeAssetQuiet ==
  ASSUME DiffInv, FindingInv, ResolvesUnseen, NEW o \in Scans, NEW b \in Assets, SeeAsset(o, b)
  PROVE  FindingInv' /\ ResolvesUnseen'
  <1> USE ScanDiffAssumption
  <1>1. UNCHANGED <<finding, pc, todo, last, edit>> /\ \A s \in Scans : saw'[s] \in {saw[s], saw[s] \cup {b}} /\ todo[s] \subseteq Findings
    BY DEF SeeAsset, DiffInv, TypeOK
  <1>2. \A s \in Scans, f \in Findings : f \in saw'[s] <=> f \in saw[s]
    BY <1>1
  <1>3. FindingInv'
    BY <1>1, <1>2 DEF FindingInv, Reporter, Pending, NoReopen, Mine
  <1>4. ResolvesUnseen'
    BY <1>1, <1>2 DEF ResolvesUnseen, Mine
  <1> QED BY <1>3, <1>4

\* Every step keeps ResolvesUnseen, as long as requests do not reopen findings.
LEMMA FindingStep ==
  ASSUME ~MayReopen, DiffInv, FindingInv, ResolvesUnseen, [Next]_vars
  PROVE  FindingInv' /\ ResolvesUnseen'
  <1>1. CASE UNCHANGED vars
    BY <1>1 DEF vars, FindingInv, Reporter, Pending, NoReopen, ResolvesUnseen, Mine
  <1> QED BY <1>1, PhaseSteps, SeeFindingKeeps, ResolvingKeeps, StatusSteps, SeeAssetQuiet DEF Next

-----------------------------------------------------------------------------

\* Type correctness, whether scans of a target are serialised or not: a stored row has been seen, and the
\* snapshots, the pending comparisons and the requests stay within the rows there are.
THEOREM DiffTypeCorrect == Spec => []TypeOK
  <1>1. Init => TypeOK
    BY DiffInitInv DEF DiffInv
  <1>2. TypeOK /\ [Next]_vars => TypeOK'
    <2> SUFFICES ASSUME TypeOK, [Next]_vars PROVE TypeOK'
      OBVIOUS
    <2>1. CASE UNCHANGED vars
      BY <2>1 DEF vars, TypeOK
    <2>2. CASE Next
      BY <2>2, ScanTypes, EditTypes DEF Next
    <2> QED BY <2>1, <2>2
  <1> QED BY <1>1, <1>2, PTL DEF Spec

\* When scans of a target are serialised and begin in a second of their own, the assets marked as disappeared after a
\* scan's comparison are those it has not seen (diff.go:46-62).
THEOREM GoneIsUnseenHolds ==
  ASSUME Serial, ~MayShareSecond
  PROVE  Spec => []GoneIsUnseen
  <1>1. DiffInv /\ GoneIsUnseen /\ [Next]_vars => DiffInv' /\ GoneIsUnseen'
    BY DiffStep
  <1> QED BY <1>1, DiffInitInv, PTL DEF Spec

\* Unless requests reopen findings, a scan resolves none that it has reported, leaves none of its target open that it has
\* not, and what is resolved says since when (diff_findings.go:13-14).
THEOREM ResolvesUnseenHolds ==
  ASSUME Serial, ~MayShareSecond, ~MayReopen
  PROVE  Spec => []ResolvesUnseen
  <1>1. DiffInv /\ GoneIsUnseen /\ [Next]_vars => DiffInv' /\ GoneIsUnseen'
    BY DiffStep
  <1>2. DiffInv /\ FindingInv /\ ResolvesUnseen /\ [Next]_vars => FindingInv' /\ ResolvesUnseen'
    BY FindingStep
  <1> QED BY <1>1, <1>2, DiffInitInv, FindingInitInv, PTL DEF Spec
=============================================================================
