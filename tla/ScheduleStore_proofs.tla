------------------------- MODULE ScheduleStore_proofs -------------------------
(***************************************************************************)
(* Proofs about ScheduleStore: for any rows, templates, requests and       *)
(* faults, references hold in every reachable state, deleted schedules     *)
(* stay deleted and runs keep what operators edit.                         *)
(***************************************************************************)
EXTENDS ScheduleStore, TLAPS

(* The parts of RefsHold, each with the variables it is about. *)
ReqOK == req \in [Requests -> Request] /\ \A h \in Requests : Held(req[h])
JobOK == job \in [Ids -> RunOf] /\ \A i \in Ids : job[i].at # "idle" => job[i].copy \in Row
DbOK ==
  /\ targets \subseteq Targets
  /\ tmpls \in [Templates -> Rules \cup {None}]
  /\ defaults \in Rules \cup {None}
  /\ born \subseteq Ids \cup Templates \cup Blackouts
  /\ faults \in 0..MaxFaults
  /\ \A t \in System : InitTemplates[t] # None => tmpls[t] # None
RowsOK == rows \in [Ids -> Row \cup {None}] /\ \A i \in Ids : Exists(i) => Admissible(i, rows[i])
BlksOK == blks \in [Blackouts -> Blackout \cup {None}] /\ \A b \in Blackouts : blks[b] # None => ValidBlackout(blks[b])

\* RefsHold is the conjunction of these parts.
LEMMA Parts == RefsHold <=> ReqOK /\ JobOK /\ DbOK /\ RowsOK /\ BlksOK
  BY DEF RefsHold, StoreTypeOK, ReqOK, JobOK, DbOK, RowsOK, BlksOK

\* The same of the state after a step.
LEMMA PartsAfter == RefsHold' <=> ReqOK' /\ JobOK' /\ DbOK' /\ RowsOK' /\ BlksOK'
  BY DEF RefsHold, StoreTypeOK, ReqOK, JobOK, DbOK, RowsOK, BlksOK

-----------------------------------------------------------------------------
(* The operators of the model *)

\* The cascade schedule -> template -> defaults always ends in a cadence.
LEMMA EffectiveIsRule ==
  ASSUME NEW r \in Row, NEW tm \in Rules \cup {None}, NEW def \in Rules \cup {None}
  PROVE  Effective(r, tm, def) \in Rules
  BY DEF Effective, Row

\* So does what is computed as next_run_at.
LEMMA NextIsRule ==
  ASSUME NEW r \in Row, NEW tm \in Rules \cup {None}
  PROVE  NextOf(r, tm) \in Rules
  BY EffectiveIsRule, StoreAssumption DEF NextOf

\* The template of a row is a cadence or none.
LEMMA TemplateIsRule ==
  ASSUME NEW r \in Row, DbOK
  PROVE  TemplateOf(r) \in Rules \cup {None}
  BY DEF TemplateOf, Row, DbOK

\* A statement after which every row that is left was there, of the same target and name, and refers to
\* nothing new, keeps the constraints of the table, whatever it removes with the rows that refer to it.
Kept ==
  /\ rows' \in [Ids -> Row \cup {None}]
  /\ \A i \in Ids : rows'[i] # None =>
       /\ rows[i] # None
       /\ rows'[i].target = rows[i].target /\ rows'[i].name = rows[i].name
       /\ rows'[i].target \in targets'
       /\ rows'[i].tmpl # None => tmpls'[rows'[i].tmpl] # None

\* See Kept.
LEMMA KeptIsAdmissible ==
  ASSUME RowsOK, Kept
  PROVE  RowsOK'
  BY DEF RowsOK, Kept, Exists, Admissible

\* A statement that changes no name, target or template of a row, and none of what it refers to.
Touched ==
  /\ rows' \in [Ids -> Row \cup {None}]
  /\ \A i \in Ids : rows'[i] # None =>
       /\ rows[i] # None
       /\ rows'[i].target = rows[i].target /\ rows'[i].name = rows[i].name /\ rows'[i].tmpl = rows[i].tmpl
  /\ UNCHANGED <<targets, tmpls>>

\* See Touched.
LEMMA TouchedIsKept ==
  ASSUME RowsOK, Touched
  PROVE  RowsOK'
<1>1. Kept
  BY DEF RowsOK, Touched, Kept, Exists, Admissible
<1>2. QED
  BY <1>1, KeptIsAdmissible

\* UpdateNextRunAt writes one column of a row that is there.
LEMMA SetNextTouches ==
  ASSUME RowsOK, NEW i \in Ids, NEW c \in Rules \cup {None}, rows' = SetNext(i, c), UNCHANGED <<targets, tmpls>>
  PROVE  RowsOK'
<1>1. Touched
  BY StoreAssumption, InitAssumption DEF RowsOK, Touched, SetNext, Exists, Row
<1>2. QED
  BY <1>1, TouchedIsKept

\* A row is written by INSERT or UPDATE only if the constraints of the table admit it.
LEMMA WriteAdmissible ==
  ASSUME RowsOK, NEW i \in Ids, NEW r \in Row, Admissible(i, r),
         rows' = [rows EXCEPT ![i] = r], UNCHANGED <<targets, tmpls>>
  PROVE  RowsOK'
<1>1. rows' \in [Ids -> Row \cup {None}]
  BY DEF RowsOK
<1>2. ASSUME NEW j \in Ids, rows'[j] # None
      PROVE  Admissible(j, rows[j])'
  <2>1. CASE j = i
    BY <2>1, <1>2 DEF RowsOK, Exists, Admissible
  <2>2. CASE j # i
    BY <2>2, <1>2 DEF RowsOK, Exists, Admissible
  <2>3. QED
    BY <2>1, <2>2
<1>3. QED
  BY <1>1, <1>2 DEF RowsOK, Exists

-----------------------------------------------------------------------------
(* What handlers hold *)

\* A handler that replaces its copies by well-formed ones leaves every request well formed.
LEMMA Holds ==
  ASSUME ReqOK, NEW h \in Requests, NEW q \in Request, Held(q), req' = [req EXCEPT ![h] = q]
  PROVE  ReqOK'
  BY DEF ReqOK

\* An idle request holds nothing.
LEMMA IdleIsHeld == IdleReq \in Request /\ Held(IdleReq)
  BY StoreAssumption, InitAssumption DEF IdleReq, Copies, Request, Held, Handlers

\* A request that has been answered holds nothing.
LEMMA AnswerHolds ==
  ASSUME ReqOK, NEW h \in Requests, Answer(h)
  PROVE  ReqOK' /\ req'[h].at = "done"
<1> DEFINE q == [IdleReq EXCEPT !.at = "done"]
<1>1. q \in Request /\ Held(q) /\ q.at = "done"
  BY StoreAssumption, InitAssumption DEF IdleReq, Copies, Request, Held, Handlers
<1>2. req' = [req EXCEPT ![h] = q]
  BY DEF Answer
<1>3. QED
  BY <1>1, <1>2, Holds DEF ReqOK

\* A request that starts its cascades holds the templates to go through.
LEMMA CascadingHolds ==
  ASSUME ReqOK, NEW h \in Requests, NEW todo \in SUBSET (Templates \cup {None}), Cascading(h, todo)
  PROVE  ReqOK' /\ req'[h].at = "cascade"
<1> DEFINE q == [IdleReq EXCEPT !.at = "cascade", !.todo = todo \ {None}]
<1>1. q \in Request /\ Held(q) /\ q.at = "cascade"
  BY StoreAssumption, InitAssumption DEF IdleReq, Copies, Request, Held, Handlers
<1>2. req' = [req EXCEPT ![h] = q]
  BY DEF Cascading
<1>3. QED
  BY <1>1, <1>2, Holds DEF ReqOK

\* A request that goes on to refresh next_run_at keeps the row that it wrote.
LEMMA RefreshingHolds ==
  ASSUME ReqOK, NEW h \in Requests, NEW todo \in SUBSET (Templates \cup {None}), Refreshing(h, todo),
         req[h].kind \in {"create", "put"}
  PROVE  ReqOK' /\ req'[h].at = "refresh"
<1> DEFINE q == [req[h] EXCEPT !.at = "refresh", !.todo = todo \ {None}]
<1>1. req[h] \in Request /\ Held(req[h])
  BY DEF ReqOK
<1>3. q \in Request /\ q.at = "refresh" /\ q.kind = req[h].kind /\ q.id = req[h].id /\ q.copy = req[h].copy
  BY <1>1 DEF Request
<1>4. Held(q)
  BY <1>1, <1>3 DEF Held
<1>2. req' = [req EXCEPT ![h] = q]
  BY <1>1 DEF Refreshing, ReqOK, Request
<1> HIDE DEF q
<1>5. QED
  BY <1>2, <1>3, <1>4, Holds DEF ReqOK

\* What a handler holds of a row after reading it.
LEMMA CopiesAreHeld ==
  ASSUME NEW at \in {"check", "write"}, NEW kind \in Handlers, NEW id \in Ids \cup Templates \cup Blackouts,
         NEW copy \in Row \cup Rules \cup Blackout \cup {None}, NEW tm \in Rules \cup {None}, NEW deps \in SUBSET Ids,
         kind \in {"create", "put", "toggle", "delete"} => id \in Ids /\ copy \in Row,
         kind = "template" => id \in Templates /\ copy \in Rules,
         kind = "untemplate" => id \in Templates,
         kind = "blackout" => id \in Blackouts /\ copy \in Blackout,
         NEW q, q = Copies(at, kind, id, copy) \/ q = [Copies(at, kind, id, copy) EXCEPT !.tm = tm]
                \/ q = [Copies(at, kind, id, copy) EXCEPT !.deps = deps]
  PROVE  q \in Request /\ Held(q)
  BY DEF Copies, Request, Held

\* createSchedule holds the row it was asked for.
LEMMA CreateReadHolds ==
  ASSUME ReqOK, DbOK, NEW h \in Requests, CreateCheck(h)
  PROVE  ReqOK'
<1>1. PICK i \in Ids \ born, r \in NewRows :
        Answer(h) \/ req' = [req EXCEPT ![h] = [Copies("write", "create", i, r) EXCEPT !.tm = TemplateOf(r)]]
  BY DEF CreateCheck
<1> DEFINE q == [Copies("write", "create", i, r) EXCEPT !.tm = TemplateOf(r)]
<1>2. r \in Row /\ TemplateOf(r) \in Rules \cup {None}
  BY InitAssumption, TemplateIsRule
<1>3. q \in Request /\ Held(q)
  BY <1>2, CopiesAreHeld DEF Handlers
<1> HIDE DEF q
<1>4. CASE Answer(h)
  BY <1>4, AnswerHolds
<1>5. CASE req' = [req EXCEPT ![h] = q]
  BY <1>3, <1>5, Holds
<1>6. QED
  BY <1>1, <1>4, <1>5 DEF q

\* The fields of an update's body make a row of a row.
LEMMA PutFieldsAreRows ==
  ASSUME NEW r \in Row, NEW q \in PutFields(r)
  PROVE  q \in Row
  BY DEF PutFields, Row, Owns

\* The handlers of one schedule hold a row.
LEMMA RowReadHolds ==
  ASSUME ReqOK, RowsOK, NEW h \in Requests, PutRead(h) \/ ToggleRead(h) \/ DeleteRead(h)
  PROVE  ReqOK'
<1>1. ASSUME NEW i \in Ids, Exists(i), NEW at \in {"check", "write"}, NEW kind \in {"put", "toggle", "delete"},
             NEW r \in PutFields(rows[i]) \cup {rows[i], [rows[i] EXCEPT !.enabled = ~@]},
             req' = [req EXCEPT ![h] = Copies(at, kind, i, r)]
      PROVE  ReqOK'
  <2>1. rows[i] \in Row
    BY <1>1 DEF RowsOK, Exists
  <2>2. rows[i] \in Row /\ [rows[i] EXCEPT !.enabled = ~@] \in Row
    BY <2>1 DEF Row
  <2>3. r \in Row
    BY <1>1, <2>1, <2>2, PutFieldsAreRows
  <2>4. Copies(at, kind, i, r) \in Request /\ Held(Copies(at, kind, i, r))
    BY <2>3, StoreAssumption, CopiesAreHeld DEF Handlers
  <2>5. QED
    BY <1>1, <2>4, Holds
<1>2. CASE Answer(h)
  BY <1>2, AnswerHolds
<1>3. CASE PutRead(h)
  BY <1>1, <1>2, <1>3 DEF PutRead
<1>4. CASE ToggleRead(h)
  BY <1>1, <1>2, <1>4 DEF ToggleRead
<1>5. CASE DeleteRead(h)
  BY <1>1, <1>2, <1>5 DEF DeleteRead
<1>6. QED
  BY <1>3, <1>4, <1>5

\* The handlers of templates hold a cadence, or the schedules to delete.
LEMMA TemplateReadHolds ==
  ASSUME ReqOK, NEW h \in Requests, TemplateRead(h) \/ TemplateDeleteList(h)
  PROVE  ReqOK'
<1>1. CASE Answer(h)
  BY <1>1, AnswerHolds
<1>2. ASSUME NEW t \in Templates, NEW c \in Rules, req' = [req EXCEPT ![h] = Copies("write", "template", t, c)]
      PROVE  ReqOK'
  <2>1. Copies("write", "template", t, c) \in Request /\ Held(Copies("write", "template", t, c))
    BY StoreAssumption, CopiesAreHeld DEF Handlers
  <2>2. QED
    BY <1>2, <2>1, Holds
<1>3. ASSUME NEW t \in Templates,
             req' = [req EXCEPT ![h] = [Copies("write", "untemplate", t, None) EXCEPT !.deps = OnTemplate(t)]]
      PROVE  ReqOK'
  <2> DEFINE q == [Copies("write", "untemplate", t, None) EXCEPT !.deps = OnTemplate(t)]
  <2>1. OnTemplate(t) \in SUBSET Ids
    BY DEF OnTemplate
  <2>2. q \in Request /\ Held(q)
    BY <2>1, StoreAssumption, CopiesAreHeld DEF Handlers
  <2> HIDE DEF q
  <2>3. req' = [req EXCEPT ![h] = q]
    BY <1>3 DEF q
  <2>4. QED
    BY <2>2, <2>3, Holds
<1>4. CASE TemplateRead(h)
  BY <1>1, <1>2, <1>4 DEF TemplateRead
<1>5. CASE TemplateDeleteList(h)
  BY <1>1, <1>3, <1>5 DEF TemplateDeleteList
<1>6. QED
  BY <1>4, <1>5

\* The update of a blackout holds the merged window.
LEMMA BlackoutReadHolds ==
  ASSUME ReqOK, DbOK, BlksOK, NEW h \in Requests, BlackoutRead(h)
  PROVE  ReqOK'
<1>1. CASE Answer(h)
  BY <1>1, AnswerHolds
<1>2. ASSUME NEW k \in Blackouts, blks[k] # None, NEW s \in {"global", "target"},
             NEW t \in {blks[k].target, None} \cup targets, NEW e \in BOOLEAN,
             req' = [req EXCEPT ![h] = Copies("write", "blackout", k, [scope |-> s, target |-> t, enabled |-> e])]
      PROVE  ReqOK'
  <2> DEFINE b == [scope |-> s, target |-> t, enabled |-> e]
  <2>1. b \in Blackout
    BY <1>2 DEF Blackout, BlksOK, DbOK
  <2> HIDE DEF b
  <2>2. Copies("write", "blackout", k, b) \in Request /\ Held(Copies("write", "blackout", k, b))
    BY <2>1, StoreAssumption, CopiesAreHeld DEF Handlers
  <2>3. QED
    BY <1>2, <2>2, Holds DEF b
<1>3. QED
  BY <1>1, <1>2 DEF BlackoutRead

\* The check of an update adds the template that it resolved.
LEMMA PutCheckHolds ==
  ASSUME ReqOK, DbOK, NEW h \in Requests, PutCheck(h)
  PROVE  ReqOK'
<1>1. CASE Answer(h)
  BY <1>1, AnswerHolds
<1>2. CASE ~Answer(h)
  <2> DEFINE q == [req[h] EXCEPT !.at = "write", !.tm = TemplateOf(req[h].copy)]
  <2>1. req[h] \in Request /\ Held(req[h]) /\ req[h].kind = "put"
    BY DEF ReqOK, PutCheck, At
  <2>2. TemplateOf(req[h].copy) \in Rules \cup {None}
    BY <2>1, TemplateIsRule DEF Held
  <2>3. q \in Request /\ Held(q)
    BY <2>1, <2>2 DEF Request, Held, Handlers
  <2>4. req' = [req EXCEPT ![h] = q]
    BY <1>2, <2>1 DEF PutCheck, Request, ReqOK
  <2>5. QED
    BY <2>3, <2>4, Holds
<1>3. QED
  BY <1>1, <1>2

\* The template, then the schedules, that a cascade works through.
LEMMA CascadeHolds ==
  ASSUME ReqOK, DbOK, NEW h \in Requests,
         CascadeRead(h) \/ CascadeList(h) \/ CascadeRow(h) \/ CascadeNext(h) \/ CascadeDone(h)
  PROVE  ReqOK'
<1>h. req[h] \in Request /\ Held(req[h]) /\ req[h].todo \in SUBSET (Templates \cup {None})
  BY DEF ReqOK, Request
<1>1. CASE CascadeRead(h)
  <2>1. PICK t \in req[h].todo : IF tmpls[t] = None THEN req' = [req EXCEPT ![h].todo = @ \ {t}]
                                 ELSE req' = [req EXCEPT ![h] = Listing(@, t)]
    BY <1>1 DEF CascadeRead
  <2>2. t \in Templates
    BY <1>h DEF Request
  <2>3. CASE tmpls[t] = None
    <3> DEFINE q == [req[h] EXCEPT !.todo = @ \ {t}]
    <3>1. q \in Request /\ Held(q)
      BY <1>h DEF Request, Held, Handlers
    <3>2. req' = [req EXCEPT ![h] = q]
      BY <1>h, <2>1, <2>3 DEF ReqOK, Request
    <3>3. QED
      BY <3>1, <3>2, Holds
  <2>4. CASE tmpls[t] # None
    <3> DEFINE q == Listing(req[h], t)
    <3>1. req[h].at = "cascade" /\ tmpls[t] \in Rules
      BY <1>1, <2>2, <2>4 DEF CascadeRead, DbOK
    <3>2. q \in Request /\ q.at = "list" /\ q.id = t /\ q.tm = tmpls[t] /\ q.kind = req[h].kind /\ q.copy = req[h].copy
      BY <1>h, <2>2, <3>1 DEF Request, Listing
    <3>4. req' = [req EXCEPT ![h] = q]
      BY <2>1, <2>4 DEF ReqOK
    <3>5. req[h].kind = None
      BY <1>h, <3>1 DEF Held
    <3> HIDE DEF q
    <3>3. Held(q)
      BY <1>h, <2>2, <3>1, <3>2, <3>5, InitAssumption DEF Held, Handlers
    <3>6. QED
      BY <3>2, <3>3, <3>4, Holds
  <2>5. QED
    BY <2>3, <2>4
<1>2. CASE CascadeList(h)
  <2> DEFINE deps == {i \in OnTemplate(req[h].id) : rows[i].own = "none"}
             q == [req[h] EXCEPT !.at = "each", !.deps = deps]
  <2>1. req[h].at = "list" /\ deps \in SUBSET Ids
    BY <1>2 DEF CascadeList, OnTemplate
  <2>2. req' = [req EXCEPT ![h] = q]
    BY <1>2, <1>h DEF CascadeList, ReqOK, Request
  <2> HIDE DEF deps
  <2>3. q \in Request /\ q.at = "each" /\ q.id = req[h].id /\ q.tm = req[h].tm /\ q.kind = req[h].kind /\ q.copy = req[h].copy
    BY <1>h, <2>1 DEF Request
  <2>4. Held(q)
    BY <1>h, <2>1, <2>3 DEF Held
  <2> HIDE DEF q
  <2>5. QED
    BY <2>2, <2>3, <2>4, Holds
<1>3. CASE CascadeRow(h)
  <2>1. PICK i \in req[h].deps : req' = [req EXCEPT ![h].deps = @ \ {i}]
    BY <1>3 DEF CascadeRow
  <2> DEFINE q == [req[h] EXCEPT !.deps = @ \ {i}]
  <2>2. q \in Request /\ Held(q)
    BY <1>h DEF Request, Held, Handlers
  <2>3. req' = [req EXCEPT ![h] = q]
    BY <2>1, <1>h DEF ReqOK, Request
  <2>4. QED
    BY <2>2, <2>3, Holds
<1>4. CASE CascadeNext(h)
  BY <1>4, <1>h, CascadingHolds DEF CascadeNext
<1>5. CASE CascadeDone(h)
  BY <1>5, AnswerHolds DEF CascadeDone
<1>6. QED
  BY <1>1, <1>2, <1>3, <1>4, <1>5

\* So does a statement of a request that fails.
LEMMA FaultHolds ==
  ASSUME ReqOK, NEW h \in Requests, ReqFault(h)
  PROVE  ReqOK'
<1>h. req[h] \in Request /\ Held(req[h]) /\ req[h].todo \in SUBSET (Templates \cup {None})
  BY DEF ReqOK, Request
<1>1. CASE Answer(h)
  BY <1>1, AnswerHolds
<1>2. CASE Cascading(h, req[h].todo)
  BY <1>2, <1>h, CascadingHolds
<1>3. ASSUME NEW t, req' = [req EXCEPT ![h].todo = @ \ {t}]
      PROVE  ReqOK'
  <2> DEFINE q == [req[h] EXCEPT !.todo = @ \ {t}]
  <2>1. q \in Request /\ Held(q)
    BY <1>h DEF Request, Held, Handlers
  <2>2. req' = [req EXCEPT ![h] = q]
    BY <1>3, <1>h DEF ReqOK, Request
  <2>3. QED
    BY <2>1, <2>2, Holds
<1>4. ASSUME NEW i, req' = [req EXCEPT ![h].deps = @ \ {i}]
      PROVE  ReqOK'
  <2> DEFINE q == [req[h] EXCEPT !.deps = @ \ {i}]
  <2>1. q \in Request /\ Held(q)
    BY <1>h DEF Request, Held, Handlers
  <2>2. req' = [req EXCEPT ![h] = q]
    BY <1>4, <1>h DEF ReqOK, Request
  <2>3. QED
    BY <2>1, <2>2, Holds
<1>5. QED
  BY <1>1, <1>2, <1>3, <1>4 DEF ReqFault

-----------------------------------------------------------------------------
(* One lemma per statement that writes *)

\* A request that only reads keeps all that RefsHold says.
LEMMA ReadKeeps ==
  ASSUME RefsHold, ReqOK', UNCHANGED <<dbVars, job>>, faults' \in 0..MaxFaults
  PROVE  RefsHold'
<1>1. ReqOK /\ JobOK /\ DbOK /\ RowsOK /\ BlksOK
  BY Parts
<1>2. JobOK' /\ DbOK' /\ RowsOK' /\ BlksOK'
  BY <1>1 DEF JobOK, DbOK, RowsOK, BlksOK, dbVars, Exists, Admissible, ValidBlackout
<1>3. QED
  BY <1>2, PartsAfter

\* A request that writes rows alone keeps the rest.
LEMMA RowsWriteKeeps ==
  ASSUME RefsHold, ReqOK', RowsOK', born' \subseteq Ids \cup Templates \cup Blackouts, UnchangedButRows
  PROVE  RefsHold'
<1>1. ReqOK /\ JobOK /\ DbOK /\ RowsOK /\ BlksOK
  BY Parts
<1>2. JobOK' /\ DbOK' /\ BlksOK'
  BY <1>1 DEF JobOK, DbOK, BlksOK, UnchangedButRows, ValidBlackout
<1>3. QED
  BY <1>2, PartsAfter

\* The row of a create is inserted only where nothing has taken its place meanwhile.
LEMMA CreateWriteKeeps ==
  ASSUME RefsHold, NEW h \in Requests, CreateWrite(h)
  PROVE  RefsHold'
<1>1. ReqOK /\ DbOK /\ RowsOK
  BY Parts
<1>h. req[h].id \in Ids /\ req[h].copy \in Row /\ req[h].kind = "create"
  BY <1>1 DEF CreateWrite, At, ReqOK, Held
<1>2. CASE req[h].id \notin born /\ Admissible(req[h].id, req[h].copy)
  <2>1. rows' = [rows EXCEPT ![req[h].id] = req[h].copy] /\ born' = born \cup {req[h].id}
        /\ Refreshing(h, {req[h].copy.tmpl}) /\ UnchangedButRows
    BY <1>2 DEF CreateWrite, InsertRow
  <2>2. RowsOK'
    BY <1>1, <1>2, <1>h, <2>1, WriteAdmissible DEF UnchangedButRows
  <2>3. {req[h].copy.tmpl} \in SUBSET (Templates \cup {None})
    BY <1>h DEF Row
  <2>4. ReqOK'
    BY <1>1, <1>h, <2>1, <2>3, RefreshingHolds
  <2>5. QED
    BY <1>1, <1>h, <2>1, <2>2, <2>4, RowsWriteKeeps DEF DbOK
<1>3. CASE ~(req[h].id \notin born /\ Admissible(req[h].id, req[h].copy))
  <2>1. Answer(h) /\ UNCHANGED <<rows, born>> /\ UnchangedButRows
    BY <1>3 DEF CreateWrite
  <2>2. ReqOK'
    BY <1>1, <2>1, AnswerHolds
  <2>3. RowsOK'
    BY <1>1, <2>1 DEF RowsOK, UnchangedButRows, Exists, Admissible
  <2>4. QED
    BY <1>1, <2>1, <2>2, <2>3, RowsWriteKeeps DEF DbOK
<1>4. QED
  BY <1>2, <1>3

\* Update writes the whole copy, if the row is still there and the constraints admit it.
LEMMA SavedKeeps ==
  ASSUME RowsOK, NEW h \in Requests, req[h].id \in Ids, req[h].copy \in Row, rows' = Saved(h), UNCHANGED <<targets, tmpls>>
  PROVE  RowsOK'
<1>1. CASE CanSave(req[h].id, req[h].copy)
  BY <1>1, WriteAdmissible DEF Saved, CanSave
<1>2. CASE ~CanSave(req[h].id, req[h].copy)
  BY <1>2 DEF Saved, RowsOK, Exists, Admissible
<1>3. QED
  BY <1>1, <1>2

\* updateSchedule and setScheduleEnabled write what they read, changed.
LEMMA RowWriteKeeps ==
  ASSUME RefsHold, NEW h \in Requests, PutWrite(h) \/ ToggleWrite(h)
  PROVE  RefsHold'
<1>1. ReqOK /\ DbOK /\ RowsOK
  BY Parts
<1>h. req[h].id \in Ids /\ req[h].copy \in Row /\ req[h].kind \in {"put", "toggle"}
  BY <1>1 DEF PutWrite, ToggleWrite, At, ReqOK, Held
<1>2. rows' = Saved(h) /\ UNCHANGED born /\ UnchangedButRows
  BY DEF PutWrite, ToggleWrite
<1>3. RowsOK'
  BY <1>1, <1>2, <1>h, SavedKeeps DEF UnchangedButRows
<1>4. {req[h].copy.tmpl} \in SUBSET (Templates \cup {None})
  BY <1>h DEF Row
<1>5. CASE Answer(h)
  BY <1>1, <1>2, <1>3, <1>5, AnswerHolds, RowsWriteKeeps DEF DbOK
<1>6. CASE PutWrite(h) /\ Refreshing(h, {req[h].copy.tmpl})
  <2>1. req[h].kind \in {"create", "put"}
    BY <1>6 DEF PutWrite, At
  <2>2. QED
    BY <1>1, <1>2, <1>3, <1>4, <1>6, <2>1, RefreshingHolds, RowsWriteKeeps DEF DbOK
<1>7. QED
  BY <1>5, <1>6 DEF PutWrite, ToggleWrite

\* deleteSchedule removes a row, which nothing refers to.
LEMMA DeleteWriteKeeps ==
  ASSUME RefsHold, NEW h \in Requests, DeleteWrite(h)
  PROVE  RefsHold'
<1>1. ReqOK /\ DbOK /\ RowsOK
  BY Parts
<1>h. req[h].id \in Ids /\ req[h].copy \in Row
  BY <1>1 DEF DeleteWrite, At, ReqOK, Held
<1>2. Touched
  BY <1>1 DEF DeleteWrite, RemoveRow, UnchangedButRows, Touched, RowsOK
<1>3. {req[h].copy.tmpl} \in SUBSET (Templates \cup {None})
  BY <1>h DEF Row
<1>4. ReqOK'
  BY <1>1, <1>3, AnswerHolds, CascadingHolds DEF DeleteWrite
<1>5. QED
  BY <1>1, <1>2, <1>4, TouchedIsKept, RowsWriteKeeps DEF DeleteWrite, DbOK

\* refreshNextRun and RecomputeNextRunForTemplate write next_run_at of rows that are still there.
LEMMA RefreshKeeps ==
  ASSUME RefsHold, NEW h \in Requests, Refresh(h) \/ CascadeRow(h)
  PROVE  RefsHold'
<1>1. ReqOK /\ DbOK /\ RowsOK
  BY Parts
<1>h. req[h] \in Request /\ Held(req[h]) /\ req[h].todo \in SUBSET (Templates \cup {None})
  BY <1>1 DEF ReqOK, Request
<1>2. RowsOK'
  <2>1. CASE Refresh(h)
    <3>1. req[h].id \in Ids /\ req[h].copy \in Row /\ NextOf(req[h].copy, req[h].tm) \in Rules
      BY <1>h, <2>1, NextIsRule DEF Refresh, Held, Request
    <3>2. CASE req[h].copy.enabled
      BY <1>1, <2>1, <3>1, <3>2, SetNextTouches DEF Refresh, UnchangedButRows
    <3>3. CASE ~req[h].copy.enabled
      BY <1>1, <2>1, <3>3 DEF Refresh, UnchangedButRows, RowsOK, Exists, Admissible
    <3>4. QED
      BY <3>2, <3>3
  <2>2. CASE CascadeRow(h)
    <3>1. PICK i \in req[h].deps : rows' = SetNext(i, req[h].tm)
      BY <2>2 DEF CascadeRow
    <3>2. i \in Ids /\ req[h].tm \in Rules
      BY <1>h, <2>2 DEF CascadeRow, Request, Held
    <3>3. QED
      BY <1>1, <2>2, <3>1, <3>2, SetNextTouches DEF CascadeRow, UnchangedButRows
  <2>3. QED
    BY <2>1, <2>2
<1>3. ReqOK'
  BY <1>1, <1>h, CascadeHolds, CascadingHolds DEF Refresh
<1>4. QED
  BY <1>1, <1>2, <1>3, RowsWriteKeeps DEF Refresh, CascadeRow, DbOK

\* A bulk request enables, pauses or deletes rows that exist.
LEMMA BulkKeeps ==
  ASSUME RefsHold, NEW h \in Requests, Bulk(h)
  PROVE  RefsHold'
<1>1. ReqOK /\ DbOK /\ RowsOK
  BY Parts
<1>2. PICK S \in SUBSET {i \in Ids : Exists(i)} \ {{}} :
        /\ \/ \E en \in BOOLEAN : rows' = BulkToggle(S, en) /\ UNCHANGED born
           \/ rows' = BulkDelete(S) /\ UNCHANGED born
        /\ Cascading(h, {rows[i].tmpl : i \in S})
  BY DEF Bulk
<1>3. \A i \in S : i \in Ids /\ rows[i] \in Row
  BY <1>1 DEF RowsOK, Exists
<1>4. {rows[i].tmpl : i \in S} \in SUBSET (Templates \cup {None})
  BY <1>3 DEF Row
<1>5. ReqOK'
  BY <1>1, <1>2, <1>4, CascadingHolds
<1>6. Touched
  <2>1. ASSUME NEW en \in BOOLEAN, rows' = BulkToggle(S, en)
        PROVE  Touched
    <3>1. \A i \in S : [rows[i] EXCEPT !.enabled = en] \in Row
      BY <1>3 DEF Row
    <3>2. \A i \in Ids : rows'[i] = IF i \in S THEN [rows[i] EXCEPT !.enabled = en] ELSE rows[i]
      BY <2>1 DEF BulkToggle
    <3>3. rows' \in [Ids -> Row \cup {None}]
      BY <1>1, <2>1, <3>1 DEF BulkToggle, RowsOK
    <3>4. \A i \in S : LET r == [rows[i] EXCEPT !.enabled = en] IN
            r.target = rows[i].target /\ r.name = rows[i].name /\ r.tmpl = rows[i].tmpl
      BY <1>3 DEF Row
    <3>5. \A i \in S : rows[i] # None
      BY <1>3, InitAssumption
    <3>6. UNCHANGED <<targets, tmpls>>
      BY DEF Bulk, UnchangedButRows
    <3>7. QED
      BY <3>2, <3>3, <3>4, <3>5, <3>6 DEF Touched
  <2>2. CASE rows' = BulkDelete(S)
    BY <1>1, <2>2 DEF Touched, BulkDelete, RowsOK, Bulk, UnchangedButRows
  <2>3. QED
    BY <1>2, <2>1, <2>2
<1>7. QED
  BY <1>1, <1>2, <1>5, <1>6, TouchedIsKept, RowsWriteKeeps DEF Bulk, DbOK

\* A clone is a row like the one it is made of, but for what it is given.
LEMMA CloneIsRow ==
  ASSUME NEW r \in Row, NEW n \in Names, NEW c \in Rules
  PROVE  /\ CloneOf(r, n, c) \in Row
         /\ CloneOf(r, n, c).target = r.target /\ CloneOf(r, n, c).name = n /\ CloneOf(r, n, c).tmpl = r.tmpl
  BY DEF CloneOf, Row, Owns

\* A clone shares neither target and name with a row nor with another clone.
LEMMA BulkCloneKeeps ==
  ASSUME RefsHold, NEW h \in Requests, BulkClone(h)
  PROVE  RefsHold'
<1>1. ReqOK /\ DbOK /\ RowsOK
  BY Parts
<1>2. CASE Answer(h) /\ UNCHANGED <<rows, born>>
  <2>1. ReqOK'
    BY <1>1, <1>2, AnswerHolds
  <2>2. RowsOK'
    BY <1>1, <1>2 DEF RowsOK, BulkClone, UnchangedButRows, Exists, Admissible
  <2>3. QED
    BY <1>1, <1>2, <2>1, <2>2, RowsWriteKeeps DEF BulkClone, DbOK
<1>3. ASSUME NEW S \in SUBSET {i \in Ids : Exists(i)} \ {{}}, NEW n \in Names, NEW c \in Rules,
             CanClone(S, n), NEW new \in [S -> Ids \ born], \A i, j \in S : new[i] = new[j] => i = j,
             rows' = Cloned(S, new, n, c),
             born' = born \cup {new[i] : i \in S},
             Cascading(h, {rows[i].tmpl : i \in S})
      PROVE  RefsHold'
  <2>1. \A i \in S : i \in Ids /\ rows[i] \in Row
    BY <1>1, <1>3 DEF RowsOK, Exists
  <2>2. {rows[i].tmpl : i \in S} \in SUBSET (Templates \cup {None})
    BY <2>1 DEF Row
  <2>3. ReqOK'
    BY <1>1, <1>3, <2>2, CascadingHolds
  <2>4. born' \subseteq Ids \cup Templates \cup Blackouts
    BY <1>1, <1>3 DEF DbOK
  <2>5. \A k \in Ids : \/ rows'[k] = rows[k]
                       \/ \E i \in S : new[i] = k /\ rows'[k] = CloneOf(rows[i], n, c)
    <3>1. TAKE k \in Ids
    <3>2. CASE \E i \in S : new[i] = k
      <4> DEFINE i == CHOOSE i \in S : new[i] = k
      <4>1. i \in S /\ new[i] = k
        BY <3>2
      <4>2. rows'[k] = CloneOf(rows[i], n, c)
        BY <1>3, <3>2 DEF Cloned
      <4>3. QED
        BY <4>1, <4>2
    <3>3. CASE ~\E i \in S : new[i] = k
      BY <1>3, <3>3 DEF Cloned
    <3>4. QED
      BY <3>2, <3>3
  <2>6. \A i \in S : /\ CloneOf(rows[i], n, c) \in Row
                     /\ CloneOf(rows[i], n, c).target = rows[i].target
                     /\ CloneOf(rows[i], n, c).name = n
                     /\ CloneOf(rows[i], n, c).tmpl = rows[i].tmpl
    BY <1>3, <2>1, CloneIsRow
  <2>7. rows' \in [Ids -> Row \cup {None}]
    <3>1. \A k \in Ids : rows'[k] \in Row \cup {None}
      BY <1>1, <2>5, <2>6 DEF RowsOK
    <3>2. rows' = [k \in Ids |-> rows'[k]]
      BY <1>3 DEF Cloned
    <3>3. QED
      BY <3>1, <3>2
  <2>8. UNCHANGED <<targets, tmpls>> /\ UnchangedButRows
    BY DEF BulkClone, UnchangedButRows
  <2>9. ASSUME NEW k \in Ids, rows'[k] # None
        PROVE  rows'[k].target \in targets' /\ (rows'[k].tmpl # None => tmpls'[rows'[k].tmpl] # None)
    <3>1. CASE rows'[k] = rows[k]
      BY <1>1, <2>8, <2>9, <3>1 DEF RowsOK, Exists, Admissible
    <3>2. ASSUME NEW i \in S, rows'[k] = CloneOf(rows[i], n, c)
          PROVE  rows'[k].target \in targets' /\ (rows'[k].tmpl # None => tmpls'[rows'[k].tmpl] # None)
      BY <1>1, <2>1, <2>6, <2>8, <3>2 DEF RowsOK, Exists, Admissible
    <3>3. QED
      BY <2>5, <3>1, <3>2
  <2>10. ASSUME NEW k \in Ids, NEW j \in Ids \ {k}, rows'[k] # None, rows'[j] # None
         PROVE  <<rows'[j].target, rows'[j].name>> # <<rows'[k].target, rows'[k].name>>
    <3>1. CASE rows'[k] = rows[k] /\ rows'[j] = rows[j]
      BY <1>1, <2>10, <3>1 DEF RowsOK, Exists, Admissible
    <3>2. ASSUME NEW i \in S, rows'[k] = CloneOf(rows[i], n, c), rows'[j] = rows[j]
          PROVE  <<rows'[j].target, rows'[j].name>> # <<rows'[k].target, rows'[k].name>>
      BY <1>3, <2>6, <2>10, <3>2 DEF Exists, CanClone
    <3>3. ASSUME NEW i \in S, rows'[j] = CloneOf(rows[i], n, c), rows'[k] = rows[k]
          PROVE  <<rows'[j].target, rows'[j].name>> # <<rows'[k].target, rows'[k].name>>
      BY <1>3, <2>6, <2>10, <3>3 DEF Exists, CanClone
    <3>4. ASSUME NEW i \in S, NEW l \in S, new[i] = k, new[l] = j,
                 rows'[k] = CloneOf(rows[i], n, c), rows'[j] = CloneOf(rows[l], n, c)
          PROVE  <<rows'[j].target, rows'[j].name>> # <<rows'[k].target, rows'[k].name>>
      BY <1>3, <2>6, <2>10, <3>4 DEF CanClone
    <3>5. QED
      BY <2>5, <3>1, <3>2, <3>3, <3>4
  <2>11. RowsOK'
    BY <2>7, <2>9, <2>10 DEF RowsOK, Exists, Admissible
  <2>12. QED
    BY <2>3, <2>4, <2>8, <2>11, RowsWriteKeeps
<1>4. QED
  BY <1>2, <1>3 DEF BulkClone

-----------------------------------------------------------------------------
(* Templates, defaults, targets, blackouts *)

\* A request that writes templates keeps what refers to them as long as those stay.
LEMMA TemplatesKeep ==
  ASSUME RefsHold, ReqOK', NEW t \in Templates, NEW c \in Rules,
         tmpls' = PutTemplate(t, c) \/ tmpls' = tmpls, born' = born \cup {t} \/ born' = born,
         UNCHANGED <<targets, rows, blks, defaults, job, faults>>
  PROVE  RefsHold'
<1>1. JobOK /\ DbOK /\ RowsOK /\ BlksOK
  BY Parts
<1>2. tmpls' \in [Templates -> Rules \cup {None}] /\ \A u \in Templates : tmpls[u] # None => tmpls'[u] # None
  BY <1>1, StoreAssumption DEF DbOK, PutTemplate
<1>3. RowsOK'
  <2>1. \A i \in Ids : Exists(i) => rows[i].tmpl \in Templates \cup {None}
    BY <1>1 DEF RowsOK, Exists, Row
  <2>2. QED
    BY <1>1, <1>2, <2>1 DEF RowsOK, Exists, Admissible
<1>4. JobOK' /\ DbOK' /\ BlksOK'
  BY <1>1, <1>2, StoreAssumption DEF JobOK, DbOK, BlksOK, ValidBlackout
<1>5. QED
  BY <1>3, <1>4, PartsAfter

\* A template is created, or written if it is still there.
LEMMA TemplateWriteKeeps ==
  ASSUME RefsHold, NEW h \in Requests, TemplateCreate(h) \/ TemplateWrite(h)
  PROVE  RefsHold'
<1>1. ReqOK
  BY Parts
<1>2. CASE TemplateWrite(h)
  <2>1. req[h].id \in Templates /\ req[h].copy \in Rules
    BY <1>1, <1>2 DEF TemplateWrite, At, ReqOK, Held
  <2>2. {req[h].id} \in SUBSET (Templates \cup {None})
    BY <2>1
  <2>3. ReqOK'
    BY <1>1, <1>2, <2>2, AnswerHolds, CascadingHolds DEF TemplateWrite
  <2>4. QED
    BY <1>2, <2>1, <2>3, TemplatesKeep DEF TemplateWrite
<1>3. CASE TemplateCreate(h)
  <2>1. ReqOK'
    BY <1>1, <1>3, AnswerHolds DEF TemplateCreate
  <2>2. CASE UNCHANGED <<tmpls, born>>
    <3>1. UNCHANGED <<dbVars, job>> /\ faults' \in 0..MaxFaults
      BY <1>3, <2>2, Parts DEF TemplateCreate, dbVars, DbOK
    <3>2. QED
      BY <2>1, <3>1, ReadKeeps
  <2>3. CASE ~UNCHANGED <<tmpls, born>>
    BY <1>3, <2>1, <2>3, TemplatesKeep DEF TemplateCreate
  <2>4. QED
    BY <2>2, <2>3
<1>4. QED
  BY <1>2, <1>3

\* What ON DELETE SET NULL leaves of the rows.
LEMMA DetachedRows ==
  ASSUME RowsOK, NEW t \in Templates, NEW S \in SUBSET Ids, NEW i \in Ids
  PROVE  LET r == Detach(t, BulkDelete(S))[i] IN
         /\ r \in Row \cup {None}
         /\ r # None => /\ rows[i] # None /\ r.target = rows[i].target /\ r.name = rows[i].name
                        /\ r.tmpl \in {rows[i].tmpl, None} \ {t}
<1> DEFINE d == BulkDelete(S)
           r == Detach(t, d)[i]
<1>1. d[i] = IF i \in S THEN None ELSE rows[i]
  BY DEF BulkDelete
<1>2. r = IF d[i] # None /\ d[i].tmpl = t THEN [d[i] EXCEPT !.tmpl = None] ELSE d[i]
  BY DEF Detach
<1>3. d[i] \in Row \cup {None}
  BY <1>1 DEF RowsOK
<1> HIDE DEF d
<1>4. CASE d[i] # None /\ d[i].tmpl = t
  <2>1. r = [d[i] EXCEPT !.tmpl = None]
    BY <1>2, <1>4
  <2>2. r \in Row /\ r.target = d[i].target /\ r.name = d[i].name /\ r.tmpl = None
    BY <1>3, <1>4, <2>1 DEF Row
  <2> HIDE DEF r
  <2>3. QED
    BY <1>1, <1>4, <2>2, StoreAssumption DEF d, r
<1>5. CASE ~(d[i] # None /\ d[i].tmpl = t)
  BY <1>1, <1>2, <1>3, <1>5 DEF d
<1>6. QED
  BY <1>4, <1>5

\* A template goes with the schedules that were listed; the others that refer to it are detached.
LEMMA TemplateDeleteKeeps ==
  ASSUME RefsHold, NEW h \in Requests, TemplateDeleteWrite(h)
  PROVE  RefsHold'
<1>1. ReqOK /\ JobOK /\ DbOK /\ RowsOK /\ BlksOK
  BY Parts
<1>2. ReqOK'
  BY <1>1, AnswerHolds DEF TemplateDeleteWrite
<1>3. CASE UNCHANGED <<rows, tmpls>>
  <2>1. UNCHANGED <<dbVars, job>> /\ faults' \in 0..MaxFaults
    BY <1>1, <1>3 DEF TemplateDeleteWrite, dbVars, DbOK
  <2>2. QED
    BY <1>2, <2>1, ReadKeeps
<1>4. CASE ~UNCHANGED <<rows, tmpls>>
  <2> DEFINE t == req[h].id
  <2>1. t \notin System /\ rows' = Detach(t, BulkDelete(req[h].deps)) /\ tmpls' = RemoveTemplate(t)
    BY <1>4 DEF TemplateDeleteWrite
  <2>2. t \in Templates /\ req[h].deps \in SUBSET Ids
    BY <1>1 DEF TemplateDeleteWrite, At, ReqOK, Held, Request
  <2> HIDE DEF t
  <2>3. /\ tmpls' \in [Templates -> Rules \cup {None}]
        /\ \A u \in Templates \ {t} : tmpls'[u] = tmpls[u]
    BY <1>1, <2>1, <2>2 DEF DbOK, RemoveTemplate
  <2>4. rows' \in [Ids -> Row \cup {None}]
    <3>1. rows' = [i \in Ids |-> rows'[i]]
      BY <2>1 DEF Detach
    <3>2. \A i \in Ids : rows'[i] \in Row \cup {None}
      BY <1>1, <2>1, <2>2, DetachedRows
    <3>3. QED
      BY <3>1, <3>2
  <2>5. ASSUME NEW i \in Ids, rows'[i] # None
        PROVE  /\ rows[i] # None /\ rows'[i].target = rows[i].target /\ rows'[i].name = rows[i].name
               /\ rows'[i].target \in targets' /\ (rows'[i].tmpl # None => tmpls'[rows'[i].tmpl] # None)
    <3>1. /\ rows[i] # None /\ rows'[i].target = rows[i].target /\ rows'[i].name = rows[i].name
          /\ rows'[i].tmpl \in {rows[i].tmpl, None} \ {t}
      BY <1>1, <2>1, <2>2, <2>5, DetachedRows
    <3>2. rows[i] \in Row /\ rows[i].target \in targets /\ (rows[i].tmpl # None => tmpls[rows[i].tmpl] # None)
      BY <1>1, <3>1 DEF RowsOK, Exists, Admissible
    <3>3. targets' = targets
      BY DEF TemplateDeleteWrite
    <3>4. rows[i].tmpl \in Templates \cup {None}
      BY <3>2 DEF Row
    <3>5. QED
      BY <2>3, <3>1, <3>2, <3>3, <3>4
  <2>6. RowsOK'
    BY <1>1, <2>4, <2>5, KeptIsAdmissible DEF Kept
  <2>7. JobOK' /\ DbOK' /\ BlksOK'
    BY <1>1, <2>1, <2>3, StoreAssumption DEF TemplateDeleteWrite, JobOK, DbOK, BlksOK, ValidBlackout
  <2>8. QED
    BY <1>2, <2>6, <2>7, PartsAfter
<1>5. QED
  BY <1>3, <1>4

\* putScheduleDefaults writes the defaults alone.
LEMMA DefaultsKeep ==
  ASSUME RefsHold, NEW h \in Requests, DefaultsPut(h)
  PROVE  RefsHold'
<1>1. ReqOK /\ JobOK /\ DbOK /\ RowsOK /\ BlksOK
  BY Parts
<1>2. {t \in Templates : tmpls[t] # None} \in SUBSET (Templates \cup {None})
  OBVIOUS
<1>3. ReqOK'
  BY <1>1, <1>2, CascadingHolds DEF DefaultsPut
<1>4. JobOK' /\ DbOK' /\ RowsOK' /\ BlksOK'
  BY <1>1 DEF DefaultsPut, JobOK, DbOK, RowsOK, BlksOK, Exists, Admissible, ValidBlackout
<1>5. QED
  BY <1>3, <1>4, PartsAfter

\* What refers to a target goes with it.
LEMMA TargetDeleteKeeps ==
  ASSUME RefsHold, NEW h \in Requests, TargetDelete(h)
  PROVE  RefsHold'
<1>1. ReqOK /\ JobOK /\ DbOK /\ RowsOK /\ BlksOK
  BY Parts
<1>2. ReqOK'
  BY <1>1, AnswerHolds DEF TargetDelete
<1>3. PICK t \in targets :
        /\ targets' = targets \ {t}
        /\ rows' = [i \in Ids |-> IF Exists(i) /\ rows[i].target = t THEN None ELSE rows[i]]
        /\ blks' = [b \in Blackouts |-> IF blks[b] # None /\ blks[b].target = t THEN None ELSE blks[b]]
  BY DEF TargetDelete
<1>4. UNCHANGED <<tmpls, defaults, born, job, faults>>
  BY DEF TargetDelete
<1>5. RowsOK'
  <2>1. Kept
    BY <1>1, <1>3, <1>4 DEF Kept, RowsOK, Exists, Admissible
  <2>2. QED
    BY <1>1, <2>1, KeptIsAdmissible
<1>6. BlksOK'
  BY <1>1, <1>3 DEF BlksOK, ValidBlackout
<1>7. JobOK' /\ DbOK'
  BY <1>1, <1>3, <1>4 DEF JobOK, DbOK
<1>8. QED
  BY <1>2, <1>5, <1>6, <1>7, PartsAfter

\* A blackout is written only with a scope that its target says.
LEMMA BlackoutWriteKeeps ==
  ASSUME RefsHold, NEW h \in Requests, BlackoutCreate(h) \/ BlackoutWrite(h) \/ BlackoutDelete(h)
  PROVE  RefsHold'
<1>1. ReqOK /\ JobOK /\ DbOK /\ RowsOK /\ BlksOK
  BY Parts
<1>2. ReqOK'
  BY <1>1, AnswerHolds DEF BlackoutCreate, BlackoutWrite, BlackoutDelete
<1>3. UNCHANGED <<targets, tmpls, rows, defaults, job, faults>>
  BY DEF BlackoutCreate, BlackoutWrite, BlackoutDelete
<1>4. PICK k \in Blackouts :
        /\ born' = born \cup {k} \/ born' = born
        /\ \/ UNCHANGED blks
           \/ blks' = [blks EXCEPT ![k] = None]
           \/ \E b \in Blackout : ValidBlackout(b) /\ blks' = [blks EXCEPT ![k] = b]
  <2>1. CASE BlackoutCreate(h)
    BY <2>1 DEF BlackoutCreate, InsertBlackout
  <2>2. CASE BlackoutWrite(h)
    <3>1. req[h].id \in Blackouts /\ req[h].copy \in Blackout
      BY <1>1, <2>2 DEF BlackoutWrite, At, ReqOK, Held
    <3>2. QED
      BY <2>2, <3>1 DEF BlackoutWrite, PutBlackout
  <2>3. CASE BlackoutDelete(h)
    BY <2>3 DEF BlackoutDelete, RemoveBlackout
  <2>4. QED
    BY <2>1, <2>2, <2>3
<1>5. BlksOK'
  BY <1>1, <1>3, <1>4 DEF BlksOK, ValidBlackout
<1>6. JobOK' /\ DbOK' /\ RowsOK'
  BY <1>1, <1>3, <1>4 DEF JobOK, DbOK, RowsOK, Exists, Admissible
<1>7. QED
  BY <1>2, <1>5, <1>6, PartsAfter

-----------------------------------------------------------------------------
(* Runs *)

\* The steps of a run keep its copies well formed, and write a row that is still there, in one column.
LEMMA RunKeeps ==
  ASSUME RefsHold, NEW i \in Ids, ListDue(i) \/ Work(i) \/ RunFault(i)
  PROVE  RefsHold'
<1>1. ReqOK /\ JobOK /\ DbOK /\ RowsOK /\ BlksOK
  BY Parts
<1>h. job[i] \in RunOf /\ (job[i].at # "idle" => job[i].copy \in Row)
  BY <1>1 DEF JobOK
<1>2. JobOK'
  <2>1. ASSUME NEW q \in RunOf, q.at # "idle" => q.copy \in Row, job' = [job EXCEPT ![i] = q]
        PROVE  JobOK'
    BY <1>1, <2>1 DEF JobOK
  <2>2. ASSUME NEW at \in {"scanning", "recorded"}, job[i].at # "idle", job' = [job EXCEPT ![i].at = at]
        PROVE  JobOK'
    <3>1. [job[i] EXCEPT !.at = at] \in RunOf /\ [job[i] EXCEPT !.at = at].copy = job[i].copy
      BY <1>h DEF RunOf
    <3>2. QED
      BY <1>h, <2>1, <2>2, <3>1 DEF JobOK, RunOf
  <2>3. CASE ListDue(i)
    <3>1. rows[i] \in Row
      BY <1>1, <2>3 DEF ListDue, RowsOK, Exists
    <3>2. QED
      BY <2>1, <2>3, <3>1 DEF ListDue, RunOf
  <2>4. CASE LoadTemplate(i)
    <3> DEFINE q == [job[i] EXCEPT !.at = "scanning", !.tm = TemplateOf(job[i].copy)]
    <3>1. job[i].at # "idle" /\ TemplateOf(job[i].copy) \in Rules \cup {None}
      BY <1>1, <1>h, <2>4, TemplateIsRule DEF LoadTemplate
    <3>2. q \in RunOf /\ q.copy = job[i].copy
      BY <1>h, <3>1 DEF RunOf
    <3>3. job' = [job EXCEPT ![i] = q]
      BY <1>1, <1>h, <2>4 DEF LoadTemplate, JobOK, RunOf
    <3> HIDE DEF q
    <3>4. QED
      BY <1>h, <2>1, <3>1, <3>2, <3>3
  <2>5. CASE job' = [job EXCEPT ![i] = NoRun]
    BY <2>1, <2>5 DEF NoRun, RunOf
  <2>6. QED
    BY <2>2, <2>3, <2>4, <2>5 DEF Work, RecordRun, Advance, RunFault, Run
<1>3. RowsOK' /\ UNCHANGED <<targets, tmpls, blks, defaults, born, req>>
  <2>1. CASE UNCHANGED dbVars /\ UNCHANGED req
    BY <1>1, <2>1 DEF dbVars, RowsOK, Exists, Admissible
  <2>2. CASE RecordRun(i)
    <3>1. Touched
      BY <1>1, <2>2 DEF RecordRun, Touched, RowsOK, Exists, Row
    <3>2. QED
      BY <1>1, <2>2, <3>1, TouchedIsKept DEF RecordRun
  <2>3. CASE Advance(i)
    <3>1. NextOf(job[i].copy, job[i].tm) \in Rules
      BY <1>h, <2>3, NextIsRule DEF Advance, RunOf
    <3>2. QED
      BY <1>1, <2>3, <3>1, SetNextTouches DEF Advance
  <2>4. QED
    BY <2>1, <2>2, <2>3 DEF ListDue, Work, LoadTemplate, RunFault
<1>4. faults' \in 0..MaxFaults
  BY <1>1, StoreAssumption DEF DbOK, ListDue, Work, LoadTemplate, RecordRun, Advance, RunFault
<1>5. ReqOK' /\ DbOK' /\ BlksOK'
  BY <1>1, <1>3, <1>4 DEF ReqOK, DbOK, BlksOK, Held, ValidBlackout
<1>6. QED
  BY <1>2, <1>3, <1>5, PartsAfter

-----------------------------------------------------------------------------
(* The theorems *)

\* What the database holds at first satisfies its constraints, and nobody holds a copy.
LEMMA RefsInit == StoreInit => RefsHold
<1> SUFFICES ASSUME StoreInit PROVE RefsHold
  OBVIOUS
<1> USE StoreAssumption, InitAssumption DEF StoreInit
<1>1. ReqOK
  BY IdleIsHeld DEF ReqOK
<1>2. JobOK
  BY DEF JobOK, NoRun, RunOf
<1>3. DbOK
  <2>1. born \subseteq Ids \cup Templates \cup Blackouts
    OBVIOUS
  <2>2. QED
    BY <2>1 DEF DbOK
<1>4. RowsOK
  <2>1. ASSUME NEW i \in Ids, Exists(i)
        PROVE  Admissible(i, rows[i])
    <3>1. rows[i] \in Row /\ rows[i].target \in targets
      BY <2>1 DEF Exists, Row
    <3>2. QED
      BY <2>1, <3>1 DEF Exists, Admissible
  <2>2. QED
    BY <2>1 DEF RowsOK
<1>5. BlksOK
  <2>1. \A b \in Blackouts : blks[b] # None => blks[b].target \in Targets \cup {None}
    BY DEF Blackout
  <2>2. QED
    BY <2>1 DEF BlksOK, ValidBlackout
<1>6. QED
  BY <1>1, <1>2, <1>3, <1>4, <1>5, Parts

\* Every step of a request keeps what RefsHold says.
LEMMA RequestKeeps ==
  ASSUME RefsHold, NEW h \in Requests, Begin(h) \/ Continue(h) \/ ReqFault(h)
  PROVE  RefsHold'
<1>1. ReqOK /\ JobOK /\ DbOK /\ RowsOK /\ BlksOK
  BY Parts
<1>2. CASE \/ CreateCheck(h) \/ PutRead(h) \/ ToggleRead(h) \/ DeleteRead(h) \/ TemplateRead(h)
           \/ TemplateDeleteList(h) \/ BlackoutRead(h) \/ PutCheck(h)
  <2>1. ReqOK'
    BY <1>1, <1>2, CreateReadHolds, RowReadHolds, TemplateReadHolds, BlackoutReadHolds, PutCheckHolds
  <2>2. UNCHANGED <<dbVars, job, faults>>
    BY <1>2 DEF CreateCheck, PutRead, ToggleRead, DeleteRead, TemplateRead, TemplateDeleteList, BlackoutRead, PutCheck
  <2>3. QED
    BY <1>1, <2>1, <2>2, ReadKeeps DEF DbOK
<1>3. CASE CascadeRead(h) \/ CascadeList(h) \/ CascadeNext(h) \/ CascadeDone(h)
  <2>1. ReqOK'
    BY <1>1, <1>3, CascadeHolds
  <2>2. UNCHANGED <<dbVars, job, faults>>
    BY <1>3 DEF CascadeRead, CascadeList, CascadeNext, CascadeDone
  <2>3. QED
    BY <1>1, <2>1, <2>2, ReadKeeps DEF DbOK
<1>4. CASE ReqFault(h)
  <2>1. ReqOK'
    BY <1>1, <1>4, FaultHolds
  <2>2. UNCHANGED <<dbVars, job>> /\ faults' \in 0..MaxFaults
    BY <1>1, <1>4, StoreAssumption DEF ReqFault, DbOK
  <2>3. QED
    BY <2>1, <2>2, ReadKeeps
<1>5. CASE Bulk(h) \/ BulkClone(h) \/ DefaultsPut(h) \/ TargetDelete(h)
  BY <1>5, BulkKeeps, BulkCloneKeeps, DefaultsKeep, TargetDeleteKeeps
<1>6. CASE \/ TemplateCreate(h) \/ TemplateWrite(h) \/ TemplateDeleteWrite(h)
           \/ BlackoutCreate(h) \/ BlackoutWrite(h) \/ BlackoutDelete(h)
  BY <1>6, TemplateWriteKeeps, TemplateDeleteKeeps, BlackoutWriteKeeps
<1>7. CASE CreateWrite(h) \/ PutWrite(h) \/ ToggleWrite(h) \/ DeleteWrite(h) \/ Refresh(h) \/ CascadeRow(h)
  BY <1>7, CreateWriteKeeps, RowWriteKeeps, DeleteWriteKeeps, RefreshKeeps
<1>8. QED
  BY <1>2, <1>3, <1>4, <1>5, <1>6, <1>7 DEF Begin, Continue

\* For any schedules, templates, blackouts and requests, however many statements fail: whatever races, no
\* schedule refers to a template or target that is gone, no two of a target share their name, blackouts
\* have the scope that their target says and built-in templates stay.
THEOREM ReferencesHold == StoreSpec => []RefsHold
<1>1. RefsHold /\ [StoreNext]_storeVars => RefsHold'
  <2> SUFFICES ASSUME RefsHold, [StoreNext]_storeVars PROVE RefsHold'
    OBVIOUS
  <2>1. CASE UNCHANGED storeVars
    <3>1. ReqOK /\ DbOK
      BY Parts
    <3>2. ReqOK' /\ UNCHANGED <<dbVars, job>> /\ faults' \in 0..MaxFaults
      BY <2>1, <3>1 DEF storeVars, ReqOK, DbOK, Held
    <3>3. QED
      BY <3>2, ReadKeeps
  <2>2. QED
    BY <2>1, RequestKeeps, RunKeeps DEF StoreNext
<1>2. QED
  BY <1>1, RefsInit, PTL DEF StoreSpec

\* No statement of a request brings back an id that was given out, and one that leaves the request where
\* it was changes no more than next_run_at.
LEMMA RequestWrites ==
  ASSUME RefsHold, NEW h \in Requests, Begin(h) \/ Continue(h) \/ ReqFault(h), NEW i \in Ids
  PROVE  /\ i \in born /\ rows[i] = None => rows'[i] = None
         /\ req' = req => Edited(rows'[i]) = Edited(rows[i])
<1>1. ReqOK /\ DbOK /\ RowsOK
  BY Parts
<1>2. CASE rows' = rows
  BY <1>2
<1>3. CASE CreateWrite(h) \/ PutWrite(h) \/ ToggleWrite(h)
  <2>1. req[h].at = "write"
    BY <1>3 DEF CreateWrite, PutWrite, ToggleWrite, At
  <2>2. \/ Answer(h) \/ Refreshing(h, {req[h].copy.tmpl})
    BY <1>3 DEF CreateWrite, PutWrite, ToggleWrite
  <2>3. req'[h].at # "write"
    <3>1. CASE Answer(h)
      BY <1>1, <3>1, AnswerHolds
    <3>2. CASE Refreshing(h, {req[h].copy.tmpl})
      BY <1>1, <3>2 DEF Refreshing, ReqOK, Request
    <3>3. QED
      BY <2>2, <3>1, <3>2
  <2>4. i \in born /\ rows[i] = None => rows'[i] = None
    BY <1>1, <1>3 DEF CreateWrite, PutWrite, ToggleWrite, InsertRow, Saved, CanSave, Exists, RowsOK
  <2>5. QED
    BY <2>1, <2>3, <2>4
<1>4. CASE DeleteWrite(h)
  <2>1. {req[h].copy.tmpl} \in SUBSET (Templates \cup {None})
    BY <1>1, <1>4 DEF DeleteWrite, At, ReqOK, Held, Row
  <2>2. req[h].at = "write" /\ req'[h].at # "write"
    BY <1>1, <1>4, <2>1, AnswerHolds, CascadingHolds DEF DeleteWrite, At
  <2>3. rows[i] = None => rows'[i] = None
    BY <1>1, <1>4 DEF DeleteWrite, RemoveRow, RowsOK
  <2>4. QED
    BY <2>2, <2>3
<1>5. CASE Refresh(h) \/ CascadeRow(h)
  <2>1. PICK j \in Ids, c \in Rules \cup {None} : rows' = SetNext(j, c) \/ rows' = rows
    BY <1>1, <1>5, NextIsRule DEF Refresh, CascadeRow, ReqOK, Held, Request
  <2>2. CASE rows' # rows /\ i = j /\ rows[i] # None
    <3>1. rows[i] \in Row /\ rows'[i] = [rows[i] EXCEPT !.next = c]
      BY <1>1, <2>1, <2>2 DEF SetNext, RowsOK, Exists
    <3>2. rows'[i] \in Row
      BY <3>1 DEF Row
    <3>3. [rows'[i] EXCEPT !.next = None, !.ran = FALSE] = [rows[i] EXCEPT !.next = None, !.ran = FALSE]
      BY <3>1 DEF Row
    <3>4. QED
      BY <3>2, <3>3, <2>2, InitAssumption DEF Edited
  <2>3. CASE ~(rows' # rows /\ i = j /\ rows[i] # None)
    BY <1>1, <2>1, <2>3 DEF SetNext, RowsOK, Exists
  <2>4. QED
    BY <2>2, <2>3
<1>6. CASE Bulk(h) \/ BulkClone(h) \/ TargetDelete(h)
  <2>1. req[h].at = "idle"
    BY <1>6 DEF Bulk, BulkClone, TargetDelete
  <2>2. \A S \in SUBSET {k \in Ids : Exists(k)} : {rows[k].tmpl : k \in S} \in SUBSET (Templates \cup {None})
    BY <1>1 DEF RowsOK, Exists, Row
  <2>3. req'[h].at # "idle"
    <3>1. CASE Answer(h)
      BY <1>1, <3>1, AnswerHolds
    <3>2. CASE \E S \in SUBSET {k \in Ids : Exists(k)} : Cascading(h, {rows[k].tmpl : k \in S})
      BY <1>1, <2>2, <3>2, CascadingHolds
    <3>3. QED
      BY <1>6, <3>1, <3>2 DEF Bulk, BulkClone, TargetDelete
  <2>4. i \in born /\ rows[i] = None => rows'[i] = None
    <3>1. CASE Bulk(h)
      BY <3>1 DEF Bulk, BulkToggle, BulkDelete, Exists
    <3>2. CASE BulkClone(h)
      <4>1. ASSUME NEW S \in SUBSET {k \in Ids : Exists(k)} \ {{}}, NEW n, NEW c, NEW new \in [S -> Ids \ born],
                   rows' = Cloned(S, new, n, c), i \in born
            PROVE  rows'[i] = rows[i]
        BY <4>1 DEF Cloned
      <4>2. QED
        BY <3>2, <4>1 DEF BulkClone
    <3>3. CASE TargetDelete(h)
      BY <3>3 DEF TargetDelete
    <3>4. QED
      BY <1>6, <3>1, <3>2, <3>3
  <2>5. QED
    BY <2>1, <2>3, <2>4
<1>7. CASE TemplateDeleteWrite(h)
  <2>1. req[h].at = "write" /\ req'[h].at = "done"
    BY <1>1, <1>7, AnswerHolds DEF TemplateDeleteWrite, At
  <2>2. req[h].id \in Templates /\ req[h].deps \in SUBSET Ids
    BY <1>1, <1>7 DEF TemplateDeleteWrite, At, ReqOK, Held, Request
  <2>3. rows[i] = None => rows'[i] = None
    BY <1>1, <1>7, <2>2, DetachedRows DEF TemplateDeleteWrite
  <2>4. QED
    BY <2>1, <2>3
<1>8. \/ rows' = rows \/ CreateWrite(h) \/ PutWrite(h) \/ ToggleWrite(h) \/ DeleteWrite(h) \/ Refresh(h)
      \/ CascadeRow(h) \/ Bulk(h) \/ BulkClone(h) \/ TargetDelete(h) \/ TemplateDeleteWrite(h)
  <2>1. CASE ReqFault(h)
    BY <2>1 DEF ReqFault, dbVars
  <2>2. CASE \/ CreateCheck(h) \/ PutRead(h) \/ ToggleRead(h) \/ DeleteRead(h) \/ TemplateRead(h)
             \/ TemplateDeleteList(h) \/ BlackoutRead(h) \/ PutCheck(h)
    BY <2>2 DEF dbVars, CreateCheck, PutRead, ToggleRead, DeleteRead, TemplateRead, TemplateDeleteList, BlackoutRead, PutCheck
  <2>3. CASE \/ CascadeRead(h) \/ CascadeList(h) \/ CascadeNext(h) \/ CascadeDone(h) \/ TemplateCreate(h)
             \/ DefaultsPut(h) \/ BlackoutCreate(h) \/ BlackoutDelete(h) \/ TemplateWrite(h) \/ BlackoutWrite(h)
    BY <2>3 DEF dbVars, CascadeRead, CascadeList, CascadeNext, CascadeDone, TemplateCreate, DefaultsPut,
                BlackoutCreate, BlackoutDelete, TemplateWrite, BlackoutWrite
  <2>4. QED
    BY <2>1, <2>2, <2>3 DEF Begin, Continue
<1>9. QED
  BY <1>2, <1>3, <1>4, <1>5, <1>6, <1>7, <1>8

\* A run writes the outcome and next_run_at of a row that is still there, and nothing else.
LEMMA RunWrites ==
  ASSUME RefsHold, NEW j \in Ids, ListDue(j) \/ Work(j) \/ RunFault(j), NEW i \in Ids
  PROVE  /\ rows[i] = None => rows'[i] = None
         /\ Edited(rows'[i]) = Edited(rows[i])
<1>1. RowsOK /\ JobOK
  BY Parts
<1>2. \/ rows' = rows
      \/ Exists(j) /\ rows' = [rows EXCEPT ![j].ran = TRUE]
      \/ \E c \in Rules : Exists(j) /\ rows' = [rows EXCEPT ![j].next = c]
  BY <1>1, NextIsRule DEF JobOK, RunOf, ListDue, Work, LoadTemplate, RecordRun, Advance, RunFault, SetNext, dbVars
<1>3. CASE rows[i] # None /\ i = j /\ rows' = [rows EXCEPT ![j].ran = TRUE]
  <2>1. rows[i] \in Row /\ rows'[i] = [rows[i] EXCEPT !.ran = TRUE]
    BY <1>1, <1>3 DEF RowsOK, Exists
  <2>2. rows'[i] \in Row
    BY <2>1 DEF Row
  <2>3. [rows'[i] EXCEPT !.next = None, !.ran = FALSE] = [rows[i] EXCEPT !.next = None, !.ran = FALSE]
    BY <2>1 DEF Row
  <2>4. QED
    BY <1>3, <2>2, <2>3, InitAssumption DEF Edited
<1>4. ASSUME NEW c \in Rules, rows[i] # None, i = j, rows' = [rows EXCEPT ![j].next = c]
      PROVE  Edited(rows'[i]) = Edited(rows[i])
  <2>1. rows[i] \in Row /\ rows'[i] = [rows[i] EXCEPT !.next = c]
    BY <1>1, <1>4 DEF RowsOK, Exists
  <2>2. [rows'[i] EXCEPT !.next = None, !.ran = FALSE] = [rows[i] EXCEPT !.next = None, !.ran = FALSE]
    BY <2>1 DEF Row
  <2>3. rows'[i] \in Row
    BY <2>1 DEF Row
  <2>4. QED
    BY <1>4, <2>2, <2>3, InitAssumption DEF Edited
<1>5. CASE rows[i] = None \/ i # j
  BY <1>1, <1>2, <1>5 DEF RowsOK, Exists
<1>6. QED
  BY <1>2, <1>3, <1>4, <1>5

\* For any races and failures, a schedule that was deleted does not come back.
THEOREM DeletedStayDeleted == StoreSpec => DeletedStays
<1>1. RefsHold /\ [StoreNext]_storeVars => [\A i \in Ids \cap born : rows[i] = None => rows'[i] = None]_storeVars
  <2> SUFFICES ASSUME RefsHold, StoreNext, NEW i \in Ids \cap born, rows[i] = None
               PROVE  rows'[i] = None
    OBVIOUS
  <2>1. QED
    BY RequestWrites, RunWrites DEF StoreNext
<1>2. QED
  BY <1>1, ReferencesHold, PTL DEF StoreSpec, DeletedStays

\* For any races and failures, only a step of a request changes what an operator edits of a schedule.
THEOREM RunsKeepWhatIsEdited == StoreSpec => RunsKeepEdits
<1>1. RefsHold /\ [StoreNext]_storeVars
      => [req' = req => \A i \in Ids : Edited(rows'[i]) = Edited(rows[i])]_storeVars
  <2> SUFFICES ASSUME RefsHold, StoreNext, req' = req, NEW i \in Ids
               PROVE  Edited(rows'[i]) = Edited(rows[i])
    OBVIOUS
  <2>1. QED
    BY RequestWrites, RunWrites DEF StoreNext
<1>2. QED
  BY <1>1, ReferencesHold, PTL DEF StoreSpec, RunsKeepEdits

=============================================================================
