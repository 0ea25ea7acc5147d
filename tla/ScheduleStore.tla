---------------------------- MODULE ScheduleStore ----------------------------
(***************************************************************************)
(* Schedules, templates, blackouts and defaults in the database: the HTTP  *)
(* handlers that edit them (api/v1) and the scheduler's runs that advance  *)
(* next_run_at, as statements that interleave (storage/schedules.go,       *)
(* templates.go, blackouts.go).  A cadence (rrule, dtstart and timezone)   *)
(* is a member of Rules; next_run_at is abstracted to the cadence that it  *)
(* was computed from.                                                      *)
(***************************************************************************)
EXTENDS Naturals, FiniteSets

CONSTANTS Targets, Ids, Names, Templates, System, Blackouts, Rules,
          Clashes,     \* pairs of rules with occurrences closer than the estimated duration
          BootRule,    \* the default rule when the process read its copy of the defaults
          Requests, Kinds,
          InitRows, InitTemplates, InitBlackouts,
          NewRows,     \* the rows that create requests ask for
          MaxFaults,   \* bound on the statements that fail
          None

ASSUME StoreAssumption ==
  /\ System \subseteq Templates
  /\ Clashes \subseteq Rules \X Rules
  /\ BootRule \in Rules \cup {None}
  /\ MaxFaults \in Nat
  /\ \A r \in NewRows : r.own = "rule" /\ r.next = None /\ ~r.ran
  /\ None \notin Targets \cup Ids \cup Templates \cup Rules \cup Blackouts

VARIABLES targets, tmpls, rows, blks, defaults,
          born,     \* ids ever given out: uuids are not given out twice
          req,      \* the requests, each with the handler's local copies
          job,      \* the scheduler's run of each schedule, with the worker's copies
          faults

dbVars == <<targets, tmpls, rows, blks, defaults, born>>
storeVars == <<dbVars, req, job, faults>>

Owns == {"rule", "zone", "none"}   \* what overrides lists of the cadence: rrule, timezone alone, nothing
Row == [target : Targets, name : Names, rule : Rules, own : Owns, tmpl : Templates \cup {None},
        enabled : BOOLEAN, next : Rules \cup {None}, ran : BOOLEAN]
Blackout == [scope : {"global", "target"}, target : Targets \cup {None}, enabled : BOOLEAN]
Handlers == {"create", "put", "toggle", "delete", "template", "untemplate", "blackout"}
Request == [at : {"idle", "check", "write", "refresh", "cascade", "list", "each", "done"},
            kind : Handlers \cup {None},
            id : Ids \cup Templates \cup Blackouts \cup {None},
            copy : Row \cup Rules \cup Blackout \cup {None}, tm : Rules \cup {None},
            todo : SUBSET Templates, deps : SUBSET Ids]
RunOf == [at : {"idle", "listed", "scanning", "recorded"}, copy : Row \cup {None}, tm : Rules \cup {None}]

\* What the database holds at first satisfies its own constraints.
ASSUME InitAssumption ==
  /\ InitRows \in [Ids -> Row \cup {None}]
  /\ InitTemplates \in [Templates -> Rules \cup {None}]
  /\ InitBlackouts \in [Blackouts -> Blackout \cup {None}]
  /\ \A i \in Ids : InitRows[i] # None =>
       /\ InitRows[i].tmpl # None => InitTemplates[InitRows[i].tmpl] # None
       /\ \A j \in Ids \ {i} : InitRows[j] # None =>
            <<InitRows[j].target, InitRows[j].name>> # <<InitRows[i].target, InitRows[i].name>>
  /\ \A b \in Blackouts : InitBlackouts[b] # None =>
       (InitBlackouts[b].scope = "target") = (InitBlackouts[b].target # None)
  /\ NewRows \subseteq Row
  /\ None \notin Row \cup Blackout \cup Handlers

\* What a handler has after its first statements: the row it is about and its copy of it.
Copies(at, kind, id, copy) ==
  [at |-> at, kind |-> kind, id |-> id, copy |-> copy, tm |-> None, todo |-> {}, deps |-> {}]
IdleReq == Copies("idle", None, None, None)
NoRun == [at |-> "idle", copy |-> None, tm |-> None]

\* What a handler holds between its statements is what its next one needs.
Held(q) ==
  /\ q.kind \in {"create", "put", "toggle", "delete"} => q.id \in Ids /\ q.copy \in Row
  /\ q.kind = "template" => q.id \in Templates /\ q.copy \in Rules
  /\ q.kind = "untemplate" => q.id \in Templates
  /\ q.kind = "blackout" => q.id \in Blackouts /\ q.copy \in Blackout
  /\ q.at \in {"idle", "cascade", "list", "each", "done"} => q.kind = None
  /\ q.at = "refresh" => q.kind \in {"create", "put"}
  /\ q.at = "list" => q.id \in Templates
  /\ q.at \in {"list", "each"} => q.tm \in Rules

StoreTypeOK ==
  /\ targets \subseteq Targets
  /\ tmpls \in [Templates -> Rules \cup {None}]
  /\ rows \in [Ids -> Row \cup {None}]
  /\ blks \in [Blackouts -> Blackout \cup {None}]
  /\ defaults \in Rules \cup {None}
  /\ born \subseteq Ids \cup Templates \cup Blackouts
  /\ faults \in 0..MaxFaults
  /\ req \in [Requests -> Request]
  /\ \A h \in Requests : Held(req[h])
  /\ job \in [Ids -> RunOf]
  /\ \A i \in Ids : job[i].at # "idle" => job[i].copy \in Row

StoreInit ==
  /\ targets = Targets
  /\ tmpls = InitTemplates
  /\ rows = InitRows
  /\ blks = InitBlackouts
  /\ defaults = BootRule
  /\ born = {x \in Ids : rows[x] # None} \cup {x \in Templates : tmpls[x] # None}
            \cup {x \in Blackouts : blks[x] # None}
  /\ req = [h \in Requests |-> IdleReq]
  /\ job = [i \in Ids |-> NoRun]
  /\ faults = MaxFaults

-----------------------------------------------------------------------------
(* The cascade schedule -> template -> defaults, and the overlap check *)

Exists(i) == rows[i] # None
TemplateOf(r) == IF r.tmpl = None THEN None ELSE tmpls[r.tmpl]

\* pickString: the schedule's value counts if it is listed as an override, and as the last resort.
Effective(r, tm, def) ==
  CASE r.own = "rule" -> r.rule
    [] r.own # "rule" /\ tm # None -> tm
    [] r.own # "rule" /\ tm = None -> IF def # None THEN def ELSE r.rule

\* ComputeNextRunAt resolves with the expander's own copy of the defaults.
NextOf(r, tm) == Effective(r, tm, BootRule)

\* ValidateNoOverlap against the other schedules of the target, paused ones included.
Overlaps(i, r, tm) ==
  \E j \in Ids \ {i} :
    /\ Exists(j) /\ rows[j].target = r.target
    /\ <<Effective(r, tm, defaults), Effective(rows[j], TemplateOf(rows[j]), defaults)>> \in Clashes

\* What the tables' constraints demand of a row: foreign keys and UNIQUE(target_id, name).
Admissible(i, r) ==
  /\ r.target \in targets
  /\ r.tmpl # None => tmpls[r.tmpl] # None
  /\ \A j \in Ids \ {i} : Exists(j) => <<rows[j].target, rows[j].name>> # <<r.target, r.name>>

\* validateBlackoutInput and the CHECK of the table; the target must exist.
ValidBlackout(b) ==
  /\ (b.scope = "target") = (b.target # None)
  /\ b.target # None => b.target \in targets

\* The stores' statements: what each leaves in its table.
InsertRow(i, r) == [rows EXCEPT ![i] = r]
RemoveRow(i) == [rows EXCEPT ![i] = None]
PutTemplate(t, c) == [tmpls EXCEPT ![t] = c]
RemoveTemplate(t) == [tmpls EXCEPT ![t] = None]
InsertBlackout(k, b) == [blks EXCEPT ![k] = b]
PutBlackout(k, b) == IF blks[k] # None /\ ValidBlackout(b) THEN [blks EXCEPT ![k] = b] ELSE blks
RemoveBlackout(k) == [blks EXCEPT ![k] = None]
SetNext(i, rule) == IF Exists(i) THEN [rows EXCEPT ![i].next = rule] ELSE rows
OnTemplate(t) == {i \in Ids : Exists(i) /\ rows[i].tmpl = t}

-----------------------------------------------------------------------------
(* A request: the statements of its handler, one step each *)

At(h, at, kind) == req[h].at = at /\ req[h].kind = kind
Answer(h) == req' = [req EXCEPT ![h] = [IdleReq EXCEPT !.at = "done"]]
UnchangedButRows == UNCHANGED <<targets, tmpls, blks, defaults, job, faults>>

\* After its write a handler recomputes next_run_at of its schedule and of those on its templates.
Refreshing(h, todo) == req' = [req EXCEPT ![h].at = "refresh", ![h].todo = todo \ {None}]
Cascading(h, todo) == req' = [req EXCEPT ![h] = [IdleReq EXCEPT !.at = "cascade", !.todo = todo \ {None}]]

\* createSchedule (mergeOverrides: rule and zone are always given) reads target, template and the others ...
CreateCheck(h) ==
  /\ req[h].at = "idle" /\ "create" \in Kinds[h]
  /\ \E i \in Ids \ born, r \in NewRows :
       IF \/ r.target \notin targets \/ (r.tmpl # None /\ TemplateOf(r) = None)
          \/ Overlaps(i, r, TemplateOf(r))
       THEN Answer(h)
       ELSE req' = [req EXCEPT ![h] = [Copies("write", "create", i, r) EXCEPT !.tm = TemplateOf(r)]]
  /\ UNCHANGED <<dbVars, job, faults>>

\* ... and inserts the row, whatever has happened since.
CreateWrite(h) ==
  /\ At(h, "write", "create")
  /\ LET i == req[h].id  r == req[h].copy IN
     IF i \notin born /\ Admissible(i, r)
     THEN /\ rows' = InsertRow(i, r)
          /\ born' = born \cup {i}
          /\ Refreshing(h, {r.tmpl})
     ELSE Answer(h) /\ UNCHANGED <<rows, born>>
  /\ UnchangedButRows

\* updateSchedule reads the row and applies the fields of the body to its copy.
PutFields(r) ==
       {[r EXCEPT !.rule = c] : c \in Rules} \cup {[r EXCEPT !.tmpl = tm] : tm \in (born \cap Templates) \cup {None}}
  \cup {[r EXCEPT !.own = o] : o \in Owns} \cup {[r EXCEPT !.enabled = e] : e \in BOOLEAN}
  \cup {[r EXCEPT !.name = n] : n \in Names}

PutRead(h) ==
  /\ req[h].at = "idle" /\ "put" \in Kinds[h]
  /\ \E i \in born \cap Ids :
       IF Exists(i)
       THEN \E r \in PutFields(rows[i]) :
              req' = [req EXCEPT ![h] = Copies("check", "put", i, r)]
       ELSE Answer(h)
  /\ UNCHANGED <<dbVars, job, faults>>

PutCheck(h) ==
  /\ At(h, "check", "put")
  /\ LET i == req[h].id  r == req[h].copy IN
     IF (r.tmpl # None /\ tmpls[r.tmpl] = None) \/ Overlaps(i, r, TemplateOf(r))
     THEN Answer(h)
     ELSE req' = [req EXCEPT ![h].at = "write", ![h].tm = TemplateOf(r)]
  /\ UNCHANGED <<dbVars, job, faults>>

\* (Mutant: the row is inserted if it is not there.)
CanSaveUpsert(i, r) == Admissible(i, r)

\* (*sqliteScheduleStore).Update writes every column of the copy to a row that is still there.
CanSave(i, r) == Exists(i) /\ Admissible(i, r)
Saved(h) == LET i == req[h].id  r == req[h].copy IN IF CanSave(i, r) THEN [rows EXCEPT ![i] = r] ELSE rows

PutWrite(h) ==
  /\ At(h, "write", "put")
  /\ rows' = Saved(h)
  /\ IF CanSave(req[h].id, req[h].copy) THEN Refreshing(h, {req[h].copy.tmpl}) ELSE Answer(h)
  /\ UNCHANGED born /\ UnchangedButRows

\* setScheduleEnabled reads and, if the flag differs, writes the whole row; it computes no next_run_at.
ToggleRead(h) ==
  /\ req[h].at = "idle" /\ "toggle" \in Kinds[h]
  /\ \E i \in born \cap Ids :
       IF Exists(i)
       THEN req' = [req EXCEPT ![h] = Copies("write", "toggle", i, [rows[i] EXCEPT !.enabled = ~@])]
       ELSE Answer(h)
  /\ UNCHANGED <<dbVars, job, faults>>

ToggleWrite(h) ==
  /\ At(h, "write", "toggle")
  /\ rows' = Saved(h)
  /\ Answer(h)
  /\ UNCHANGED born /\ UnchangedButRows

\* deleteSchedule reads the row for its template, deletes, and refreshes the template's others.
DeleteRead(h) ==
  /\ req[h].at = "idle" /\ "delete" \in Kinds[h]
  /\ \E i \in born \cap Ids :
       IF Exists(i)
       THEN req' = [req EXCEPT ![h] = Copies("write", "delete", i, rows[i])]
       ELSE Answer(h)
  /\ UNCHANGED <<dbVars, job, faults>>

DeleteWrite(h) ==
  /\ At(h, "write", "delete")
  /\ rows' = RemoveRow(req[h].id)
  /\ IF Exists(req[h].id) THEN Cascading(h, {req[h].copy.tmpl}) ELSE Answer(h)
  /\ UNCHANGED born /\ UnchangedButRows

\* refreshNextRun: only of an enabled schedule, from the copies of the request.
Refresh(h) ==
  /\ req[h].at = "refresh"
  /\ rows' = IF req[h].copy.enabled THEN SetNext(req[h].id, NextOf(req[h].copy, req[h].tm)) ELSE rows
  /\ Cascading(h, req[h].todo)
  /\ UNCHANGED born /\ UnchangedButRows

-----------------------------------------------------------------------------
(* RecomputeNextRunForTemplate, for each template in todo *)

\* The template is read, then its schedules; those with a cadence of their own are skipped.
Listing(q, t) == [q EXCEPT !.at = "list", !.todo = @ \ {t}, !.id = t, !.tm = tmpls[t]]

CascadeRead(h) ==
  /\ req[h].at = "cascade"
  /\ \E t \in req[h].todo :
       IF tmpls[t] = None THEN req' = [req EXCEPT ![h].todo = @ \ {t}]
       ELSE req' = [req EXCEPT ![h] = Listing(@, t)]
  /\ UNCHANGED <<dbVars, job, faults>>

CascadeList(h) ==
  /\ req[h].at = "list"
  /\ req' = [req EXCEPT ![h].at = "each", ![h].deps = {i \in OnTemplate(req[h].id) : rows[i].own = "none"}]
  /\ UNCHANGED <<dbVars, job, faults>>

CascadeRow(h) ==
  /\ req[h].at = "each"
  /\ \E i \in req[h].deps :
       /\ rows' = SetNext(i, req[h].tm)
       /\ req' = [req EXCEPT ![h].deps = @ \ {i}]
  /\ UNCHANGED born /\ UnchangedButRows

CascadeNext(h) ==
  /\ req[h].at = "each" /\ req[h].deps = {}
  /\ Cascading(h, req[h].todo)
  /\ UNCHANGED <<dbVars, job, faults>>

CascadeDone(h) ==
  /\ req[h].at = "cascade" /\ req[h].todo = {}
  /\ Answer(h)
  /\ UNCHANGED <<dbVars, job, faults>>

-----------------------------------------------------------------------------
(* Bulk requests: one transaction over the rows that exist, then the cascades *)

BulkToggle(S, en) == [i \in Ids |-> IF i \in S THEN [rows[i] EXCEPT !.enabled = en] ELSE rows[i]]
BulkDelete(S) == [i \in Ids |-> IF i \in S THEN None ELSE rows[i]]

\* A clone is enabled, keeps no next_run_at, and is not checked for overlaps.
CloneOf(r, n, c) == [target |-> r.target, name |-> n, rule |-> c, own |-> "rule", tmpl |-> r.tmpl,
                     enabled |-> TRUE, next |-> None, ran |-> FALSE]

Bulk(h) ==
  /\ req[h].at = "idle" /\ "bulk" \in Kinds[h]
  /\ \E S \in SUBSET {i \in Ids : Exists(i)} \ {{}} :
       /\ \/ \E en \in BOOLEAN : rows' = BulkToggle(S, en) /\ UNCHANGED born
          \/ rows' = BulkDelete(S) /\ UNCHANGED born
       /\ Cascading(h, {rows[i].tmpl : i \in S})
  /\ UnchangedButRows

\* A name that is taken, or given twice to one target, rolls everything back.
CanClone(S, n) ==
  /\ \A i, j \in S : rows[i].target = rows[j].target => i = j
  /\ \A j \in Ids : Exists(j) /\ rows[j].name = n => \A i \in S : rows[i].target # rows[j].target
Cloned(S, new, n, c) == [k \in Ids |-> IF \E i \in S : new[i] = k
                                       THEN CloneOf(rows[CHOOSE i \in S : new[i] = k], n, c) ELSE rows[k]]

BulkClone(h) ==
  /\ req[h].at = "idle" /\ "bulk" \in Kinds[h]
  /\ \E S \in SUBSET {i \in Ids : Exists(i)} \ {{}}, n \in Names, c \in Rules :
       IF CanClone(S, n)
       THEN \E new \in [S -> Ids \ born] :
              /\ \A i, j \in S : new[i] = new[j] => i = j
              /\ rows' = Cloned(S, new, n, c)
              /\ born' = born \cup {new[i] : i \in S}
              /\ Cascading(h, {rows[i].tmpl : i \in S})
       ELSE Answer(h) /\ UNCHANGED <<rows, born>>
  /\ UnchangedButRows

-----------------------------------------------------------------------------
(* Templates, defaults, targets *)

TemplateCreate(h) ==
  /\ req[h].at = "idle" /\ "template" \in Kinds[h]
  /\ \/ \E t \in Templates \ born, c \in Rules :
          tmpls' = PutTemplate(t, c) /\ born' = born \cup {t}
     \/ UNCHANGED <<tmpls, born>>   \* its name is taken
  /\ Answer(h)
  /\ UNCHANGED <<targets, rows, blks, defaults, job, faults>>

TemplateRead(h) ==
  /\ req[h].at = "idle" /\ "template" \in Kinds[h]
  /\ \E t \in born \cap Templates, c \in Rules :
       IF tmpls[t] = None THEN Answer(h)
       ELSE req' = [req EXCEPT ![h] = Copies("write", "template", t, c)]
  /\ UNCHANGED <<dbVars, job, faults>>

TemplateWrite(h) ==
  /\ At(h, "write", "template")
  /\ LET t == req[h].id IN
     IF tmpls[t] = None THEN Answer(h) /\ UNCHANGED tmpls
     ELSE tmpls' = PutTemplate(t, req[h].copy) /\ Cascading(h, {t})
  /\ UNCHANGED <<targets, rows, blks, defaults, born, job, faults>>

\* deleteTemplate looks at is_system, lists the schedules on the template ...
TemplateDeleteList(h) ==
  /\ req[h].at = "idle" /\ "untemplate" \in Kinds[h]
  /\ \E t \in born \cap Templates, force \in BOOLEAN :
       IF (tmpls[t] # None /\ t \in System) \/ (OnTemplate(t) # {} /\ ~force) THEN Answer(h)
       ELSE req' = [req EXCEPT ![h] = [Copies("write", "untemplate", t, None) EXCEPT !.deps = OnTemplate(t)]]
  /\ UNCHANGED <<dbVars, job, faults>>

\* (Mutant: the foreign key is not ON DELETE SET NULL.)
DetachNone(t, rs) == rs

\* ON DELETE SET NULL.
Detach(t, rs) == [i \in Ids |-> IF rs[i] # None /\ rs[i].tmpl = t THEN [rs[i] EXCEPT !.tmpl = None] ELSE rs[i]]

\* ... and deletes those and the template in one transaction, which one that is gone rolls back.
TemplateDeleteWrite(h) ==
  /\ At(h, "write", "untemplate")
  /\ LET t == req[h].id IN
     IF tmpls[t] # None /\ t \notin System /\ \A i \in req[h].deps : Exists(i)
     THEN /\ rows' = Detach(t, BulkDelete(req[h].deps))
          /\ tmpls' = RemoveTemplate(t)
     ELSE UNCHANGED <<rows, tmpls>>
  /\ Answer(h)
  /\ UNCHANGED <<targets, blks, defaults, born, job, faults>>

\* putScheduleDefaults: only the schedules on templates are recomputed, with the expander's old copy.
DefaultsPut(h) ==
  /\ req[h].at = "idle" /\ "defaults" \in Kinds[h]
  /\ defaults' \in Rules \cup {None}
  /\ Cascading(h, {t \in Templates : tmpls[t] # None})
  /\ UNCHANGED <<targets, tmpls, rows, blks, born, job, faults>>

\* Schedules and blackouts of a target go with it (ON DELETE CASCADE).
TargetDelete(h) ==
  /\ req[h].at = "idle" /\ "target" \in Kinds[h]
  /\ \E t \in targets :
       /\ targets' = targets \ {t}
       /\ rows' = [i \in Ids |-> IF Exists(i) /\ rows[i].target = t THEN None ELSE rows[i]]
       /\ blks' = [b \in Blackouts |-> IF blks[b] # None /\ blks[b].target = t THEN None ELSE blks[b]]
  /\ Answer(h)
  /\ UNCHANGED <<tmpls, defaults, born, job, faults>>

-----------------------------------------------------------------------------
(* Blackouts *)

BlackoutCreate(h) ==
  /\ req[h].at = "idle" /\ "blackout" \in Kinds[h]
  /\ \E k \in Blackouts \ born, b \in Blackout :
       IF ValidBlackout(b) THEN blks' = InsertBlackout(k, b) /\ born' = born \cup {k}
       ELSE UNCHANGED <<blks, born>>
  /\ Answer(h)
  /\ UNCHANGED <<targets, tmpls, rows, defaults, job, faults>>

BlackoutRead(h) ==
  /\ req[h].at = "idle" /\ "blackout" \in Kinds[h]
  /\ \E k \in born \cap Blackouts :
       IF blks[k] = None THEN Answer(h)
       ELSE \E s \in {"global", "target"}, t \in {blks[k].target, None} \cup targets, e \in BOOLEAN :
              req' = [req EXCEPT ![h] = Copies("write", "blackout", k, [scope |-> s, target |-> t, enabled |-> e])]
  /\ UNCHANGED <<dbVars, job, faults>>

BlackoutWrite(h) ==
  /\ At(h, "write", "blackout")
  /\ blks' = PutBlackout(req[h].id, req[h].copy)
  /\ Answer(h)
  /\ UNCHANGED <<targets, tmpls, rows, defaults, born, job, faults>>

BlackoutDelete(h) ==
  /\ req[h].at = "idle" /\ "blackout" \in Kinds[h]
  /\ \E k \in born \cap Blackouts : blks' = RemoveBlackout(k)
  /\ Answer(h)
  /\ UNCHANGED <<targets, tmpls, rows, defaults, born, job, faults>>

-----------------------------------------------------------------------------
(* Runs of the scheduler, and statements that fail *)

Run(i, at) == job' = [job EXCEPT ![i].at = at]

\* ListDue: enabled, next_run_at set and (some time) past; the job carries a copy of the row.
ListDue(i) ==
  /\ job[i].at = "idle"
  /\ Exists(i) /\ rows[i].enabled /\ rows[i].next # None
  /\ job' = [job EXCEPT ![i] = [at |-> "listed", copy |-> rows[i], tm |-> None]]
  /\ UNCHANGED <<dbVars, req, faults>>

\* (Mutant: the template is not loaded.)
LoadTemplateNever(i) ==
  /\ job[i].at = "listed"
  /\ Run(i, "scanning")
  /\ UNCHANGED <<dbVars, req, faults>>

\* A worker takes the job and loads the template of its copy.
LoadTemplate(i) ==
  /\ job[i].at = "listed"
  /\ job' = [job EXCEPT ![i].at = "scanning", ![i].tm = TemplateOf(job[i].copy)]
  /\ UNCHANGED <<dbVars, req, faults>>

\* (Mutant: the outcome is saved with the rest of the copy.)
RecordRunWhole(i) ==
  /\ job[i].at = "scanning"
  /\ rows' = IF Exists(i) THEN [rows EXCEPT ![i] = [job[i].copy EXCEPT !.ran = TRUE]] ELSE rows
  /\ Run(i, "recorded")
  /\ UNCHANGED <<targets, tmpls, blks, defaults, born, req, faults>>

RecordRun(i) ==
  /\ job[i].at = "scanning"
  /\ rows' = IF Exists(i) THEN [rows EXCEPT ![i].ran = TRUE] ELSE rows
  /\ Run(i, "recorded")
  /\ UNCHANGED <<targets, tmpls, blks, defaults, born, req, faults>>

\* next_run_at from the copies of the dispatch.
Advance(i) ==
  /\ job[i].at = "recorded"
  /\ rows' = SetNext(i, NextOf(job[i].copy, job[i].tm))
  /\ job' = [job EXCEPT ![i] = NoRun]
  /\ UNCHANGED <<targets, tmpls, blks, defaults, born, req, faults>>

\* A statement of a request fails: fatal until the write, skipped after it.
ReqFault(h) ==
  /\ faults > 0 /\ faults' = faults - 1
  /\ \/ req[h].at \in {"check", "write"} /\ Answer(h)
     \/ req[h].at = "refresh" /\ Cascading(h, req[h].todo)
     \/ req[h].at = "cascade" /\ \E t \in req[h].todo : req' = [req EXCEPT ![h].todo = @ \ {t}]
     \/ req[h].at = "list" /\ Cascading(h, req[h].todo)
     \/ req[h].at = "each" /\ \E i \in req[h].deps : req' = [req EXCEPT ![h].deps = @ \ {i}]
  /\ UNCHANGED <<dbVars, job>>

\* One of a run fails: it is logged and passed over.
RunFault(i) ==
  /\ faults > 0 /\ faults' = faults - 1
  /\ \/ job[i].at = "listed" /\ Run(i, "scanning")
     \/ job[i].at = "scanning" /\ Run(i, "recorded")
     \/ job[i].at = "recorded" /\ job' = [job EXCEPT ![i] = NoRun]
  /\ UNCHANGED <<dbVars, req>>

Begin(h) ==
  \/ CreateCheck(h) \/ PutRead(h) \/ ToggleRead(h) \/ DeleteRead(h) \/ Bulk(h) \/ BulkClone(h)
  \/ TemplateCreate(h) \/ TemplateRead(h) \/ TemplateDeleteList(h) \/ DefaultsPut(h) \/ TargetDelete(h)
  \/ BlackoutCreate(h) \/ BlackoutRead(h) \/ BlackoutDelete(h)

Continue(h) ==
  \/ PutCheck(h) \/ CreateWrite(h) \/ PutWrite(h) \/ ToggleWrite(h) \/ DeleteWrite(h)
  \/ Refresh(h) \/ CascadeRead(h) \/ CascadeList(h) \/ CascadeRow(h) \/ CascadeNext(h) \/ CascadeDone(h)
  \/ TemplateWrite(h) \/ TemplateDeleteWrite(h) \/ BlackoutWrite(h)

Work(i) == LoadTemplate(i) \/ RecordRun(i) \/ Advance(i)

StoreNext ==
  \/ \E h \in Requests : Begin(h) \/ Continue(h) \/ ReqFault(h)
  \/ \E i \in Ids : ListDue(i) \/ Work(i) \/ RunFault(i)

StoreSpec == StoreInit /\ [][StoreNext]_storeVars

\* Handlers and workers go on, and the ticker keeps finding what is due.
StoreFair ==
  /\ \A h \in Requests : WF_storeVars(Continue(h))
  /\ \A i \in Ids : WF_storeVars(ListDue(i)) /\ WF_storeVars(Work(i))

-----------------------------------------------------------------------------
(* Properties *)

\* Whatever requests race, rows are well formed, no schedule refers to a template or target that is gone,
\* no two of a target share their name, every blackout has the scope that its target says, and built-in
\* templates stay (docs/scheduling.md:92-94): the checks of the handlers are long past when they write.
RefsHold ==
  /\ StoreTypeOK
  /\ \A i \in Ids : Exists(i) => Admissible(i, rows[i])
  /\ \A b \in Blackouts : blks[b] # None => ValidBlackout(blks[b])
  /\ \A t \in System : InitTemplates[t] # None => tmpls[t] # None

\* A schedule that was deleted does not come back, by an edit or a run that read it before.
DeletedStays == [][\A i \in Ids \cap born : rows[i] = None => rows'[i] = None]_storeVars

\* Runs change nothing that an operator edits: only a request's step changes those columns.
Edited(r) == IF r = None THEN None ELSE [r EXCEPT !.next = None, !.ran = FALSE]
RunsKeepEdits == [][req' = req => \A i \in Ids : Edited(rows'[i]) = Edited(rows[i])]_storeVars

\* Edits race runs and cascades, which compute next_run_at from older copies; once the requests are
\* answered, every schedule that fires ends up with the next_run_at of what it says now.
NextSettles ==
  <>[](\A i \in Ids : Exists(i) /\ rows[i].enabled /\ rows[i].next # None
                       => rows[i].next = NextOf(rows[i], TemplateOf(rows[i])))
=============================================================================
