-------------------------------- MODULE Boot --------------------------------
(***************************************************************************)
(* What a process does to the database before it asks for the scheduler    *)
(* lock (cli/appcore.go): the migrations of the schema (storage.go), the   *)
(* promotion of schedule.config.json to a template and schedules           *)
(* (migrate_legacy.go), the built-in templates (seed_templates.go).        *)
(* Processes boot at the same time, crash anywhere and are started again;  *)
(* meanwhile targets are added and removed, schedules deleted.             *)
(***************************************************************************)
EXTENDS Naturals

CONSTANTS Boots,      \* processes that boot
          Latest,     \* migrations 1..Latest
          Repeatable, \* those whose statements all say IF NOT EXISTS
          Rebuilds,   \* those that rebuild a table and can be run again
          Sites,      \* targets
          Builtins    \* names of the built-in templates

ASSUME BootAssumption ==
  /\ Latest \in Nat /\ Repeatable \cup Rebuilds \subseteq 1..Latest /\ Repeatable \cap Rebuilds = {}

VARIABLES schema,     \* what migration k has left: old, half, new
          version,    \* schema_version
          file,       \* schedule.config.json: source or archived (.migrated)
          promoted,   \* the template "default" exists
          sites,      \* targets: absent, off, on
          schedules,  \* targets with a schedule "default"
          deleted,    \* history: those whose schedule was deleted
          builtins,   \* templates of the catalog: absent, seeded, edited
          at,         \* how far each process is
          seen        \* the version, then the targets that it has read

bootVars == <<schema, version, file, promoted, sites, schedules, deleted, builtins, at, seen>>

Migration == 1..Latest
BootSteps == {"down", "version", "begin", "end", "stat", "list", "commit", "rename", "seed", "up", "failed"}

BootTypeOK ==
  /\ schema \in [Migration -> {"old", "half", "new"}] /\ version \in 0..Latest
  /\ file \in {"source", "archived"} /\ promoted \in BOOLEAN
  /\ sites \in [Sites -> {"absent", "off", "on"}] /\ schedules \subseteq Sites /\ deleted \subseteq Sites
  /\ builtins \in [Builtins -> {"absent", "seeded", "edited"}]
  /\ at \in [Boots -> BootSteps] /\ seen \in [Boots -> [version : 0..Latest, sites : SUBSET Sites]]

\* An installation that still has its file, and a database of an earlier version.
BootInit ==
  /\ version \in 0..Latest /\ schema = [k \in Migration |-> IF k <= version THEN "new" ELSE "old"]
  /\ file = "source" /\ promoted = FALSE
  /\ sites \in [Sites -> {"absent", "on"}] /\ schedules = {} /\ deleted = {}
  /\ builtins = [b \in Builtins |-> "absent"]
  /\ at = [p \in Boots |-> "down"] /\ seen = [p \in Boots |-> [version |-> 0, sites |-> {}]]

Step(p, from, to) == at[p] = from /\ at' = [at EXCEPT ![p] = to]

-----------------------------------------------------------------------------
(* NewSQLiteStore: runMigrations *)

Launch(p) ==
  /\ Step(p, "down", "version") /\ seen' = [seen EXCEPT ![p] = [version |-> 0, sites |-> {}]]
  /\ UNCHANGED <<schema, version, file, promoted, sites, schedules, deleted, builtins>>

\* getSchemaVersion, before each migration that the process has not come past.
ReadVersion(p) ==
  /\ at[p] = "version" /\ seen[p].version < Latest
  /\ IF version > seen[p].version
     THEN seen' = [seen EXCEPT ![p].version = @ + 1] /\ UNCHANGED at
     ELSE Step(p, "version", "begin") /\ UNCHANGED seen
  /\ UNCHANGED <<schema, version, file, promoted, sites, schedules, deleted, builtins>>

\* What the first statements of k make of it; "error" if they find a column or lack a table.
Begun(k) == IF k \in Repeatable THEN IF schema[k] = "new" THEN "new" ELSE "half"
            ELSE IF schema[k] = "old" \/ (k \in Rebuilds /\ schema[k] = "new") THEN "half" ELSE "error"

\* A script runs statement by statement, not in a transaction.
BeginMigration(p) ==
  LET k == seen[p].version + 1
  IN  /\ at[p] = "begin"
      /\ IF Begun(k) = "error"
         THEN Step(p, "begin", "failed") /\ UNCHANGED schema
         ELSE Step(p, "begin", "end") /\ schema' = [schema EXCEPT ![k] = Begun(k)]
      /\ UNCHANGED <<version, file, promoted, sites, schedules, deleted, builtins, seen>>

\* Its last statement writes the version, lower than the stored one if another process is ahead.
EndMigration(p) ==
  LET k == seen[p].version + 1
  IN  /\ Step(p, "end", "version")
      /\ schema' = [schema EXCEPT ![k] = "new"] /\ version' = k
      /\ seen' = [seen EXCEPT ![p].version = k]
      /\ UNCHANGED <<file, promoted, sites, schedules, deleted, builtins>>

Opened(p) ==
  /\ seen[p].version = Latest /\ Step(p, "version", "stat")
  /\ UNCHANGED <<schema, version, file, promoted, sites, schedules, deleted, builtins, seen>>

-----------------------------------------------------------------------------
(* MigrateLegacyScheduleConfig *)

\* The archive and the source are looked for; a source that does not parse fails the boot.
Stat(p) ==
  /\ \/ file = "archived" /\ Step(p, "stat", "seed")
     \/ file = "source" /\ \E to \in {"list", "failed"} : Step(p, "stat", to)
  /\ UNCHANGED <<schema, version, file, promoted, sites, schedules, deleted, builtins, seen>>

\* ListTargets, outside of the transaction.
ListSites(p) ==
  /\ Step(p, "list", "commit")
  /\ seen' = [seen EXCEPT ![p].sites = {t \in Sites : sites[t] = "on"}]
  /\ UNCHANGED <<schema, version, file, promoted, sites, schedules, deleted, builtins>>

\* (Mutant: rows that exist are kept.)
CommitUpsert(p) ==
  /\ at[p] = "commit"
  /\ IF \A t \in seen[p].sites : sites[t] # "absent"
     THEN promoted' = TRUE /\ schedules' = schedules \cup seen[p].sites /\ Step(p, "commit", "rename")
     ELSE Step(p, "commit", "failed") /\ UNCHANGED <<promoted, schedules>>
  /\ UNCHANGED <<schema, version, file, sites, deleted, builtins, seen>>

\* One transaction: the template, whose name is unique, the defaults and a schedule for each target of the
\* list, which must still exist.
Commit(p) ==
  /\ at[p] = "commit"
  /\ IF ~promoted /\ \A t \in seen[p].sites : sites[t] # "absent"
     THEN promoted' = TRUE /\ schedules' = seen[p].sites /\ Step(p, "commit", "rename")
     ELSE Step(p, "commit", "failed") /\ UNCHANGED <<promoted, schedules>>
  /\ UNCHANGED <<schema, version, file, sites, deleted, builtins, seen>>

\* The file becomes the archive, or it cannot be renamed and the boot fails.
Rename(p) ==
  /\ \/ Step(p, "rename", "seed") /\ file' = "archived"
     \/ Step(p, "rename", "failed") /\ UNCHANGED file
  /\ UNCHANGED <<schema, version, promoted, sites, schedules, deleted, builtins, seen>>

-----------------------------------------------------------------------------
(* SeedBuiltinTemplates, and life afterwards *)

\* One transaction: the names that are absent are created, the others left alone.
Seed(p) ==
  /\ Step(p, "seed", "up")
  /\ builtins' = [b \in Builtins |-> IF builtins[b] = "absent" THEN "seeded" ELSE builtins[b]]
  /\ UNCHANGED <<schema, version, file, promoted, sites, schedules, deleted, seen>>

\* Cleanup, exit; or a crash at any point.
Die(p) ==
  /\ at[p] # "down" /\ at' = [at EXCEPT ![p] = "down"]
  /\ UNCHANGED <<schema, version, file, promoted, sites, schedules, deleted, builtins, seen>>

\* surfbot target: any process adds a target, disables it, or removes it with its schedules.
EditSite(t) ==
  /\ \E new \in {"absent", "off", "on"} :
       /\ new # sites[t] /\ sites' = [sites EXCEPT ![t] = new]
       /\ schedules' = IF new = "absent" THEN schedules \ {t} ELSE schedules
  /\ UNCHANGED <<schema, version, file, promoted, deleted, builtins, at, seen>>

DropSchedule(t) ==
  /\ t \in schedules /\ schedules' = schedules \ {t} /\ deleted' = deleted \cup {t}
  /\ UNCHANGED <<schema, version, file, promoted, sites, builtins, at, seen>>

EditBuiltin(b) ==
  /\ builtins[b] = "seeded" /\ builtins' = [builtins EXCEPT ![b] = "edited"]
  /\ UNCHANGED <<schema, version, file, promoted, sites, schedules, deleted, at, seen>>

BootNext ==
  \/ \E p \in Boots :
       \/ Launch(p) \/ ReadVersion(p) \/ BeginMigration(p) \/ EndMigration(p) \/ Opened(p)
       \/ Stat(p) \/ ListSites(p) \/ Commit(p) \/ Rename(p) \/ Seed(p) \/ Die(p)
  \/ \E t \in Sites : EditSite(t) \/ DropSchedule(t)
  \/ \E b \in Builtins : EditBuiltin(b)

BootSpec == BootInit /\ [][BootNext]_bootVars

-----------------------------------------------------------------------------
(* Properties *)

\* A version that a process may rely on is that of complete tables, save one that is being rebuilt; the file is
\* archived only after its schedules were committed, and however often the boot is repeated after that it
\* neither brings a schedule back that was deleted nor undoes the edit of a built-in template; a process that
\* is up has been through all of it (storage.go:209-279, migrate_legacy.go:72-76, seed_templates.go:144-150).
BootsOnce ==
  /\ \A k \in 1..version : k \notin Rebuilds => schema[k] = "new"
  /\ file = "archived" => promoted
  /\ schedules \cap deleted = {}
  /\ \A p \in Boots : at[p] = "up" => file = "archived" /\ \A b \in Builtins : builtins[b] # "absent"
=============================================================================
