------------------------------- MODULE Migration -------------------------------
(***************************************************************************)
(* internal/store/store.go: what Open does to the database before ThorSync *)
(* serves it.  The schema is applied statement by statement, the version   *)
(* last; the payload migration backs the database up, prunes old backups   *)
(* and then, in one transaction, adds the table and the column, gives      *)
(* every revision its payload row and sets a marker; seeding is one        *)
(* statement at a time.  The process may die, or a step may fail, between  *)
(* any two of these.  The previous image, which knows neither the table    *)
(* nor the column, may run before, in between and after (external).        *)
(***************************************************************************)
EXTENDS Naturals, FiniteSets, Sequences

CONSTANTS Revisions,     \* names of revisions
          Settings,      \* keys of the settings table that Open seeds
          Folders,       \* folders an endpoint can be configured with
          Keep,          \* migration backups kept
          MaxFaults      \* bound on deaths and failures during a start

ASSUME KeepAssumption == Keep \in Nat \ {0} /\ MaxFaults \in Nat

VARIABLES db,       \* the database file
          backups,  \* migration-backups/, by the time in the name
          proc,     \* the process, and how far its Open is
          config,   \* the folder in the configuration
          legacy,   \* the revisions when the migration committed (not in the code)
          faults

vars == <<db, backups, proc, config, legacy, faults>>

SchemaVersion == 1

\* The statements of schemaV1 that later steps depend on, in their order.
SchemaV1 == <<"settings", "endpoints", "revisions", "revision_payloads", "broker_operations">>

Applied(n) == {SchemaV1[i] : i \in 1 .. n}

Tables == Applied(Len(SchemaV1))

PreviousTables == Tables \ {"revision_payloads"}

\* A save is a battery image, or one with a clock, whose identity is not the blob's.
Identity == {"blob", "composed"}

Default == "default"

NoFolder == "none"

Init ==
    /\ \E version \in {0, SchemaVersion + 1} :
         db = [version |-> version, tables |-> IF version = 0 THEN {} ELSE Tables,
               profileColumn |-> version # 0, marker |-> FALSE,
               revisions |-> [r \in {} |-> "blob"], payloads |-> [r \in {} |-> "blob"],
               settings |-> [k \in {} |-> Default], folder |-> NoFolder]
    /\ backups = [t \in {} |-> [complete |-> FALSE, revisions |-> {}]]
    /\ proc = [image |-> "current", step |-> "stopped", existing |-> FALSE]
    /\ config \in Folders
    /\ legacy = {}
    /\ faults = 0

With(f, k, v) == [x \in DOMAIN f \cup {k} |-> IF x = k THEN v ELSE f[x]]

At(step) == proc.image = "current" /\ proc.step = step

Goes(step) == proc' = [proc EXCEPT !.step = step]

-----------------------------------------------------------------------------
(***************************************************************************)
(* The deployment: an image is started with a configuration, stopped, and  *)
(* restarted by the container runtime when it dies (external).             *)
(***************************************************************************)
Start(image) ==
    /\ proc.step \in {"stopped", "died"}
    /\ proc' = [image |-> image, step |-> "open", existing |-> FALSE]
    /\ config' \in Folders
    /\ UNCHANGED <<db, backups, legacy, faults>>

Stop ==
    /\ proc.step = "up"
    /\ Goes("stopped")
    /\ UNCHANGED <<db, backups, config, legacy, faults>>

\* A kill, or a statement or file operation of Open that returns an error.
Die ==
    /\ proc.step \notin {"stopped", "died", "up"}
    /\ faults < MaxFaults
    /\ faults' = faults + 1
    /\ Goes("died")
    /\ UNCHANGED <<db, backups, config, legacy>>

Restart ==
    /\ proc.step = "died"
    /\ proc' = [proc EXCEPT !.step = "open", !.existing = FALSE]
    /\ UNCHANGED <<db, backups, config, legacy, faults>>

-----------------------------------------------------------------------------
(***************************************************************************)
(* migrate.                                                                *)
(***************************************************************************)
\* A database of a later image is refused.
Refuse ==
    /\ proc.step = "open"
    /\ db.version > SchemaVersion
    /\ Goes("died")
    /\ UNCHANGED <<db, backups, config, legacy, faults>>

ReadVersion ==
    /\ At("open")
    /\ db.version <= SchemaVersion
    /\ proc' = [proc EXCEPT !.step = IF db.version = 0 THEN "schema" ELSE "marker",
                            !.existing = db.version # 0]
    /\ UNCHANGED <<db, backups, config, legacy, faults>>

\* The next statement, CREATE TABLE IF NOT EXISTS, commits on its own.
CreateTable ==
    /\ At("schema")
    /\ \E i \in DOMAIN SchemaV1 :
         /\ SchemaV1[i] \notin db.tables
         /\ Applied(i - 1) \subseteq db.tables
         /\ db' = [db EXCEPT !.tables = @ \cup {SchemaV1[i]},
                             !.profileColumn = @ \/ SchemaV1[i] = "broker_operations"]
    /\ UNCHANGED <<backups, proc, config, legacy, faults>>

SetVersion ==
    /\ At("schema")
    /\ Tables \subseteq db.tables
    /\ db' = [db EXCEPT !.version = SchemaVersion]
    /\ Goes("marker")
    /\ UNCHANGED <<backups, config, legacy, faults>>

-----------------------------------------------------------------------------
(***************************************************************************)
(* migrateRevisionPayloads and backupDatabase.                             *)
(***************************************************************************)
\* Mutant: a database that has the table is taken for migrated.
NeedsNoTable == proc.existing /\ "revision_payloads" \notin db.tables

NeedsBackup == proc.existing /\ ~db.marker

\* Mutant: the name has no time, and VACUUM INTO refuses a file that is there.
BeginNamedBackup ==
    /\ At("marker")
    /\ NeedsBackup
    /\ backups = [t \in {} |-> [complete |-> FALSE, revisions |-> {}]]
    /\ backups' = With(backups, 0, [complete |-> FALSE, revisions |-> {}])
    /\ Goes("backup")
    /\ UNCHANGED <<db, config, legacy, faults>>

\* VACUUM INTO starts a file of a new name; a death leaves it incomplete.  The
\* number of starts that failed stands for the time in the name: a start that
\* needs a backup again has failed since, and the clock is taken to run forward.
BeginBackup ==
    /\ At("marker")
    /\ NeedsBackup
    /\ backups' = With(backups, faults, [complete |-> FALSE, revisions |-> {}])
    /\ Goes("backup")
    /\ UNCHANGED <<db, config, legacy, faults>>

SkipBackup ==
    /\ At("marker")
    /\ ~NeedsBackup
    /\ Goes("transaction")
    /\ UNCHANGED <<db, backups, config, legacy, faults>>

EndBackup ==
    /\ At("backup")
    /\ backups' = [backups EXCEPT ![faults] = [complete |-> TRUE,
                                               revisions |-> DOMAIN db.revisions]]
    /\ Goes("prune")
    /\ UNCHANGED <<db, config, legacy, faults>>

\* Names sort by time; the first Keep of the descending order stay.
Kept(t) == Cardinality({u \in DOMAIN backups : u > t}) < Keep

\* The rest is removed one by one, the newest of them first.
Prune ==
    /\ At("prune")
    /\ \E t \in DOMAIN backups :
         /\ ~Kept(t)
         /\ \A u \in DOMAIN backups : u > t => Kept(u)
         /\ backups' = [u \in DOMAIN backups \ {t} |-> backups[u]]
    /\ UNCHANGED <<db, proc, config, legacy, faults>>

Pruned == At("prune") /\ \A t \in DOMAIN backups : Kept(t)

EndPrune ==
    /\ Pruned
    /\ Goes("transaction")
    /\ UNCHANGED <<db, backups, config, legacy, faults>>

\* Mutant: the rows are filled in once, when the marker is set.
BackfilledOnce ==
    IF db.marker THEN db.payloads
    ELSE [r \in DOMAIN db.revisions |-> IF r \in DOMAIN db.payloads THEN db.payloads[r] ELSE "blob"]

\* Mutant: an old revision is given a hash over its components.
BackfilledRehashed ==
    [r \in DOMAIN db.revisions |-> IF r \in DOMAIN db.payloads THEN db.payloads[r] ELSE "rehash"]

\* INSERT OR IGNORE: a revision without a row gets its blob for identity.
Backfilled ==
    [r \in DOMAIN db.revisions |-> IF r \in DOMAIN db.payloads THEN db.payloads[r] ELSE "blob"]

\* All of it commits or none; without the other tables its statements fail.
Migrate ==
    /\ At("transaction")
    /\ PreviousTables \subseteq db.tables
    /\ db' = [db EXCEPT !.tables = @ \cup {"revision_payloads"}, !.profileColumn = TRUE,
                        !.payloads = Backfilled, !.marker = TRUE]
    /\ legacy' = IF db.marker THEN legacy ELSE DOMAIN db.revisions
    /\ Goes("seed")
    /\ UNCHANGED <<backups, config, faults>>

-----------------------------------------------------------------------------
(***************************************************************************)
(* seed: endpoints, then default settings in no particular order.          *)
(***************************************************************************)
SeedEndpoint ==
    /\ At("seed")
    /\ db.folder # config
    /\ db' = [db EXCEPT !.folder = config]
    /\ UNCHANGED <<backups, proc, config, legacy, faults>>

\* Mutant: a default replaces what is there.
DefaultsReplace(key) == With(db.settings, key, Default)

\* INSERT OR IGNORE.
SeedDefault(key) ==
    IF key \in DOMAIN db.settings THEN db.settings ELSE With(db.settings, key, Default)

SeedSetting(key) ==
    /\ At("seed")
    /\ db.folder = config
    /\ db' = [db EXCEPT !.settings = SeedDefault(key)]
    /\ UNCHANGED <<backups, proc, config, legacy, faults>>

Seeded == At("seed") /\ db.folder = config /\ Settings \subseteq DOMAIN db.settings

Serve ==
    /\ Seeded
    /\ Goes("up")
    /\ UNCHANGED <<db, backups, config, legacy, faults>>

-----------------------------------------------------------------------------
(***************************************************************************)
(* What is served.                                                         *)
(***************************************************************************)
\* RecordIngest writes a revision and its payload row in one transaction.
Record(r, identity) ==
    /\ At("up")
    /\ r \notin DOMAIN db.revisions
    /\ db' = [db EXCEPT !.revisions = With(@, r, identity), !.payloads = With(@, r, identity)]
    /\ UNCHANGED <<backups, proc, config, legacy, faults>>

SetSetting(key) ==
    /\ At("up")
    /\ db' = [db EXCEPT !.settings = With(@, key, "chosen")]
    /\ UNCHANGED <<backups, proc, config, legacy, faults>>

-----------------------------------------------------------------------------
(***************************************************************************)
(* The previous image (external): the same schema without the table and    *)
(* the column, the same seeds, revisions that are one blob.                *)
(***************************************************************************)
PreviousOpen ==
    /\ proc.image = "previous"
    /\ proc.step = "open"
    /\ db.version <= SchemaVersion
    /\ db' = [db EXCEPT !.version = SchemaVersion, !.tables = @ \cup PreviousTables,
                        !.folder = config,
                        !.settings = [k \in Settings |-> IF k \in DOMAIN @ THEN @[k] ELSE Default]]
    /\ Goes("up")
    /\ UNCHANGED <<backups, config, legacy, faults>>

\* It dies while it applies its schema.
PreviousDies(n) ==
    /\ proc.image = "previous"
    /\ proc.step = "open"
    /\ db.version = 0
    /\ faults < MaxFaults
    /\ faults' = faults + 1
    /\ db' = [db EXCEPT !.tables = @ \cup (Applied(n) \cap PreviousTables)]
    /\ Goes("died")
    /\ UNCHANGED <<backups, config, legacy>>

PreviousRecord(r) ==
    /\ proc.image = "previous"
    /\ proc.step = "up"
    /\ r \notin DOMAIN db.revisions
    /\ db' = [db EXCEPT !.revisions = With(@, r, "blob")]
    /\ UNCHANGED <<backups, proc, config, legacy, faults>>

-----------------------------------------------------------------------------
Opening ==
    \/ Refuse \/ ReadVersion \/ CreateTable \/ SetVersion
    \/ BeginBackup \/ SkipBackup \/ EndBackup \/ Prune \/ EndPrune \/ Migrate
    \/ SeedEndpoint \/ (\E key \in Settings : SeedSetting(key)) \/ Serve \/ PreviousOpen

Next ==
    \/ \E image \in {"current", "previous"} : Start(image)
    \/ Stop \/ Die \/ Restart \/ Opening
    \/ \E n \in 0 .. Len(SchemaV1) : PreviousDies(n)
    \/ \E r \in Revisions : PreviousRecord(r) \/ \E identity \in Identity : Record(r, identity)
    \/ \E key \in Settings : SetSetting(key)

\* A step of Open that can run does, and a process that died is restarted.
Fairness == WF_vars(Opening) /\ WF_vars(Restart)

Spec == Init /\ [][Next]_vars /\ Fairness

-----------------------------------------------------------------------------
MigrationTypeOK ==
    /\ db.version \in {0, SchemaVersion, SchemaVersion + 1} /\ db.tables \subseteq Tables
    /\ db.revisions \in UNION {[S -> Identity] : S \in SUBSET Revisions}
    /\ db.payloads \in UNION {[S -> Identity] : S \in SUBSET Revisions}
    /\ DOMAIN db.settings \subseteq Settings /\ db.folder \in Folders \cup {NoFolder}
    /\ DOMAIN backups \subseteq 0 .. MaxFaults
    /\ proc.step \in {"stopped", "died", "open", "schema", "marker", "backup", "prune",
                      "transaction", "seed", "up"}

\* Revisions that were there before the payload migration are all in a complete
\* backup that survives the failed starts, the pruning and the later rollbacks
\* (store.go:111-116; docs/updates-and-rollback.md:38).
MigrationIsBackedUp ==
    db.marker /\ legacy # {} => \E t \in DOMAIN backups :
                                   backups[t] = [complete |-> TRUE, revisions |-> legacy]

\* What is served has a payload row of the right identity for every revision:
\* those of the previous image, before the upgrade and in a rollback, by their
\* blob, those with a clock as they were recorded (store.go:150-155).
EveryRevisionHasItsPayload ==
    At("up") => /\ "revision_payloads" \in db.tables
                /\ db.profileColumn
                /\ db.payloads = db.revisions

\* What the owner chose, such as propagation, is the same after any number of
\* starts of either image: the seeds put only the defaults that are not there
\* (store.go:266).
ChoicesSurviveStarts ==
    [][\A k \in DOMAIN db.settings : db.settings[k] = "chosen" => db'.settings[k] = "chosen"]_vars

\* A start that the deployment does not give up on serves in the end, whatever
\* was left behind by the starts that failed.
StartsServe == proc.step = "open" /\ db.version <= SchemaVersion ~> proc.step = "up"
=============================================================================
