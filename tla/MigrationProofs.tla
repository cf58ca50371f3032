---------------------------- MODULE MigrationProofs ----------------------------
(***************************************************************************)
(* Theorems of Migration for any revisions, settings and folders, any      *)
(* number of backups that are kept and any number of failed starts.        *)
(*                                                                         *)
(* The backup that matters is the one of the start that migrates.  Its     *)
(* name is the newest there is, so pruning keeps it; after the migration   *)
(* the marker is set, and no later start touches the backups.  A start     *)
(* that makes no backup though the marker is not set began with an empty   *)
(* database.                                                               *)
(***************************************************************************)
EXTENDS Migration, FiniteSetTheorems, TLAPS

Partial(S, T) == UNION {[X -> T] : X \in SUBSET S}

Database == [version : {0, SchemaVersion, SchemaVersion + 1},
             tables : SUBSET Tables,
             profileColumn : BOOLEAN,
             marker : BOOLEAN,
             revisions : Partial(Revisions, Identity),
             payloads : Partial(Revisions, Identity),
             settings : Partial(Settings, {Default, "chosen"}),
             folder : Folders \cup {NoFolder}]

Process == [image : {"current", "previous"},
            step : {"stopped", "died", "open", "schema", "marker", "backup", "prune",
                    "transaction", "seed", "up"},
            existing : BOOLEAN]

TypeInv ==
    /\ db \in Database
    /\ proc \in Process
    /\ config \in Folders
    /\ faults \in 0 .. MaxFaults
    /\ DOMAIN backups \subseteq 0 .. faults

LEMMA PartialDomain ==
    ASSUME NEW S, NEW T, NEW f \in Partial(S, T)
    PROVE  /\ DOMAIN f \subseteq S
           /\ f = [x \in DOMAIN f |-> f[x]]
           /\ \A x \in DOMAIN f : f[x] \in T
BY DEF Partial

LEMMA PartialFunction ==
    ASSUME NEW S, NEW T, NEW X \in SUBSET S, NEW f \in [X -> T]
    PROVE  f \in Partial(S, T)
BY DEF Partial

LEMMA WithIsPartial ==
    ASSUME NEW S, NEW T, NEW f \in Partial(S, T), NEW k \in S, NEW v \in T
    PROVE  With(f, k, v) \in Partial(S, T)
<1>1. DOMAIN f \cup {k} \in SUBSET S
  BY PartialDomain
<1>2. With(f, k, v) \in [DOMAIN f \cup {k} -> T]
  BY PartialDomain DEF With
<1> QED
  BY <1>1, <1>2, PartialFunction

\* What a database has in it, one field at a time.
LEMMA Fields ==
    ASSUME TypeInv
    PROVE  /\ db.version \in {0, SchemaVersion, SchemaVersion + 1}
           /\ db.tables \subseteq Tables
           /\ db.revisions \in Partial(Revisions, Identity)
           /\ db.payloads \in Partial(Revisions, Identity)
           /\ db.settings \in Partial(Settings, {Default, "chosen"})
BY DEF TypeInv, Database

LEMMA BackfilledIsPartial ==
    ASSUME TypeInv
    PROVE  Backfilled \in Partial(Revisions, Identity)
<1>1. DOMAIN db.revisions \in SUBSET Revisions
  BY Fields, PartialDomain
<1>2. Backfilled \in [DOMAIN db.revisions -> Identity]
  BY Fields, PartialDomain DEF Backfilled, Identity
<1> QED
  BY <1>1, <1>2, PartialFunction

LEMMA TypeInit == Init => TypeInv
<1> SUFFICES ASSUME Init PROVE TypeInv
  OBVIOUS
<1>1. /\ [r \in {} |-> "blob"] \in Partial(Revisions, Identity)
      /\ [k \in {} |-> Default] \in Partial(Settings, {Default, "chosen"})
  <2>1. /\ [r \in {} |-> "blob"] \in [{} -> Identity]
        /\ [k \in {} |-> Default] \in [{} -> {Default, "chosen"}]
        /\ {} \in SUBSET Revisions /\ {} \in SUBSET Settings
    OBVIOUS
  <2> QED
    BY <2>1, Zenon DEF Partial
<1>2. PICK version \in {0, SchemaVersion + 1} :
         db = [version |-> version, tables |-> IF version = 0 THEN {} ELSE Tables,
               profileColumn |-> version # 0, marker |-> FALSE,
               revisions |-> [r \in {} |-> "blob"], payloads |-> [r \in {} |-> "blob"],
               settings |-> [k \in {} |-> Default], folder |-> NoFolder]
  BY DEF Init
<1>3. db \in Database
  <2>1. CASE version = 0
    <3>1. db.profileColumn = FALSE /\ db.tables = {}
      BY <1>2, <2>1
    <3> QED
      BY <1>1, <1>2, <2>1, <3>1 DEF Database
  <2>2. CASE version # 0
    <3>1. db.profileColumn = TRUE /\ db.tables = Tables
      BY <1>2, <2>2
    <3> QED
      BY <1>1, <1>2, <2>2, <3>1 DEF Database
  <2> QED
    BY <2>1, <2>2
<1> QED
  BY <1>3, KeepAssumption DEF Init, TypeInv, Process

LEMMA TypeStep ==
    ASSUME TypeInv, [Next]_vars
    PROVE  TypeInv'
<1> USE DEF TypeInv, Goes, At
<1>1. ASSUME NEW image \in {"current", "previous"}, Start(image)
      PROVE  TypeInv'
  BY <1>1 DEF Start, Process
<1>2. CASE Stop
  BY <1>2 DEF Stop, Process
<1>3. CASE Die
  BY <1>3, KeepAssumption DEF Die, Process
<1>4. CASE Restart
  BY <1>4 DEF Restart, Process
<1>5. CASE Refuse
  BY <1>5 DEF Refuse, Process
<1>6. CASE ReadVersion
  <2>1. CASE db.version = 0
    BY <1>6, <2>1 DEF ReadVersion, Process
  <2>2. CASE db.version # 0
    BY <1>6, <2>2 DEF ReadVersion, Process
  <2> QED
    BY <2>1, <2>2
<1>7. CASE CreateTable
  <2>1. PICK i \in DOMAIN SchemaV1 :
           db' = [db EXCEPT !.tables = @ \cup {SchemaV1[i]},
                            !.profileColumn = @ \/ SchemaV1[i] = "broker_operations"]
    BY <1>7 DEF CreateTable
  <2>2. SchemaV1[i] \in Tables
    BY DEF Tables, Applied, SchemaV1
  <2>3. db.tables \cup {SchemaV1[i]} \subseteq Tables
    BY <2>2, Fields
  <2>4. (db.profileColumn \/ SchemaV1[i] = "broker_operations") \in BOOLEAN
    BY Zenon
  <2> HIDE DEF TypeInv
  <2>5. db' \in Database
    BY <2>1, <2>3, <2>4 DEF Database, TypeInv
  <2> QED
    BY <1>7, <2>5 DEF CreateTable, TypeInv
<1>8. CASE SetVersion
  BY <1>8 DEF SetVersion, Database, Process
<1>9. CASE BeginBackup
  BY <1>9 DEF BeginBackup, With, Process
<1>10. CASE SkipBackup
  BY <1>10 DEF SkipBackup, Process
<1>11. CASE EndBackup
  BY <1>11 DEF EndBackup, Process
<1>12. CASE Prune
  BY <1>12 DEF Prune
<1>13. CASE EndPrune
  BY <1>13 DEF EndPrune, Process
<1>14. CASE Migrate
  <2>1. "revision_payloads" \in Tables
    BY DEF Tables, Applied, SchemaV1
  <2>2. db.tables \cup {"revision_payloads"} \subseteq Tables
    BY <2>1, Fields
  <2>3. db' \in Database
    BY <1>14, <2>2, BackfilledIsPartial DEF Migrate, Database
  <2> QED
    BY <1>14, <2>3 DEF Migrate, Process
<1>15. CASE SeedEndpoint
  BY <1>15 DEF SeedEndpoint, Database
<1>16. ASSUME NEW key \in Settings, SeedSetting(key)
       PROVE  TypeInv'
  <2>1. SeedDefault(key) \in Partial(Settings, {Default, "chosen"})
    BY Fields, WithIsPartial DEF SeedDefault
  <2> QED
    BY <1>16, <2>1 DEF SeedSetting, Database
<1>17. CASE Serve
  BY <1>17 DEF Serve, Process
<1>18. CASE PreviousOpen
  <2> DEFINE settings == [k \in Settings |->
                            IF k \in DOMAIN db.settings THEN db.settings[k] ELSE Default]
  <2>1. settings \in Partial(Settings, {Default, "chosen"})
    <3>1. settings \in [Settings -> {Default, "chosen"}]
      BY Fields, PartialDomain
    <3> QED
      BY <3>1, PartialFunction
  <2>2. db.tables \cup PreviousTables \subseteq Tables
    BY Fields DEF PreviousTables
  <2>3. db' = [db EXCEPT !.version = SchemaVersion, !.tables = @ \cup PreviousTables,
                         !.folder = config, !.settings = settings]
    BY <1>18 DEF PreviousOpen
  <2> HIDE DEF settings
  <2>4. db' \in Database
    BY <2>1, <2>2, <2>3 DEF Database
  <2> QED
    BY <1>18, <2>4 DEF PreviousOpen, Process
<1>19. ASSUME NEW n \in 0 .. Len(SchemaV1), PreviousDies(n)
       PROVE  TypeInv'
  <2>1. db.tables \cup (Applied(n) \cap PreviousTables) \subseteq Tables
    BY Fields DEF PreviousTables
  <2>2. db' \in Database
    BY <1>19, <2>1 DEF PreviousDies, Database
  <2> QED
    BY <1>19, <2>2, KeepAssumption DEF PreviousDies, Process
<1>20. ASSUME NEW r \in Revisions, PreviousRecord(r)
       PROVE  TypeInv'
  <2>1. With(db.revisions, r, "blob") \in Partial(Revisions, Identity)
    BY Fields, WithIsPartial DEF Identity
  <2> QED
    BY <1>20, <2>1 DEF PreviousRecord, Database
<1>21. ASSUME NEW r \in Revisions, NEW identity \in Identity, Record(r, identity)
       PROVE  TypeInv'
  <2>1. /\ With(db.revisions, r, identity) \in Partial(Revisions, Identity)
        /\ With(db.payloads, r, identity) \in Partial(Revisions, Identity)
    BY Fields, WithIsPartial
  <2> QED
    BY <1>21, <2>1 DEF Record, Database
<1>22. ASSUME NEW key \in Settings, SetSetting(key)
       PROVE  TypeInv'
  <2>1. With(db.settings, key, "chosen") \in Partial(Settings, {Default, "chosen"})
    BY Fields, WithIsPartial
  <2> QED
    BY <1>22, <2>1 DEF SetSetting, Database
<1>23. CASE UNCHANGED vars
  BY <1>23 DEF vars
<1> QED
  BY <1>1, <1>2, <1>3, <1>4, <1>5, <1>6, <1>7, <1>8, <1>9, <1>10, <1>11, <1>12, <1>13, <1>14,
     <1>15, <1>16, <1>17, <1>18, <1>19, <1>20, <1>21, <1>22, <1>23 DEF Next, Opening

\* However starts, upgrades and rollbacks follow each other, the database has
\* the shape that either image expects of it.
THEOREM MigrationTypes == Spec => []MigrationTypeOK
<1>1. Init => TypeInv
  BY TypeInit
<1>2. TypeInv /\ [Next]_vars => TypeInv'
  BY TypeStep
<1>3. TypeInv => MigrationTypeOK
  <2> SUFFICES ASSUME TypeInv PROVE MigrationTypeOK
    OBVIOUS
  <2>1. DOMAIN backups \subseteq 0 .. MaxFaults
    BY KeepAssumption DEF TypeInv
  <2>2. DOMAIN db.settings \subseteq Settings
    BY Fields, PartialDomain
  <2> QED
    BY <2>1, <2>2, Fields DEF MigrationTypeOK, TypeInv, Database, Process, Partial
<1> QED
  BY <1>1, <1>2, <1>3, PTL DEF Spec

LEMMA TypesHold == Spec => []TypeInv
<1>1. TypeInv /\ [Next]_vars => TypeInv'
  BY TypeStep
<1> QED
  BY <1>1, TypeInit, PTL DEF Spec

-----------------------------------------------------------------------------
(***************************************************************************)
(* Payload rows.  A row that is there is that of its revision, and only a  *)
(* revision the previous image made can be without one.                    *)
(***************************************************************************)
RowsAgree ==
    /\ DOMAIN db.payloads \subseteq DOMAIN db.revisions
    /\ \A r \in DOMAIN db.payloads : db.payloads[r] = db.revisions[r]
    /\ \A r \in DOMAIN db.revisions \ DOMAIN db.payloads : db.revisions[r] = "blob"

IsServed ==
    proc.image = "current" /\ proc.step \in {"seed", "up"} =>
        /\ "revision_payloads" \in db.tables
        /\ db.profileColumn
        /\ db.payloads = db.revisions

PreviousIsSimple == proc.image = "previous" => proc.step \in {"open", "up", "died", "stopped"}

PayloadInv == RowsAgree /\ IsServed /\ PreviousIsSimple

\* The backfill gives every revision the row it would have been recorded with.
LEMMA BackfilledIsRight ==
    ASSUME TypeInv, RowsAgree
    PROVE  Backfilled = db.revisions
<1>1. db.revisions = [r \in DOMAIN db.revisions |-> db.revisions[r]]
  BY Fields, PartialDomain
<1>2. \A r \in DOMAIN db.revisions :
         db.revisions[r] = IF r \in DOMAIN db.payloads THEN db.payloads[r] ELSE "blob"
  BY DEF RowsAgree
<1> QED
  BY <1>1, <1>2 DEF Backfilled

LEMMA PayloadInit == Init => PayloadInv
BY DEF Init, PayloadInv, RowsAgree, IsServed, PreviousIsSimple

LEMMA PayloadStep ==
    ASSUME TypeInv, PayloadInv, [Next]_vars
    PROVE  PayloadInv'
<1> USE DEF PayloadInv, RowsAgree, IsServed, PreviousIsSimple, Goes, At
<1>0. proc \in Process /\ db \in Database
  BY DEF TypeInv
<1>1. ASSUME NEW image \in {"current", "previous"}, Start(image)
      PROVE  PayloadInv'
  BY <1>1 DEF Start
<1>2. CASE Stop \/ Die \/ Restart \/ Refuse \/ BeginBackup \/ SkipBackup \/ EndBackup
           \/ Prune \/ EndPrune \/ ReadVersion \/ Serve
  BY <1>0, <1>2 DEF Stop, Die, Restart, Refuse, BeginBackup, SkipBackup, EndBackup, Prune,
                    EndPrune, ReadVersion, Serve, Seeded, Pruned, Process
<1>3. CASE CreateTable \/ SetVersion
  BY <1>0, <1>3 DEF CreateTable, SetVersion, Process, Database
<1>4. CASE Migrate
  BY <1>0, <1>4, BackfilledIsRight DEF Migrate, Process, Database
<1>5. CASE SeedEndpoint
  BY <1>0, <1>5 DEF SeedEndpoint, Database
<1>6. ASSUME NEW key \in Settings, SeedSetting(key) \/ SetSetting(key)
      PROVE  PayloadInv'
  BY <1>0, <1>6 DEF SeedSetting, SetSetting, Database
<1>7. CASE PreviousOpen
  BY <1>0, <1>7 DEF PreviousOpen, Process, Database
<1>8. ASSUME NEW n \in 0 .. Len(SchemaV1), PreviousDies(n)
      PROVE  PayloadInv'
  BY <1>0, <1>8 DEF PreviousDies, Process, Database
<1>9. ASSUME NEW r \in Revisions, PreviousRecord(r)
      PROVE  PayloadInv'
  <2>1. /\ db'.revisions = With(db.revisions, r, "blob")
        /\ db'.payloads = db.payloads
        /\ r \notin DOMAIN db.revisions
        /\ UNCHANGED proc /\ proc.image = "previous"
    BY <1>0, <1>9 DEF PreviousRecord, Database
  <2> QED
    BY <2>1 DEF With
<1>10. ASSUME NEW r \in Revisions, NEW identity \in Identity, Record(r, identity)
       PROVE  PayloadInv'
  <2>1. /\ db'.revisions = With(db.revisions, r, identity)
        /\ db'.payloads = With(db.payloads, r, identity)
        /\ db'.tables = db.tables
        /\ db'.profileColumn = db.profileColumn
        /\ db.payloads = db.revisions
        /\ UNCHANGED proc
    BY <1>0, <1>10 DEF Record, Database
  <2>2. db'.payloads = db'.revisions
    BY <2>1
  <2> QED
    BY <1>10, <2>1, <2>2 DEF Record
<1>11. CASE UNCHANGED vars
  BY <1>11 DEF vars
<1> QED
  BY <1>1, <1>2, <1>3, <1>4, <1>5, <1>6, <1>7, <1>8, <1>9, <1>10, <1>11 DEF Next, Opening

LEMMA PayloadsHold == Spec => []PayloadInv
<1>1. TypeInv /\ PayloadInv /\ [Next]_vars => PayloadInv'
  BY PayloadStep
<1> QED
  BY <1>1, PayloadInit, TypesHold, PTL DEF Spec

\* A revision is served with the payload row of its identity, also one that the
\* previous image recorded in a rollback after the migration.
THEOREM PayloadsComplete == Spec => []EveryRevisionHasItsPayload
<1>1. PayloadInv => EveryRevisionHasItsPayload
  BY DEF PayloadInv, IsServed, EveryRevisionHasItsPayload, At
<1> QED
  BY <1>1, PayloadsHold, PTL

-----------------------------------------------------------------------------
(***************************************************************************)
(* Backups.                                                                *)
(***************************************************************************)
\* A start that makes no backup of an unmigrated database found nothing in it.
EmptyWithoutBackup ==
    /\ db.version = 0 => DOMAIN db.revisions = {}
    /\ proc.step = "schema" => db.version = 0 /\ ~proc.existing
    /\ proc.step \notin {"stopped", "died", "open", "schema"} => db.version # 0
    /\ proc.step \in {"marker", "backup", "prune", "transaction"} /\ ~proc.existing /\ ~db.marker
       => DOMAIN db.revisions = {}

\* The backup of this start has the newest name and all revisions.
OwnBackup ==
    /\ proc.step \in {"backup", "prune"} => ~db.marker /\ proc.existing
    /\ proc.step = "backup" => faults \in DOMAIN backups
    /\ proc.step \in {"prune", "transaction"} /\ proc.existing /\ ~db.marker
       => /\ faults \in DOMAIN backups
          /\ backups[faults] = [complete |-> TRUE, revisions |-> DOMAIN db.revisions]

BackupInv == EmptyWithoutBackup /\ OwnBackup /\ MigrationIsBackedUp

LEMMA BackupInit == Init => BackupInv
BY DEF Init, BackupInv, EmptyWithoutBackup, OwnBackup, MigrationIsBackedUp

\* The newest name is kept.
LEMMA NewestIsKept == TypeInv => Kept(faults)
<1> SUFFICES ASSUME TypeInv PROVE Kept(faults)
  OBVIOUS
<1>1. {u \in DOMAIN backups : u > faults} = {}
  BY KeepAssumption DEF TypeInv
<1> QED
  BY <1>1, FS_EmptySet, KeepAssumption DEF Kept

LEMMA BackupStep ==
    ASSUME TypeInv, PreviousIsSimple, BackupInv, [Next]_vars
    PROVE  BackupInv'
<1> USE DEF BackupInv, EmptyWithoutBackup, OwnBackup, MigrationIsBackedUp, Goes, At
<1>0. /\ proc \in Process
      /\ db \in Database
      /\ proc.image = "previous" => proc.step \in {"open", "up", "died", "stopped"}
  BY DEF TypeInv, PreviousIsSimple
<1>1. ASSUME NEW image \in {"current", "previous"}, Start(image)
      PROVE  BackupInv'
  BY <1>1 DEF Start
<1>2. CASE Stop \/ Die \/ Restart \/ Refuse \/ SkipBackup \/ EndPrune \/ Serve
  BY <1>0, <1>2 DEF Stop, Die, Restart, Refuse, SkipBackup, EndPrune, Serve, Seeded, Pruned,
                    NeedsBackup, Process
<1>3. CASE ReadVersion
  BY <1>0, <1>3 DEF ReadVersion, Process
<1>4. CASE CreateTable
  BY <1>0, <1>4 DEF CreateTable, Process, Database
<1>5. CASE SetVersion
  BY <1>0, <1>5 DEF SetVersion, Process, Database, SchemaVersion
<1>6. CASE BeginBackup
  <2>1. /\ backups' = With(backups, faults, [complete |-> FALSE, revisions |-> {}])
        /\ ~db.marker /\ proc.existing /\ proc.step = "marker"
        /\ proc'.step = "backup" /\ proc'.existing = proc.existing
        /\ UNCHANGED <<db, legacy, faults>>
    BY <1>0, <1>6 DEF BeginBackup, NeedsBackup, Process
  <2> QED
    BY <2>1 DEF With
<1>7. CASE EndBackup
  <2>1. /\ backups' = [backups EXCEPT ![faults] = [complete |-> TRUE,
                                                  revisions |-> DOMAIN db.revisions]]
        /\ ~db.marker /\ proc.existing /\ proc.step = "backup" /\ faults \in DOMAIN backups
        /\ proc'.step = "prune" /\ proc'.existing = proc.existing
        /\ UNCHANGED <<db, legacy, faults>>
    BY <1>0, <1>7 DEF EndBackup, Process
  <2> QED
    BY <2>1
<1>8. CASE Prune
  <2>1. PICK t \in DOMAIN backups :
           ~Kept(t) /\ backups' = [u \in DOMAIN backups \ {t} |-> backups[u]]
    BY <1>8 DEF Prune
  <2>2. t # faults
    BY <2>1, NewestIsKept
  <2>3. ~db.marker /\ UNCHANGED <<db, proc, legacy, faults>>
    BY <1>8 DEF Prune
  <2> QED
    BY <2>1, <2>2, <2>3
<1>9. CASE Migrate
  <2>1. /\ db'.marker
        /\ db'.revisions = db.revisions
        /\ db'.version = db.version
        /\ proc'.step = "seed"
        /\ legacy' = IF db.marker THEN legacy ELSE DOMAIN db.revisions
        /\ UNCHANGED <<backups, faults>>
        /\ proc.step = "transaction"
    BY <1>0, <1>9 DEF Migrate, Process, Database
  <2>2. MigrationIsBackedUp'
    BY <2>1
  <2> QED
    BY <2>1, <2>2
<1>10. CASE SeedEndpoint
  BY <1>0, <1>10 DEF SeedEndpoint, Database
<1>11. ASSUME NEW key \in Settings, SeedSetting(key) \/ SetSetting(key)
       PROVE  BackupInv'
  BY <1>0, <1>11 DEF SeedSetting, SetSetting, Database
<1>12. CASE PreviousOpen
  BY <1>0, <1>12 DEF PreviousOpen, Process, Database, SchemaVersion
<1>13. ASSUME NEW n \in 0 .. Len(SchemaV1), PreviousDies(n)
       PROVE  BackupInv'
  BY <1>0, <1>13 DEF PreviousDies, Process, Database
<1>14. ASSUME db.version # 0, proc.step = "up", UNCHANGED <<backups, proc, legacy, faults>>,
              db'.version = db.version, db'.marker = db.marker
       PROVE  BackupInv'
  BY <1>14
<1>15. ASSUME NEW r \in Revisions,
              PreviousRecord(r) \/ \E identity \in Identity : Record(r, identity)
       PROVE  BackupInv'
  <2>1. /\ proc.step = "up"
        /\ UNCHANGED <<backups, proc, legacy, faults>>
        /\ db'.version = db.version
        /\ db'.marker = db.marker
    BY <1>0, <1>15 DEF PreviousRecord, Record, Database
  <2> QED
    BY <1>14, <2>1
<1>16. CASE UNCHANGED vars
  BY <1>16 DEF vars
<1> QED
  BY <1>1, <1>2, <1>3, <1>4, <1>5, <1>6, <1>7, <1>8, <1>9, <1>10, <1>11, <1>12, <1>13, <1>15,
     <1>16 DEF Next, Opening

\* What was there before the migration survives it in a complete backup,
\* however many starts failed before and whatever images run afterwards.
THEOREM BackedUpBeforeMigration == Spec => []MigrationIsBackedUp
<1>1. TypeInv /\ PayloadInv /\ BackupInv /\ [Next]_vars => BackupInv'
  BY BackupStep DEF PayloadInv
<1>2. BackupInv => MigrationIsBackedUp
  BY DEF BackupInv
<1> QED
  BY <1>1, <1>2, BackupInit, TypesHold, PayloadsHold, PTL DEF Spec

-----------------------------------------------------------------------------
(***************************************************************************)
(* Settings.                                                               *)
(***************************************************************************)
LEMMA ChoiceStep ==
    ASSUME TypeInv, [Next]_vars,
           NEW k \in DOMAIN db.settings, db.settings[k] = "chosen"
    PROVE  db'.settings[k] = "chosen"
<1>1. db \in Database /\ k \in Settings
  BY Fields, PartialDomain DEF TypeInv
<1>2. CASE db'.settings = db.settings
  BY <1>2
<1>3. ASSUME NEW key \in Settings, SeedSetting(key)
      PROVE  db'.settings[k] = "chosen"
  BY <1>1, <1>3 DEF SeedSetting, SeedDefault, With, Database
<1>4. ASSUME NEW key \in Settings, SetSetting(key)
      PROVE  db'.settings[k] = "chosen"
  BY <1>1, <1>4 DEF SetSetting, With, Database
<1>5. CASE PreviousOpen
  BY <1>1, <1>5 DEF PreviousOpen, Database
<1>6. \/ db'.settings = db.settings
      \/ \E key \in Settings : SeedSetting(key) \/ SetSetting(key)
      \/ PreviousOpen
  <2>1. CASE CreateTable \/ SetVersion \/ Migrate \/ SeedEndpoint
    BY <1>1, <2>1 DEF CreateTable, SetVersion, Migrate, SeedEndpoint, Database
  <2>2. ASSUME NEW n \in 0 .. Len(SchemaV1), PreviousDies(n)
        PROVE  db'.settings = db.settings
    BY <1>1, <2>2 DEF PreviousDies, Database
  <2>3. ASSUME NEW r \in Revisions,
               PreviousRecord(r) \/ \E identity \in Identity : Record(r, identity)
        PROVE  db'.settings = db.settings
    BY <1>1, <2>3 DEF PreviousRecord, Record, Database
  <2>4. CASE db' = db
    BY <2>4
  <2> QED
    BY <2>1, <2>2, <2>3, <2>4
    DEF Next, Opening, vars, Start, Stop, Die, Restart, Refuse, ReadVersion, BeginBackup,
        SkipBackup, EndBackup, Prune, EndPrune, Serve
<1> QED
  BY <1>2, <1>3, <1>4, <1>5, <1>6

\* A setting the owner chose is never reset by a start, of either image.
THEOREM ChoicesStay == Spec => ChoicesSurviveStarts
<1> DEFINE Stays == \A k \in DOMAIN db.settings :
                      db.settings[k] = "chosen" => db'.settings[k] = "chosen"
<1>1. TypeInv /\ [Next]_vars => [Stays]_vars
  BY ChoiceStep
<1> QED
  BY <1>1, TypesHold, PTL DEF Spec, ChoicesSurviveStarts
=============================================================================
