------------------------------ MODULE Migration ------------------------------
(***************************************************************************)
(* PostgreSQL migrations: a database entry of the config file asks to be   *)
(* moved to another server, and the provisioner moves it, step by step,    *)
(* while                                                                   *)
(*   - applications write to their databases,                              *)
(*   - the operator schedules and clears migrations in the admin UI,       *)
(*   - the midnight scheduler takes backups,                               *)
(*   - a Secret rotation reprovisions one entry in a goroutine of its own, *)
(*   - the process crashes and is restarted.                               *)
(*                                                                         *)
(* The rows of the config file (server, database) are fixed here; only     *)
(* their migrate blocks change.  A dump reads one snapshot of the source,  *)
(* so dump and replay are one step.  A whole server is reachable or not at *)
(* each statement: any statement may fail, as FAULTS allows.               *)
(***************************************************************************)
EXTENDS Contents

CONSTANTS
    NRows,          \* number of database entries, in the order of the file
    Server,         \* names of the configured servers
    DbName,         \* names of databases
    Host,           \* Host[i]: the server that entry i sits under
    Name,           \* Name[i]: the database that entry i names
    PGServer,       \* the servers detectDBType takes for PostgreSQL
    DryRun,         \* the servers with dry_run
    SecretRow,      \* entries whose password is in a Kubernetes Secret
    BackupRow,      \* entries with backup.enabled
    RestoreRow,     \* entries with backup.restore_on_create
    Unlisted,       \* a target_server that no configured server has
    NoMigrate,      \* the value of an absent migrate block
    NoRotation,     \* no reprovision goroutine is running
    Faults,         \* the kinds of failure the environment may cause
    MaxEdits,       \* bound: migrate edits made in the admin UI
    MaxRotations,   \* bound: Secret rotations
    MaxCrashes      \* bound: crashes of the provisioner

Row == 1..NRows
FirstRow == 1
FaultKind == {"load", "secret", "target", "provision", "dump", "psql",
              "restore", "verify", "drop", "persist", "connect"}

ASSUME RowsAssumption ==
    /\ NRows \in Nat \ {0}
    /\ Host \in [Row -> Server]
    /\ Name \in [Row -> DbName]
    /\ SecretRow \subseteq Row
    /\ BackupRow \subseteq Row
    /\ RestoreRow \subseteq Row
ASSUME ServerAssumption ==
    /\ PGServer \subseteq Server
    /\ DryRun \subseteq Server
    /\ Unlisted \notin Server
ASSUME FaultsAssumption == Faults \subseteq FaultKind
ASSUME BoundsAssumption ==
    MaxEdits \in Nat /\ MaxRotations \in Nat /\ MaxCrashes \in Nat

\* MigrateConfig.  error stands for a non-empty Error, whatever its text.
Block == [target : Server \cup {Unlisted}, drop : BOOLEAN,
          completed : BOOLEAN, error : BOOLEAN]
ASSUME NoMigrateAssumption == NoMigrate \notin Block
MigrateField == Block \cup {NoMigrate}

Scheduled(t, d) ==
    [target |-> t, drop |-> d, completed |-> FALSE, error |-> FALSE]

\* A block that asks for a migration: neither absent nor a tombstone.
Pending(b) == b # NoMigrate /\ ~b.completed
Tombstone(b) == b # NoMigrate /\ b.completed

\* The reprovision goroutine of a rotation, with the entry it copied.
Rotation == [row : Row, blk : MigrateField, at : {"migrate", "serve", "restore"}]
ASSUME NoRotationAssumption == NoRotation \notin Rotation

\* Every server with every database name on it.
Dbs == [Server -> [DbName -> Content \cup {NoDb}]]

VARIABLES
    (***********************************************************************)
    (* The world outside the process                                       *)
    (***********************************************************************)
    disk,       \* the migrate block of each entry in the config file
    changed,    \* the file's mtime is after the watch loop's lastModTime
    dbs,        \* what each database of each server holds
    backup,     \* what the newest backup of each database holds
    (***********************************************************************)
    (* The provisioner's goroutine: processConfig and runMigration         *)
    (***********************************************************************)
    pc,         \* the step it is at
    row,        \* the entry it is at
    cfg,        \* the migrate blocks it loaded at the start of the pass
    blk,        \* runMigration's copy m of the entry's block
    fromBackup, \* the target was filled from a backup
    (***********************************************************************)
    (* The goroutine handleRotateSecret starts                             *)
    (***********************************************************************)
    rot,
    (***********************************************************************)
    (* The midnight scheduler's goroutine                                  *)
    (***********************************************************************)
    due,        \* the entries that the running backup pass has yet to dump
    (***********************************************************************)
    (* History, read by properties only                                    *)
    (***********************************************************************)
    ordered,    \* <<entry, target>>: an operator asked to drop the source
    moved,      \* <<entry, target>>: a run for the entry passed verification
    quiet,      \* source and target untouched by others since the check
    (***********************************************************************)
    (* Bounds of the environment                                           *)
    (***********************************************************************)
    edits, rotations, crashes

fileVars == <<disk, changed>>
backupVars == <<backup, due>>
runVars == <<row, cfg, blk, fromBackup>>
historyVars == <<ordered, moved>>
boundVars == <<edits, rotations, crashes>>
vars == <<disk, changed, dbs, backup, pc, row, cfg, blk, fromBackup, rot,
          due, ordered, moved, quiet, edits, rotations, crashes>>

Step == {"idle", "load", "migrate", "check", "provision", "copy", "fallback",
         "verify", "drop", "persist", "serve", "restore"}

TypeOK ==
    /\ disk \in [Row -> MigrateField]
    /\ changed \in BOOLEAN
    /\ dbs \in Dbs
    /\ backup \in Dbs
    /\ pc \in Step
    /\ row \in 1..(NRows + 1)
    /\ cfg \in [Row -> MigrateField]
    /\ blk \in MigrateField
    /\ fromBackup \in BOOLEAN
    /\ rot \in Rotation \cup {NoRotation}
    /\ due \subseteq BackupRow
    /\ ordered \subseteq Row \X (Server \cup {Unlisted})
    /\ moved \subseteq Row \X Server
    /\ quiet \in BOOLEAN
    /\ edits \in 0..MaxEdits
    /\ rotations \in 0..MaxRotations
    /\ crashes \in 0..MaxCrashes

-----------------------------------------------------------------------------
(***************************************************************************)
(* Helpers                                                                 *)
(***************************************************************************)
\* What entry i's database holds on server s.
On(s, i) == dbs[s][Name[i]]
WithDb(s, i, c) == [dbs EXCEPT ![s] = [@ EXCEPT ![Name[i]] = c]]

Source == On(Host[row], row)
Target == On(blk.target, row)

Failed(b) == [b EXCEPT !.completed = FALSE, !.error = TRUE]

\* Mutant: the source itself is taken for a target.
ResolveTarget_SameServer(t, s) == t \in PGServer

\* resolveTargetServer: a configured PostgreSQL server other than the source.
ResolveTarget(t, s) == t \in PGServer /\ t # s

\* A change of entry i's database on server s by anyone but the run itself.
Undisturbed(s, d) ==
    ~ /\ blk # NoMigrate
      /\ d = Name[row]
      /\ s \in {Host[row], blk.target}

\* What replaying a dump leaves, complete unless psql may fail on statements, as
\* it may on any over tables that are there already.
Loaded(old, dump) ==
    IF "psql" \in Faults \/ old # EmptyDb THEN PartlyReplayed(old, dump)
                                          ELSE {Replayed(old, dump)}

\* Mutant: the migrate block is written without touching the file's mtime.
PersistMigrate_SilentWrite(i, b) ==
    disk' = [disk EXCEPT ![i] = b] /\ UNCHANGED changed

\* persistMigrate: under the lock, re-read the file and set one entry's block.
PersistMigrate(i, b) ==
    \/ /\ disk' = [disk EXCEPT ![i] = b]
       /\ changed' = TRUE
    \/ /\ "persist" \in Faults
       /\ UNCHANGED fileVars

\* provisionPostgreSQL: the database exists at the end, created if it was not.
\* A statement that fails leaves it created or not, and the entry gives up.
EnsureDb(s, i) == IF On(s, i) = NoDb THEN WithDb(s, i, EmptyDb) ELSE dbs

-----------------------------------------------------------------------------
(***************************************************************************)
(* Initial states: a fresh process and a file whose entries carry pending  *)
(* blocks, or none.  Any database may exist beforehand, with any contents. *)
(***************************************************************************)
Init ==
    /\ disk \in [Row -> {NoMigrate} \cup
                        {Scheduled(t, d) : t \in Server \cup {Unlisted},
                                           d \in BOOLEAN}]
    /\ changed = TRUE
    /\ dbs \in Dbs
    /\ backup = [s \in Server |-> [d \in DbName |-> NoDb]]
    /\ pc = "idle"
    /\ row = FirstRow
    /\ cfg = [i \in Row |-> NoMigrate]
    /\ blk = NoMigrate
    /\ fromBackup = FALSE
    /\ rot = NoRotation
    /\ due = {}
    /\ ordered = {<<i, disk[i].target>> :
                    i \in {j \in Row : disk[j] # NoMigrate /\ disk[j].drop}}
    /\ moved = {}
    /\ quiet = FALSE
    /\ edits = 0 /\ rotations = 0 /\ crashes = 0

-----------------------------------------------------------------------------
(***************************************************************************)
(* runWatchMode: stat the file, then load it.  lastModTime is the mtime    *)
(* that was stat'ed, so a write between the two makes the file changed     *)
(* again.  A file that cannot be loaded is not tried again until then.     *)
(***************************************************************************)
StatConfig ==
    /\ pc = "idle"
    /\ changed
    /\ changed' = FALSE
    /\ pc' = "load"
    /\ UNCHANGED <<disk, dbs, backupVars, runVars, rot, historyVars, quiet, boundVars>>

LoadConfig ==
    /\ pc = "load"
    /\ \/ /\ cfg' = disk
          /\ row' = FirstRow
          /\ pc' = "migrate"
       \/ /\ "load" \in Faults
          /\ pc' = "idle"
          /\ UNCHANGED <<row, cfg>>
    /\ UNCHANGED <<fileVars, dbs, backupVars, blk, fromBackup, rot, historyVars,
                   quiet, boundVars>>

-----------------------------------------------------------------------------
(***************************************************************************)
(* The migration pass of processConfig, one entry after the other, on the  *)
(* blocks loaded at the start of the pass.                                 *)
(***************************************************************************)
\* An entry that runMigration is called for.
Migrates(i) == Host[i] \in PGServer /\ Pending(cfg[i]) /\ Host[i] \notin DryRun

SkipMigration ==
    /\ pc = "migrate"
    /\ row \in Row
    /\ ~ Migrates(row)
    /\ row' = row + 1
    /\ UNCHANGED <<fileVars, dbs, backupVars, pc, cfg, blk, fromBackup, rot,
                   historyVars, quiet, boundVars>>

\* Mutant: the provisioning loop goes on with the migration loop's index.
EndMigrationPass_NoReset ==
    /\ pc = "migrate"
    /\ row \notin Row
    /\ pc' = "serve"
    /\ row' = row + 1
    /\ UNCHANGED <<fileVars, dbs, backupVars, cfg, blk, fromBackup, rot,
                   historyVars, quiet, boundVars>>

EndMigrationPass ==
    /\ pc = "migrate"
    /\ row \notin Row
    /\ pc' = "serve"
    /\ row' = FirstRow
    /\ UNCHANGED <<fileVars, dbs, backupVars, cfg, blk, fromBackup, rot,
                   historyVars, quiet, boundVars>>

\* runMigration returns through fail(): the block with its error is to persist.
Fail(b) == blk' = Failed(b) /\ pc' = "persist"

\* runMigration up to applyK8sPassword: resolve the target, read the password.
StartMigration ==
    /\ pc = "migrate"
    /\ row \in Row
    /\ Migrates(row)
    /\ \/ /\ ResolveTarget(cfg[row].target, Host[row])
          /\ blk' = cfg[row]
          /\ pc' = "check"
       \/ /\ \/ ~ ResolveTarget(cfg[row].target, Host[row])
             \/ row \in SecretRow /\ "secret" \in Faults
          /\ Fail(cfg[row])
    /\ UNCHANGED <<fileVars, dbs, backupVars, row, cfg, fromBackup, rot,
                   historyVars, quiet, boundVars>>

\* Mutant: a target database that exists is used as it is.
CheckTarget_AdoptsExisting ==
    /\ pc = "check"
    /\ pc' = "provision"
    /\ quiet' = TRUE
    /\ UNCHANGED <<fileVars, dbs, backupVars, runVars, rot, historyVars, boundVars>>

\* checkPostgreSQLDatabaseExists on the target: refuse to overwrite.
CheckTarget ==
    /\ pc = "check"
    /\ \/ /\ Target = NoDb
          /\ pc' = "provision"
          /\ quiet' = TRUE
          /\ UNCHANGED blk
       \/ /\ Target # NoDb \/ "target" \in Faults
          /\ Fail(blk)
          /\ UNCHANGED quiet
    /\ UNCHANGED <<fileVars, dbs, backupVars, row, cfg, fromBackup, rot,
                   historyVars, boundVars>>

\* provisionPostgreSQL on the target: the role, the database, its grants.
ProvisionTarget ==
    /\ pc = "provision"
    /\ \/ /\ dbs' = EnsureDb(blk.target, row)
          /\ pc' = "copy"
          /\ UNCHANGED blk
       \/ /\ "provision" \in Faults
          /\ dbs' \in {dbs, EnsureDb(blk.target, row)}
          /\ Fail(blk)
    /\ UNCHANGED <<fileVars, backupVars, row, cfg, fromBackup, rot, historyVars,
                   quiet, boundVars>>

\* What psql, killed when pg_dump fails, has loaded by then: any part, or nothing.
BrokenOff ==
    IF Source = NoDb THEN {Target} ELSE PartlyReplayed(Target, Source)

\* migratePostgreSQLData.  pg_dump fails when the source does not exist, and may
\* fail half way.  What it writes to stderr alone decides whether the run falls
\* back to a backup or fails.  psql's own errors are not looked at.
MigrateData ==
    /\ pc = "copy"
    /\ \/ /\ Source # NoDb
          /\ \E c \in Loaded(Target, Source) : dbs' = WithDb(blk.target, row, c)
          /\ pc' = "verify"
          /\ UNCHANGED blk
       \/ /\ Source = NoDb \/ "dump" \in Faults
          /\ \E c \in BrokenOff : dbs' = WithDb(blk.target, row, c)
          /\ \/ Fail(blk)
             \/ "dump" \in Faults /\ pc' = "fallback" /\ UNCHANGED blk
    /\ UNCHANGED <<fileVars, backupVars, row, cfg, fromBackup, rot, historyVars,
                   quiet, boundVars>>

\* findNewestBackup and restorePostgreSQL, over whatever the dump has left in the
\* target.  psql exits 0 when statements fail.
RestoreFallback ==
    LET newest == backup[Host[row]][Name[row]] IN
    /\ pc = "fallback"
    /\ \/ /\ newest # NoDb
          /\ \E c \in Loaded(Target, newest) : dbs' = WithDb(blk.target, row, c)
          /\ fromBackup' = TRUE
          /\ pc' = "verify"
          /\ UNCHANGED blk
       \/ /\ newest # NoDb
          /\ "restore" \in Faults
          /\ \E c \in PartlyReplayed(Target, newest) :
                dbs' = WithDb(blk.target, row, c)
          /\ Fail(blk)
          /\ UNCHANGED fromBackup
       \/ /\ newest = NoDb
          /\ Fail(blk)
          /\ UNCHANGED <<dbs, fromBackup>>
    /\ UNCHANGED <<fileVars, backupVars, row, cfg, rot, historyVars, quiet, boundVars>>

\* verifyTargetNonEmpty after the fallback, verifyMigration otherwise.
Verified ==
    IF fromBackup THEN DOMAIN Target # {}
                  ELSE Source # NoDb /\ SameCounts(Source, Target)

\* Mutant: the source is dropped whether or not confirm_drop is set.
AfterVerify_AlwaysDrop(b) == "drop"

\* Once verified, the source is dropped if the block says so.
AfterVerify(b) == IF b.drop THEN "drop" ELSE "persist"

\* Mutant: the outcome of the verification is not looked at.
Verify_Ungated ==
    /\ pc = "verify"
    /\ blk' = [blk EXCEPT !.completed = TRUE, !.error = FALSE]
    /\ moved' = IF Verified THEN moved \cup {<<row, blk.target>>} ELSE moved
    /\ pc' = AfterVerify(blk)
    /\ UNCHANGED <<fileVars, dbs, backupVars, row, cfg, fromBackup, rot, ordered,
                   quiet, boundVars>>

Verify ==
    /\ pc = "verify"
    /\ \/ /\ Verified
          /\ blk' = [blk EXCEPT !.completed = TRUE, !.error = FALSE]
          /\ moved' = moved \cup {<<row, blk.target>>}
          /\ pc' = AfterVerify(blk)
       \/ /\ ~ Verified \/ "verify" \in Faults
          /\ Fail(blk)
          /\ UNCHANGED moved
    /\ UNCHANGED <<fileVars, dbs, backupVars, row, cfg, fromBackup, rot, ordered,
                   quiet, boundVars>>

\* dropPostgreSQLDatabase: a failed drop is an error of a completed migration,
\* whether the database was dropped before the answer got lost or not.
DropSource ==
    /\ pc = "drop"
    /\ \/ /\ Source # NoDb
          /\ dbs' = WithDb(Host[row], row, NoDb)
          /\ UNCHANGED blk
       \/ /\ Source = NoDb
          /\ blk' = [blk EXCEPT !.error = TRUE]
          /\ UNCHANGED dbs
       \/ /\ "drop" \in Faults
          /\ blk' = [blk EXCEPT !.error = TRUE]
          /\ dbs' \in {dbs, WithDb(Host[row], row, NoDb)}
    /\ pc' = "persist"
    /\ UNCHANGED <<fileVars, backupVars, row, cfg, fromBackup, rot, historyVars,
                   quiet, boundVars>>

\* The end of runMigration: persistMigrate, and on to the next entry.
Persist ==
    /\ pc = "persist"
    /\ PersistMigrate(row, blk)
    /\ pc' = "migrate"
    /\ row' = row + 1
    /\ blk' = NoMigrate
    /\ fromBackup' = FALSE
    /\ quiet' = FALSE
    /\ UNCHANGED <<dbs, backupVars, cfg, rot, historyVars, boundVars>>

-----------------------------------------------------------------------------
(***************************************************************************)
(* The provisioning pass of processConfig.  It reads the blocks loaded at  *)
(* the start of the pass: what the migration pass wrote since then is in   *)
(* the file only.                                                          *)
(***************************************************************************)
\* Entry j, or the end of the list, follows those of entry i's server.
NextServer(i, j) ==
    /\ \A k \in i..(j - 1) : Host[k] = Host[i]
    /\ j \in Row => Host[j] # Host[i]

AtServer(i) == i # FirstRow => Host[i - 1] # Host[i]

AllDatabasesMigrated(s) == \A i \in Row : Host[i] = s => Tombstone(cfg[i])

\* Every entry of the server has moved away, or connectWithRetry gave up.
SkipServer ==
    /\ pc = "serve"
    /\ row \in Row
    /\ AtServer(row)
    /\ AllDatabasesMigrated(Host[row]) \/ "connect" \in Faults
    /\ \E j \in (row + 1)..(NRows + 1) : NextServer(row, j) /\ row' = j
    /\ UNCHANGED <<fileVars, dbs, backupVars, pc, cfg, blk, fromBackup, rot,
                   historyVars, quiet, boundVars>>

\* An entry that the provisioning pass acts on.
Serves(i, b) == ~ Tombstone(b) /\ Host[i] \notin DryRun

ServeSkip ==
    /\ pc = "serve"
    /\ row \in Row
    /\ ~ AllDatabasesMigrated(Host[row])
    /\ ~ Serves(row, cfg[row])
    /\ row' = row + 1
    /\ UNCHANGED <<fileVars, dbs, backupVars, pc, cfg, blk, fromBackup, rot,
                   historyVars, quiet, boundVars>>

\* applyK8sPassword and provisionPostgreSQL for one entry.
ServeDatabase ==
    /\ pc = "serve"
    /\ row \in Row
    /\ Serves(row, cfg[row])
    /\ \/ /\ dbs' = EnsureDb(Host[row], row)
          /\ IF Source = NoDb /\ row \in RestoreRow
                THEN pc' = "restore" /\ UNCHANGED row
                ELSE row' = row + 1 /\ UNCHANGED pc
       \/ /\ "provision" \in Faults
          /\ dbs' \in {dbs, EnsureDb(Host[row], row)}
          /\ row' = row + 1
          /\ UNCHANGED pc
    /\ UNCHANGED <<fileVars, backupVars, cfg, blk, fromBackup, rot, historyVars,
                   quiet, boundVars>>

\* What restoreDatabase may leave of entry i: errors are logged, not returned.
Restored(i) ==
    LET newest == backup[Host[i]][Name[i]]
        now == On(Host[i], i)
    IN IF newest = NoDb \/ now = NoDb
          THEN {now}
          ELSE Loaded(now, newest) \cup
               (IF "restore" \in Faults THEN PartlyReplayed(now, newest) ELSE {})

ServeRestore ==
    /\ pc = "restore"
    /\ \E c \in Restored(row) : dbs' = WithDb(Host[row], row, c)
    /\ pc' = "serve"
    /\ row' = row + 1
    /\ UNCHANGED <<fileVars, backupVars, cfg, blk, fromBackup, rot, historyVars,
                   quiet, boundVars>>

\* Mutant: lastModTime is taken when the pass ends.
EndPass_TakesMtime ==
    /\ pc = "serve"
    /\ row \notin Row
    /\ pc' = "idle"
    /\ row' = FirstRow
    /\ cfg' = [i \in Row |-> NoMigrate]
    /\ changed' = FALSE
    /\ UNCHANGED <<disk, dbs, backupVars, blk, fromBackup, rot, historyVars,
                   quiet, boundVars>>

\* The pass is over; the loaded blocks are dropped.
EndPass ==
    /\ pc = "serve"
    /\ row \notin Row
    /\ pc' = "idle"
    /\ row' = FirstRow
    /\ cfg' = [i \in Row |-> NoMigrate]
    /\ UNCHANGED <<fileVars, dbs, backupVars, blk, fromBackup, rot, historyVars,
                   quiet, boundVars>>

Provisioner ==
    \/ StatConfig \/ LoadConfig
    \/ SkipMigration \/ EndMigrationPass \/ StartMigration
    \/ CheckTarget \/ ProvisionTarget \/ MigrateData \/ RestoreFallback
    \/ Verify \/ DropSource \/ Persist
    \/ SkipServer \/ ServeSkip \/ ServeDatabase \/ ServeRestore \/ EndPass

-----------------------------------------------------------------------------
(***************************************************************************)
(* handleRotateSecret copies an entry out of the file and, in a goroutine, *)
(* runs processConfig on a configuration of that entry alone: the only     *)
(* server of that configuration is the source, so resolveTargetServer      *)
(* fails whatever the target, and the failure is persisted at indices      *)
(* (0, 0), which in the real file are those of the first entry.            *)
(***************************************************************************)
RotateSecret(i) ==
    /\ i \in SecretRow
    /\ rot = NoRotation
    /\ rotations < MaxRotations
    /\ rot' = [row |-> i, blk |-> disk[i], at |-> "migrate"]
    /\ rotations' = rotations + 1
    /\ UNCHANGED <<fileVars, dbs, backupVars, pc, runVars, historyVars, quiet,
                   edits, crashes>>

\* Mutant: the copied block is written back as it is, tombstones included.
RotationMigrates_KeepsBlock ==
    /\ rot # NoRotation
    /\ rot.at = "migrate"
    /\ IF rot.blk # NoMigrate
          THEN PersistMigrate(FirstRow, rot.blk)
          ELSE UNCHANGED fileVars
    /\ rot' = [rot EXCEPT !.at = "serve"]
    /\ UNCHANGED <<dbs, backupVars, pc, runVars, historyVars, quiet, boundVars>>

RotationMigrates ==
    /\ rot # NoRotation
    /\ rot.at = "migrate"
    /\ IF Host[rot.row] \in PGServer /\ Pending(rot.blk) /\ Host[rot.row] \notin DryRun
          THEN PersistMigrate(FirstRow, Failed(rot.blk))
          ELSE UNCHANGED fileVars
    /\ rot' = [rot EXCEPT !.at = "serve"]
    /\ UNCHANGED <<dbs, backupVars, pc, runVars, historyVars, quiet, boundVars>>

RotationServes ==
    LET i == rot.row IN
    /\ rot # NoRotation
    /\ rot.at = "serve"
    /\ \/ /\ Serves(i, rot.blk)
          /\ dbs' = EnsureDb(Host[i], i)
          /\ rot' = IF On(Host[i], i) = NoDb /\ i \in RestoreRow
                       THEN [rot EXCEPT !.at = "restore"]
                       ELSE NoRotation
       \/ /\ Serves(i, rot.blk)
          /\ {"provision", "connect"} \cap Faults # {}
          /\ dbs' \in {dbs, EnsureDb(Host[i], i)}
          /\ rot' = NoRotation
       \/ /\ ~ Serves(i, rot.blk)
          /\ rot' = NoRotation
          /\ UNCHANGED dbs
    /\ quiet' = (quiet /\ (dbs' = dbs \/ Undisturbed(Host[i], Name[i])))
    /\ UNCHANGED <<fileVars, backupVars, pc, runVars, historyVars, boundVars>>

RotationRestores ==
    LET i == rot.row IN
    /\ rot # NoRotation
    /\ rot.at = "restore"
    /\ \E c \in Restored(i) : dbs' = WithDb(Host[i], i, c)
    /\ rot' = NoRotation
    /\ quiet' = (quiet /\ (dbs' = dbs \/ Undisturbed(Host[i], Name[i])))
    /\ UNCHANGED <<fileVars, backupVars, pc, runVars, historyVars, boundVars>>

Rotator == RotationMigrates \/ RotationServes \/ RotationRestores

-----------------------------------------------------------------------------
(***************************************************************************)
(* The midnight backup goroutine.  Only each database's newest backup is   *)
(* kept here; older files and the copies in S3 are left out.               *)
(***************************************************************************)
\* startBackupScheduler: at midnight, load the file; the entries whose schedule
\* has come round, tombstones excepted, are dumped from what was loaded then.
StartBackups(D) ==
    /\ due = {}
    /\ D \subseteq {i \in BackupRow : ~ Tombstone(disk[i])}
    /\ due' = D
    /\ UNCHANGED <<fileVars, dbs, backup, pc, runVars, rot, historyVars, quiet,
                   boundVars>>

\* runBackups, one entry: the day's file becomes the newest one, unless the
\* dump fails, as it does when the database is not there.
BackupDatabase(i) ==
    /\ i \in due
    /\ \A j \in due : i <= j
    /\ due' = due \ {i}
    /\ \/ /\ On(Host[i], i) # NoDb
          /\ backup' = [backup EXCEPT ![Host[i]] =
                           [@ EXCEPT ![Name[i]] = On(Host[i], i)]]
       \/ /\ On(Host[i], i) = NoDb \/ "dump" \in Faults
          /\ UNCHANGED backup
    /\ UNCHANGED <<fileVars, dbs, pc, runVars, rot, historyVars, quiet, boundVars>>

Scheduler ==
    \/ \E D \in SUBSET BackupRow : StartBackups(D)
    \/ \E i \in Row : BackupDatabase(i)

-----------------------------------------------------------------------------
(***************************************************************************)
(* handleMigrateDatabase, under the lock.  An empty target clears the      *)
(* block; asking for the drop takes the database name typed back.          *)
(***************************************************************************)
ScheduleMigration(i, t, d) ==
    /\ edits < MaxEdits
    /\ ResolveTarget(t, Host[i])
    /\ disk' = [disk EXCEPT ![i] = Scheduled(t, d)]
    /\ changed' = TRUE
    /\ ordered' = IF d THEN ordered \cup {<<i, t>>} ELSE ordered
    /\ edits' = edits + 1
    /\ UNCHANGED <<dbs, backupVars, pc, runVars, rot, moved, quiet, rotations, crashes>>

ClearMigration(i) ==
    /\ edits < MaxEdits
    /\ disk' = [disk EXCEPT ![i] = NoMigrate]
    /\ changed' = TRUE
    /\ edits' = edits + 1
    /\ UNCHANGED <<dbs, backupVars, pc, runVars, rot, historyVars, quiet, rotations,
                   crashes>>

\* Applications change what a database holds: rows or tables come and go.
AppWrites(s, d) ==
    /\ dbs[s][d] # NoDb
    /\ \E c \in Content : dbs' = [dbs EXCEPT ![s] = [@ EXCEPT ![d] = c]]
    /\ quiet' = (quiet /\ (dbs' = dbs \/ Undisturbed(s, d)))
    /\ UNCHANGED <<fileVars, backupVars, pc, runVars, rot, historyVars, boundVars>>

\* The process dies with its goroutines and is started again: lastModTime is
\* zero, so the file counts as changed.
CrashAndRestart ==
    /\ crashes < MaxCrashes
    /\ crashes' = crashes + 1
    /\ changed' = TRUE
    /\ pc' = "idle"
    /\ row' = FirstRow
    /\ cfg' = [i \in Row |-> NoMigrate]
    /\ blk' = NoMigrate
    /\ fromBackup' = FALSE
    /\ rot' = NoRotation
    /\ due' = {}
    /\ quiet' = FALSE
    /\ UNCHANGED <<disk, dbs, backup, historyVars, edits, rotations>>

Environment ==
    \/ \E i \in Row, t \in Server, d \in BOOLEAN : ScheduleMigration(i, t, d)
    \/ \E i \in Row : ClearMigration(i)
    \/ \E s \in Server, d \in DbName : AppWrites(s, d)
    \/ \E i \in Row : RotateSecret(i)
    \/ CrashAndRestart

Next == Provisioner \/ Rotator \/ Scheduler \/ Environment

Spec == Init /\ [][Next]_vars

\* The provisioner's loop runs on, its external commands return, and so does
\* the reprovision goroutine; nobody has to edit, write or crash.
FairSpec == Spec /\ WF_vars(Provisioner) /\ WF_vars(Rotator)

-----------------------------------------------------------------------------
(***************************************************************************)
(* Safety                                                                  *)
(***************************************************************************)
\* The source is about to be dropped after a direct copy, and nothing else has
\* written to source or target since the target was checked: the target holds
\* exactly what the source does, even though psql's errors were ignored, the
\* source may have been empty and only row counts were compared.
DropLosesNothing ==
    pc = "drop" /\ quiet /\ ~ fromBackup =>
        Source # NoDb /\ Target = Source

\* A run loads over nothing but its own work, however often it is tried again:
\* the direct copy starts on the empty database the run created, and the fallback,
\* which may come after half a dump, on what that dump brought of the source.
LoadsOverOwnWork ==
    quiet =>
       /\ pc = "copy" => Target = EmptyDb
       /\ pc = "fallback" =>
             IF Source = NoDb THEN Target = EmptyDb
                              ELSE Target \in PartlyReplayed(EmptyDb, Source)

\* A tombstone in the file names a server that a run for that very entry
\* verified a copy on, whatever edits, crashes and failures came between.
TombstoneVerified ==
    \A i \in Row : Tombstone(disk[i]) => <<i, disk[i].target>> \in moved

\* A database goes away only when the operator asked for the drop of that entry
\* with that target, a run verified the copy, and the copy still exists.
DropsOnlyOnOrder ==
    [][\A s \in Server, d \in DbName :
          dbs[s][d] # NoDb /\ dbs'[s][d] = NoDb =>
             \E i \in Row, t \in Server :
                /\ Host[i] = s /\ Name[i] = d /\ t # s
                /\ <<i, t>> \in ordered \cap moved
                /\ dbs'[t][d] # NoDb]_vars

\* Migration implements the promise of Cutover.
Standing == {x \in Server \X DbName : dbs[x[1]][x[2]] # NoDb}
Rests == [i \in Row |-> IF Tombstone(disk[i]) THEN disk[i].target ELSE NoMigrate]

Cut == INSTANCE Cutover WITH
    Entry <- Row,
    HostOf <- Host,
    NameOf <- Name,
    Nowhere <- NoMigrate,
    standing <- Standing,
    proven <- moved,
    rests <- Rests

\* Seen as databases that stand, orders, proofs and tombstones, every run of
\* the provisioner is a run of Cutover: a source goes only by an ordered,
\* proven cutover whose copy stands, and a tombstone only names a proven copy.
ImplementsCutover == Cut!CutoverSpec

-----------------------------------------------------------------------------
(***************************************************************************)
(* The strengthening that makes the safety properties inductive            *)
(***************************************************************************)
RunStep == {"check", "provision", "copy", "fallback", "verify", "drop", "persist"}

\* Where the run is, and what it may rely on there.
RunInv ==
    /\ pc \in RunStep => row \in Row /\ blk \in Block
    /\ pc \notin RunStep => blk = NoMigrate
    /\ pc \in RunStep \ {"persist"} => ResolveTarget(blk.target, Host[row])
    /\ pc \in {"copy", "fallback", "verify", "drop"} => Target # NoDb
    /\ pc = "restore" => row \in Row

\* While nobody disturbs the run, the target is what the run made of it.
CopyInv ==
    /\ pc = "provision" /\ quiet => Target = NoDb
    /\ LoadsOverOwnWork
    /\ pc = "verify" /\ quiet /\ ~ fromBackup =>
          Source # NoDb /\ Target \in PartlyReplayed(EmptyDb, Source)
    /\ DropLosesNothing

\* Every completed block, in the file or about to be, was verified.
MovedInv ==
    /\ TombstoneVerified
    /\ pc = "drop" => <<row, blk.target>> \in moved
    /\ pc = "persist" /\ blk.completed => <<row, blk.target>> \in moved

\* Every block that drops its source was ordered by the operator.
OrderedBy(i, b) == b # NoMigrate /\ b.drop => <<i, b.target>> \in ordered
OrderInv ==
    /\ rot = NoRotation
    /\ \A i \in Row : OrderedBy(i, disk[i]) /\ OrderedBy(i, cfg[i])
    /\ pc \in RunStep => OrderedBy(row, blk)
    /\ pc = "drop" => blk.drop

-----------------------------------------------------------------------------
(***************************************************************************)
(* Liveness                                                                *)
(***************************************************************************)
\* A migration that was scheduled, has not run and would run.
Due(i) ==
    /\ Host[i] \in PGServer \ DryRun
    /\ Pending(disk[i])
    /\ ~ disk[i].error

\* A scheduled migration is carried out, or its error recorded, or cleared,
\* even when it was scheduled in the middle of a pass.
ScheduledIsSettled == \A i \in Row : Due(i) ~> ~ Due(i)

Attempts(i) == row = i /\ blk # NoMigrate

\* A migration that stays unfinished is tried again and again: writing the
\* error back is what wakes the watch loop.
RetriedWhilePending ==
    \A i \in Row :
        <>[](Host[i] \in PGServer \ DryRun /\ Pending(disk[i])) => []<>Attempts(i)

-----------------------------------------------------------------------------
(***************************************************************************)
(* What the documentation says and the code does not do                    *)
(***************************************************************************)
\* "processConfig ... with confirm_drop - source database is gone": an entry
\* whose tombstone records a successful drop has no source database.
TombstonedSourceGone ==
    \A i \in Row :
        Tombstone(disk[i]) /\ disk[i].drop /\ ~ disk[i].error =>
            On(Host[i], i) = NoDb

\* "Dropping the source is irreversible, so it takes the database name typed
\* back": a run that reaches the drop was ordered by the operator for that
\* entry and target.
DropTakesTypedName == pc = "drop" => <<row, blk.target>> \in ordered

=============================================================================
