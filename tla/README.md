# A verification project for homelab_db_provisioner

The provisioner reads a config file of servers and database entries and makes
the databases, roles, Secrets, backups and migrations that the file asks for.
This directory models it in TLA+, model-checks the models with TLC and proves
theorems about them with TLAPS.

## The system

One process, several goroutines, one config file under one lock (`configMu`),
and the database servers outside.

| Component | State | Operations | Interacts with |
|---|---|---|---|
| Config file (`main.go`) | servers, each with database entries; an entry has a backup block, a migrate block, a Secret name | load, rewrite as a whole | everything: all writers re-read and rewrite it under the lock |
| Watch loop (`main.go`) | `lastModTime` | stat every 10 s, load, `processConfig`; or once (`runOnce`) | woken by any write of the file, its own included |
| `processConfig` (`main.go`) | the configuration loaded at its start | a migration pass over all entries, then a provisioning pass over all servers | `runMigration`, provisioning, restore; also called by a Secret rotation with a configuration of one entry |
| PostgreSQL migration (`migrate.go`) | the run's copy of the migrate block, `fromBackup` | resolve, check, provision, dump and replay, fall back to a backup, verify, drop, persist | two servers, the backup files, the config file |
| Provisioning (`main.go`, `mongo.go`) | none of its own | role, database, owner, grants, extensions, restore on creation | the servers; runs in the watch loop and in a rotation's goroutine |
| Backups (`backup.go`, `mongo.go`, `s3.go`) | dated files per database, objects in S3 | at midnight dump, prune, upload, prune S3; find the newest; restore | servers, files, S3; read by migrations and `restore_on_create` |
| Kubernetes Secrets (`k8ssecrets.go`) | a Secret per entry that names one | claim a name, create, reconcile, rotate, connect string | the API server; read before provisioning and migrating |
| Admin UI (`admin.go`) | CSRF token, health cache | edit passwords, backups, migrations; add and move; rotate | the config file; starts the rotation's goroutine |
| JSON API (`api.go`) | none | create, read, update, delete servers and databases by index | the config file |

The hard behaviours are these. Two goroutines run `processConfig` at once with
different ideas of what index `(0, 0)` means. A run holds a copy of a migrate
block for as long as a dump takes, and writes it back over whatever the file
holds by then. The provisioning pass goes by blocks loaded before the migration
pass. psql's errors are ignored, so verification by row counts is the only gate
before an irreversible `DROP DATABASE`. A crash, or a file that cannot be
written, can come between the drop and the record of it. Failed work is retried
only because recording the failure touches the file. `PROJECT.json` lists each
hazard at its line.

What makes each component correct:

- **Migration**: nothing is lost by a drop; nothing is loaded over existing
  data; a tombstone means a verified copy; a drop was ordered; a scheduled
  migration is eventually settled, an unfinished one tried again.
- **Watch loop**: an edit made during a pass is not missed.
- **Provisioning**: repeating it is harmless; a failed entry does not stop the
  others; a database created for an entry is restored if it asks for it.
- **Backups**: the newest backup is complete; retention keeps the newest ones; a
  failed dump never removes a good file; databases do not share files.
- **Secrets**: the password in the database becomes the one in the Secret; two
  live entries never share one.
- **Config rows**: no update is lost; an edit addressed by index reaches the row
  it was made for.

## What is modelled now

| Module | What it is |
|---|---|
| `Contents` | what a database holds, as far as the code can tell: tables and rows; what replaying a dump leaves; the comparison by counts |
| `Migration` | the watch loop, both passes of `processConfig`, every step of `runMigration`, the rotation's goroutine, the midnight backup pass, the operator, the applications, crashes |
| `Cutover` | the abstract promise of a migration: databases stand, copies are proven, entries rest, and only an ordered and proven cutover takes a database away |
| `MCMigration` | three small instances for TLC, of one entry, of two servers and of two entries of one server |
| `MigrationProofs` | theorems about `Migration` and its refinement |
| `Backups` | dated backup files and their S3 copies: the midnight pass, retention, restores, crashes |
| `MCBackups` | two small instances for TLC |
| `Archive` | the abstract promise of the backups: a newest backup and a newest copy outside the disk, which only grow newer, but for a lost disk |
| `BackupsProofs` | theorems about `Backups` and its refinement |
| `Secrets` | passwords in Kubernetes Secrets: passes, rotations and moves against the API server and its other users |
| `MCSecrets` | two small instances for TLC |
| `SecretsProofs` | theorems about `Secrets` |
| `ConfigRows` | the rows of the config file under the forms of the admin UI, the JSON API, a migration's outcome and the operator's editor |
| `MCConfigRows` | a small instance for TLC |
| `Register` | the abstract promise of the config file: a register of rows on which each request takes effect in one step |
| `ConfigRowsLemmas` | what the operators of `ConfigRows` do to a file: rows that come, go and move, and the Secrets they name |
| `ConfigRowsProofs` | theorems about `ConfigRows` |
| `ConfigRowsRefinement` | that `ConfigRows` implements `Register` |
| `Provision` | provisioning statement by statement, on the three kinds of servers, in the watch loop and beside it |
| `MCProvision` | two small instances for TLC |
| `ProvisionProofs` | theorems about `Provision` |

`Migration` and `Backups` look at the same files from two sides: `Migration`
has the contents of a database's newest backup and who reads it, `Backups` the
dated files and whether they are whole. `Migration` and `Secrets` look at the
watch loop from two sides: `Secrets` only asks which password it reads and sets.
`ConfigRows` has the rows come and go that the others take as fixed, and
`Provision` the statements that `Migration` and `Secrets` take as one step.
Composing them is planned.

### How Migration follows the code

| State or action | Code |
|---|---|
| `disk`, `changed` | the migrate blocks in the file; its mtime is after `lastModTime` |
| `pc`, `row`, `cfg` | where `processConfig` is, at which entry, and the blocks it loaded |
| `blk`, `fromBackup` | `m` and `fromBackup` of `runMigration` |
| `rot` | the goroutine of `handleRotateSecret` and its copy of the entry |
| `backup`, `due` | newest backups; the entries left in the running midnight pass |
| `StatConfig`, `LoadConfig`, `EndPass` | `runWatchMode` |
| `SkipMigration`, `StartMigration`, `EndMigrationPass` | the migration pass |
| `CheckTarget`, `ProvisionTarget`, `MigrateData`, `RestoreFallback`, `Verify`, `DropSource`, `Persist` | `runMigration` from top to bottom; `Fail` is its closure `fail`, whose persist is the same step as the successful one |
| `SkipServer`, `ServeSkip`, `ServeDatabase`, `ServeRestore` | the provisioning pass |
| `RotateSecret`, `RotationMigrates`, `RotationServes`, `RotationRestores` | the rotation's `processConfig` on one entry: its migration always fails in `resolveTargetServer` and is persisted at `(0, 0)` |
| `StartBackups`, `BackupDatabase` | `startBackupScheduler`, `runBackups` |
| `ScheduleMigration`, `ClearMigration` | `handleMigrateDatabase` |

A step of the model is what the code does between two moments at which another
goroutine, another process or a crash can matter: one SQL statement or external
command, or one critical section of `configMu`.

Abstractions, all deliberate:

- A row is an element of `Record`, a table a set of them; only what counting and
  whole-table copying can tell apart is kept.
- A dump reads one snapshot, so dump and replay are one step. What psql makes of
  it is any subset of the tables, each with its rows or without them. A row that
  is loaded twice counts once.
- pg_dump's messages alone decide whether a run falls back to a backup, so the
  fallback may come after any part of the dump has been loaded. What is then in
  the target is a mix, of which the code only asks that it is not empty.
- Source and target are counted in one step. Writes between the two counts only
  matter to properties that speak of undisturbed databases.
- `provisionPostgreSQL` is reduced to the existence of the database; a failure
  may come before or after `CREATE DATABASE`.
- Servers and entries are fixed, and the entries of a server are consecutive, as
  in the file. Only migrate blocks change.
- A database has one backup, the newest; a backup appears at once. One rotation
  runs at a time.
- `ordered`, `moved` and `quiet` are history: what operators asked for, what
  runs verified, and whether anybody else wrote to the run's databases since the
  target was checked. Behaviour never depends on them. An order stays in
  `ordered` when the operator withdraws it while its run is under way: the run
  goes by its own copy of the block.
- `DropLosesNothing` and `LoadsOverOwnWork` are stated for runs that nobody else
  disturbs (`quiet`), the first also only for copies made directly from the
  source. A rotation, another entry's provisioning or an application that writes
  to the two databases ends the promise, because the code has nothing against it.

### How Backups follows the code

| State or action | Code |
|---|---|
| `files[f][d]`, `objects[f][d]` | the file of folder `slug/database` and date `d`, and its object: absent, partial or whole |
| `todo`, `stage` | the turns left in `runBackups`, and where the dump at hand is |
| `rst` | the restore: listing S3, downloading, loading |
| `Turns`, `Dumps` | the loops of `runBackups` and `mongoDBBackupSchedule`; every MongoDB server goes through the entries of all of them |
| `StartNight`, `OpenFile`, `Dump`, `Prune`, `Upload`, `PruneS3` | `startBackupScheduler` and `runBackups` from top to bottom |
| `StartRestore`, `FetchNewest`, `Fetched`, `Load` | `findNewestBackup`, `downloadNewestFromS3`, `restoreDatabase` |
| `CrashAndRestart` | the process dies and starts again, with or without a volume that keeps the files |

A step ends where another goroutine can see the folder: after the file is
created, after the dump, after retention, after the upload. Removing several
files is one step whose outcome is any subset of them, which stands for failed
removals and for a crash half way. Which entries a night dumps (enabled, daily
or weekly, not migrated away) is any subset. One restore runs at a time, and
every restore may begin at any time. `kept`, `best` and `cut` are
history. `cut` has the folders of which a restore was shown only the first page:
`downloadNewestFromS3` asks for no second one, so it may take an older object, which
then shadows the newer ones as the newest local file. `RestoresNewest` leaves these
folders out, until the disk is lost; without that clause it fails in `backups`.

`Archive` forgets files, folders and turns. `NewestOf` and `CopiedOf` map
`Backups` to it: the date of the newest whole file or object of a folder, and of
its newest object. A dump that succeeds is `BackUp`, an upload `CopyOut`, a crash
without a volume `LoseDisk`; opening a file, retention, downloads and failures
change neither date.

### How Secrets follows the code

| State or action | Code |
|---|---|
| `config`, `changed`, `cfg` | the rows in the file, whether its mtime is after `lastModTime`, and the rows the loop has loaded |
| `store`, `version` | the Secrets of the namespace, and their `resourceVersion` |
| `role` | the password of each entry's database role |
| `act[a]` | what actor `a` is doing: the entry, the row it read, the Secret it read, the password it holds |
| `Begin`, `Get`, `Create` | `applyK8sPassword`, `reconcilePassword` and `createSecret`, in whichever actor calls them |
| `Mine`, `Content`, `Accepted`, `Write` | the label check of `managedSecret`, `secretData`, and a create or update that the API server takes, refuses or leaves unanswered |
| `Alter` | `CREATE USER` or `ALTER USER` with the password |
| `LoadConfig`, `Leave` | `runWatchMode`, and the loop of `processConfig` over entries |
| `StartRotation`, `ReadForRotation`, `WriteRotation` | `handleRotateSecret` and `rotateSecret`; after the write `Begin` is its goroutine |
| `Claimed`, `StartMove`, `WriteConfig` | `claimSecretName`, `handleMoveToSecret` |
| `SetPassword` | `handleUpdatePassword` |
| `Kubectl` | somebody else creates or deletes a Secret |

A step is one call of the API server, one SQL statement, or one critical section
of `configMu`. The handler of a move holds the lock across its calls, so it is
one actor, and `Unlocked` keeps the readers and writers of the file out; a
rotation only reads the file under the lock, so any number of them may run. A
password is the number it was generated as, and a connection string is the
password in it: its server and database are left out. Every Secret the
provisioner made has a password; whether an entry wants a connection string does
not change, but Secrets from before it did are among the initial states. A load
of the file always succeeds here; `Migration` has the load that fails.

### How ConfigRows follows the code

| State or action | Code |
|---|---|
| `file` | the servers and their rows in the config file, or `Unreadable`: not JSON |
| `at[w]`, `req[w]` | what a writer of the file is doing: it has seen the file and made its request, it holds `configMu` |
| `copy[w]` | the configuration that a handler or `persistMigrate` has read |
| `AskForRow`, `AskForServer`, `AskOfServer` | a form of the page that `handleIndex` rendered, or a call of the API with the indices that its reads gave |
| `RunMigration` | a migration begins for a row of the configuration that was loaded |
| `Enter`, `Refuse` | the head of every handler: lock, read, check the indices, `staleRow`, `resolveTargetServer`, `claimSecretName`, unique names |
| `UpdateDatabase` | `handleUpdatePassword`, `handleGeneratePassword`, `handleUpdateBackup`, `handleAPIUpdateDatabase` |
| `MoveToSecret`, `ScheduleMigration`, `ClearMigration` | `handleMoveToSecret`, `handleMigrateDatabase` |
| `AddDatabase`, `AddServer` | `handleAddDatabase` and `handleAPICreateDatabase`, `handleAddServer` and `handleAPICreateServer` |
| `DeleteDatabase`, `DeleteServer`, `RenameServer` | the other calls of the API |
| `PersistMigrate` | `persistMigrate`, at the indices the pass had loaded |
| `WriteFails` | `os.WriteFile` fails, or the Secret of a move cannot be made |
| `HandEdit` | the operator's editor, which takes no lock |
| `CrashAndRestart` | the process dies; a file that was being written may be cut short |

Reading under the lock and writing are two steps, so that the lock has something
to exclude; the checks go with the read, of which they are a function. A request
may wait for any time between the page it was made from and the handler: that is
where rows shift. `IndicesHold` promises nothing once a row or server is deleted:
calls of the API, as its documentation says, and a migration's outcome, as it does
not, then go to whatever row has come to their indices. A row's `id` is history,
never read by behaviour: it says which row this is whatever its place and name, and
it is what the properties are about, as are `named`, `rested`, `shifted` and `byHand`. What a request sets in a row
(password, permissions, backup block) is one value, the request's ticket. A
migrate block is none, pending or done; its target is checked and not kept, since
`Migration` has it. All servers are PostgreSQL. Of the migrations of a pass one
is followed: it may wait as long as the others take.

`Register` forgets places, names and the lock: what a request finds (`SeenOf`) is
what the writer inside has read, or else the file, and a row is its own content.
Entering is no step there, writing is `Apply`, a refusal or a failed write
`Decline`. The two differ, and an edit by hand can be lost, only while somebody is
inside; that is when `disk` and `seen` of `Register` differ.

### How Provision follows the code

| State or action | Code |
|---|---|
| `config`, `changed`, `cfg` | the password of each entry in the file or its Secret, whether the file's mtime is new, what the loop has loaded (of an entry whose password is in a Secret: none) |
| `act[a]` | which statement of which entry the watch loop, or the goroutine of a rotation, comes to, and what its checks found |
| `role`, `dbs`, `access`, `skewed` | the servers: users with their passwords, databases, who may use which, servers whose `template1` has an old collation version |
| `Script` | the order of the statements of `provisionPostgreSQL`, `provisionMariaDB`, `provisionMongoDB` |
| `SkipDryRun`, `Begin`, `ConnectFails`, `GivesUp` | the loops of `processConfig` over servers and entries with their `continue`s, `applyK8sPassword`, `connectWithRetry` |
| `CheckUser`, `SetUser`, `CheckDb`, `SetPostgreSQLDb`, `RefreshTemplate`, `Grant`, `Extend` | the statements for PostgreSQL, in which creation may find a collation mismatch |
| `SetMariaDb` | `CREATE DATABASE IF NOT EXISTS` |
| `DropUser`, `SetMongoDb` | `dropUser`, whose answer is not looked at, and the insertion of the document `provisioned` |
| `Restore` | `restore_on_create`, which is only reached when all went well |
| `RotateSecret` | `handleRotateSecret` and its `processConfig` of one entry |

Every statement is a step of its own, because another pass, another failure or a
crash can come between any two. It may fail without effect (`Fails`), or take
effect and be taken for a failure (`Executed`); on the servers of `Faulty` as
often as it likes, elsewhere within the budget `MaxFaults` that crashes share.
Lists of permissions and of extensions are one statement, `FLUSH PRIVILEGES` goes
with the grant, and a database's content is only whether it came to its restore.
Migrated entries, which a pass skips, are left to `Migration`, and reading and
writing a Secret is one step here, which `Secrets` takes apart.

One thing about MongoDB is a constant. `provisionMongoDB` asks that the list of
databases be an `[]interface{}`, and gives up on the entry when it is not
(mongo.go:37). Which type a decoded array has is up to the driver, which is not
in the repository; its documentation says `primitive.A`, another type, with which
no MongoDB database would ever be provisioned. `Decodes` stands for the answer;
the runs take it as the code expects it, to reach what follows, and `Converges`
claims nothing for MongoDB otherwise. The driver decides one more thing: `dropUser`
and `createUser` are given to `RunCommand` as maps of several keys (mongo.go:58,
mongo.go:64), which a driver may refuse because a map has no order. `DropUser` and
`SetUser` take them as sent.

## The runs

Every passing run of `Migration` starts from every combination of contents, including targets
that exist already, and every combination of pending blocks.

| Run | Instance and bounds | Shows |
|---|---|---|
| `single` | one entry, two servers, one table, two rows, all eleven faults, backups, restore on create, one edit, one crash | `TypeOK`; `DropLosesNothing`; `LoadsOverOwnWork`; `TombstoneVerified`; `DropsOnlyOnOrder`; `ImplementsCutover` |
| `rotation` | a database of one name on both servers, each the other's target, with a rotation of the second entry's Secret, which is backed up and restored on creation; psql errors, no edits | `TombstoneVerified` with a second `processConfig`, which stores its failure at `(0, 0)` in the middle of the first one's run |
| `live` | two entries of one server, failing targets and drops, one edit, one crash, no rows | `ScheduledIsSettled`, `RetriedWhilePending` |
| `secrets` | two entries of which one wants connection strings, one name, one rotation; a failed or unanswered call, an outside change, an edit, a crash | `TypeOK`, `StringMatches`, `OnlyRotationsChange`, `ForeignUntouched`, `PassPicksUp` |
| `backups` | a PostgreSQL server and a MongoDB server with a database each, keeping one and two files, S3 pages of two keys, three nights, two crashes | `TypeOK`, `RetainsBackup`, `ObjectsWhole`, `RestoresNewest`, `ImplementsArchive` |
| `rows` | two servers with a database of one name on both and a second one on the first, one Secret, one pending migration; two requests of two clients, an edit by hand or a crash | `TypeOK`, `NoLostUpdate`, `FormsHitTheirRow`, `IndicesHold`, `SharedThroughTombstone`, `ImplementsRegister` |
| `provision` | an entry on each of a MariaDB server that fails at will, a PostgreSQL whose `template1` is outdated, a MongoDB and a dry-run server, from nothing and from databases and users that exist; one rotation, one edit, one failure or crash | `TypeOK`, `RestoresOwnCreation`, `Converges` |

Why the bounds are enough to be interesting. Two rows make contents with equal
counts that differ, so the properties cannot hold because counting happened to
be exact. Two entries are needed for runs that share a database, for indices
that mean another entry, and for an edit to an entry that the pass has gone by.
One edit, one crash and one rotation can each fall at any step. In `backups`
three nights let retention remove a file, a failed night fall between two good
ones, and a folder outgrow a page of two keys; two crashes can lose the files
and then interrupt what restores them. In `secrets` two entries can be moved to
one name, one after the other's move has failed, and every fault can fall
between any read and its write. In `rows` two requests and a migration's outcome
are enough for each to be stale by the other, or by the edit; a name that both
servers have is what `staleRow` could mistake, and a deleted row is what shifts
indices. In `provision` one failure or crash can fall at any statement of a pass,
and one server fails for ever; the rotation's pass meets the loop's at any pair of
statements. The theorems remove the bounds for
safety. `CHECK_DEADLOCK FALSE` is set because the watch
loop rests when the file does not change and applications need not write, and
because nights, rotations and edits are bounded.

### Where the code and its documents differ

Each of these runs expects a violation and has an entry under `findings`.

| Run | The documents say | The run shows |
|---|---|---|
| `dropped_source` | after a drop the source database is gone | the same pass provisions it again, empty |
| `rotate_race` | after a rotation the provisioner picks up the new password | a pass that had read the old one sets it last, and no later pass comes |
| `restore_lost` | a backup is restored into a database the first time it is created | when provisioning fails after the creation, it never is |
| `mongo_backups` | `keep_count` files are retained | with two MongoDB servers a second, failing dump removes the last file |
| `rotated_block` | a drop takes the database name typed back | a rotation copies a drop order to the first entry |

Two more differences have no run. A restore from a folder that fills more than one
page of S3 takes an older object than the newest (README.md:649 of the repository
speaks of the newest available backup): `RestoresNewest` says where it holds. And
after a backup fallback nothing is compared with the source before a drop
(README.md:379 speaks of a verified copy): `DropLosesNothing` is about direct copies.

### Fairness

`FairSpec` assumes that the provisioner's goroutine and the rotation's goroutine
take steps while they can (`WF_vars(Provisioner)`, `WF_vars(Rotator)`). The
watch loop justifies the first: it sleeps ten seconds and goes on for ever, and
inside a pass control only moves forward. It presumes that statements and
external commands return; pg_dump has no timeout in the code, so a hung command
is outside the claim. Nothing is assumed of operators, applications, the backup
scheduler or crashes. `RetriedWhilePending` says that an entry which stays
pending is tried again and again; it holds because a failed run writes its error
to the file and thereby wakes the loop, so it fails when the file cannot be
written, and that fault is left out of the run. `ScheduledIsSettled` likewise
needs a file that can be read, since `lastModTime` is taken before the load.

In `Secrets` the watch loop, the handler of a move and the goroutine of each
rotation take steps while they can; their calls to the API server have a timeout
of ten seconds, and what times out is a failure. `PassPicksUp` promises nothing
about operators: it says what a changed file leads to once rotations are done,
no move can start and no more calls fail. Without the changed file it does not
hold, which is what `rotate_race` shows.

In `Provision` the watch loop and the rotation's goroutine go on while they can
(`WF_vars(LoadConfig \/ Pass("loop"))`, `WF_vars(Pass("rotator"))`): their
statements answer or fail. `Converges` starts from a changed file when rotations
and failures on the entry's own server are over, and is the sense in which the
provisioner is idempotent: it needs that a half-done pass can always be finished,
and that a server which fails for ever does not keep the pass from the rest. In
the run it is checked of two entries, on PostgreSQL and on MongoDB (where the list of
databases decodes), both with their password in a Secret; the MariaDB server is the
one that fails for ever, so of it, and of passwords in the file, nothing is shown.
`ConfigRows` states no liveness: a request is answered or lost with its client.

## What is proved

`MigrationProofs` proves, for any entries, servers, tables, rows, faults and
bounds:

- `TypeCorrect`, `DropIsSafe`, `NeverLoadsOverOthers`, `TombstonesAreVerified`:
  `TypeOK`, `DropLosesNothing`, `LoadsOverOwnWork` and `TombstoneVerified`, with
  rotations and crashes;
- `DropsAreOrdered`, `DropsOnOrderOnly`, `MigrationImplementsCutover`: these
  assume `MaxRotations = 0`, because `rotated_block` shows that a rotation
  breaks the first of them.

The assumptions are those on the constants: there is at least one entry, every
entry has a server and a name, `Record` is finite, and the null values differ
from what they stand beside.

The argument. None of the properties is inductive. `RunInv` says where the run
is and what it holds there: an entry, a block, a target that is another
PostgreSQL server, and a target database that exists from the copy on. `CopyInv`
follows the undisturbed run: no target when it is provisioned, an empty one when
it is filled, at most a partial replay of the source when a backup is replayed over
it, and at the verification of a direct copy a partial replay. The key lemma
is that a partial replay with the same tables and the same counts is the whole
source: each table then holds a subset of the source's rows of equal size, and
tables are finite. `MovedInv` carries "verified" from `Verify` to the file, through
crashes and lost writes. `OrderInv` carries the operator's order into every copy
of the block: the file, the loaded configuration, the run. For the refinement
each action is mapped to a step of `Cutover` or to a stutter, and
`DropsOnOrderOnly` follows from it, since only `Vanish` takes a database away.

`BackupsProofs` proves, for any servers, entries, folders, retention, page size,
nights and crashes:

- `TypeCorrect`;
- `BackupsAreRetained`, `ObjectsAreWhole`, `NewestIsRestored` and
  `BackupsImplementArchive`: `RetainsBackup`, `ObjectsWhole`, `RestoresNewest` and
  `ImplementsArchive`, assuming `OneDumpPerNight`: no entry below one of several
  MongoDB servers, and no two entries that share a folder. `mongo_backups` shows
  that the first cannot be kept without it.

The argument. `RetainsBackup` is not inductive: while a dump overwrites the
day's file nothing says that another one is whole. `StoreInv` adds that nothing
bears a future date (`FutureInv`), that a turn not yet begun finds neither file
nor object of its date (`AheadInv`), so opening the day's file destroys nothing;
that the day's file is whole from the dump to the upload and its object from
then on (`TurnInv`), so that retention, which never takes the newest
(`NewestStays`), leaves a whole one; and that a download writes only over files
whose object is whole (`FetchInv`, `ObjectsWhole`). `KeptInv` is then preserved:
each folder holds a whole backup besides the file being written.

`RestoresNewest` is about dates: the file that is loaded may be the one of an
interrupted dump, which the search cannot tell from a whole one. When a restore
finds no file it lists S3 in a later step, and between the two the midnight pass
dumps, uploads and prunes. `LeadInv` says that the local files of a folder that is
not in `cut`, but for one that is being dumped, reach as far as its objects, if there
are any, so that looking here first never misses a newer object; `CopyInv` that an
uploaded file stays while the objects are pruned; and `RestInv` that a restore has
found, or still finds in S3, something as new as what there was, or has been shown
only a part of the listing.

For `Archive` each step is mapped to one of its actions or to a stutter. What
could make the newest backup older is an open or failed dump over the day's whole
file, excluded by `DumpInv` (it is not whole before its dump is); retention, which
keeps the newest; and a download that writes a file. What could make it newer by
anything but a dump is a download: `FetchOldInv` says that it brings nothing newer
than what there is, and `FetchDayInv` that it brings the day's only when the
folder's turn is over, so the dump is always the first with its date.

`SecretsProofs` proves, for any entries, names, rotations, faults, outside
changes and crashes, without further assumptions: `TypeCorrect`, `StringsMatch`
(`StringMatches`), `PasswordsChangeByRotation` (`OnlyRotationsChange`) and
`OthersAreLeftAlone` (`ForeignUntouched`).

The argument. `StringMatches` is not inductive: a rotation for an entry that
wants no string writes a new password beside an old string. `StringInv` says it
of every Secret that no such entry names. It needs that names are never shared
and never change (`FileInv`), that what an actor writes to is still its entry's
or, for a move, nobody's (`Names`), and that what it is about to write fits what
it has read (`Copies`): nothing for a creation, the same password for a
backfill. As a write is taken only if the Secret is what was read, the two
action properties follow from `Copies`.

`ConfigRowsProofs` proves, for any clients, names, initial files, requests, edits
by hand and crashes:

- `LockHolds`, `UpdatesAreKept` (`NoLostUpdate`) and `TypeCorrect`;
- `IndicesHoldAlways` (`IndicesHold`) and `FormsHitAlways` (`FormsHitTheirRow`);
- `SharedOnlyThroughTombstones` (`SharedThroughTombstone`), assuming `SecretsApart`:
  in the files the operator writes, each live row that names a Secret names one of
  its own. Nothing in the code looks at such a file as a whole, so without it the
  property fails in the first state; `rows` starts from files that satisfy it.

The argument. The action properties speak of the moment of writing only; `LockInv`
carries `NoLostUpdate` there: one writer at a time is past the lock (`Mutex`), and
from its read to its write its copy is the file or the file was edited by hand
(`Fresh`). That a well-formed file comes of every write needs that what is inside
was accepted (`InsideInv`) and that a request suits its operation (`SuitInv`).
`IndexInv` says that the indices of a request lead to its row as long as nothing
has shifted them; each of the ten ways to write a file is shown to keep every
other row's place or to shift, and `HandInv` says that while a writer is inside
over an edit by hand no request has indices to rely on. Forms rely on names
instead: `HistoryInv` says that every name that a row of the file, or of a copy,
bears is remembered, so the row that `staleRow` finds under the names of the form
is the form's own if no other has borne them. `SharedInv` says of the file and of
every copy that two live rows share a Secret only if one is remembered as a
tombstone; it is kept because `claimSecretName` passes over nothing but
tombstones, and `HistoryInv` remembers all of them. `ConfigRowsLemmas` has the
facts these proofs share: what adding, removing and changing a row does to the
places of the others, and which Secrets a file names before and after.

`ConfigRowsRefinement` proves `ConfigRowsImplementRegister` (`ImplementsRegister`),
without `SecretsApart`. It says at once what `NoLostUpdate` and the checks of the
handlers are for: a request takes effect on the very rows it has checked, changes
one of them, or only takes rows away when a server is deleted, and takes no Secret
that a live row names at that moment. `Mutex` makes the copy of the writer inside the register
(`FoundHolds`); what each of the ten ways to write makes of the rows is the part
`Lands` of `Effect` in `ConfigRowsLemmas`.

`ProvisionProofs` proves, for any servers, entries, failures, rotations and
crashes: `ActorsStayRooted` (the invariant), `TypeCorrect`, and
`OnlyOwnCreationsAreRestored` (`RestoresOwnCreation`). That a pass which comes to
its restore without having seen the database has made it is not inductive: what
it saw may be stale. `Rooted` says for every statement what is left of the
check. For PostgreSQL nothing is needed, as `CREATE DATABASE` fails when another
pass was first. For MongoDB the database is still absent or holds the document
`provisioned`, so a second insertion fails; that needs that databases never go
away and documents stay (`Grows`). MariaDB's `IF NOT EXISTS` tells nothing, so
there the database must still be absent, which only holds while no rotation's
pass runs. That a visit follows its script (`Stands`) rests on lemmas about the
order of the statements (`PostgresOrder`, `MariaOrder`, `MongoOrder`).

Only model-checked: the four liveness properties `ScheduledIsSettled`,
`RetriedWhilePending`, `PassPicksUp` and `Converges` (fairness and `ENABLED` are
out of the prover's reach) and the five violations. Every invariant, every
action property and the three refinements that the passing runs check are theorems,
`ImplementsCutover` and `DropsOnlyOnOrder` without rotations and
`RestoresOwnCreation` as far as the code keeps it.

## What is not modelled yet, and the plan

In this order:

1. Theorems: the migration's with rotations, as far as they hold; an abstract
   store of passwords that `Secrets` implements.
2. `Secrets` further: the password of a Secret that a tombstone shares with its
   migrated entry; `requires_connect_string` that is switched on and off; the
   database a connection string names.
3. `Migration` again with a step for each of the two counts and with rows that
   move, composed with `ConfigRows` and `Backups`.
4. `Backups` further: a run that shows the restore of a partial file.
5. The run-once mode: one pass, after which the process ends.

Not planned: HTML and JSON formatting, authentication, health badges, password
generation and quoting (no state, or only text), and packaging.
