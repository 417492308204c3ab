------------------------------- MODULE Backups -------------------------------
(***************************************************************************)
(* Backups of the databases: every midnight the scheduler dumps the        *)
(* entries that are due into dated files, prunes old files, copies the new *)
(* file to S3 and prunes there.  Meanwhile the provisioner restores a      *)
(* database it has just created, or fills a migration's target, from the   *)
(* newest backup it finds.                                                 *)
(*                                                                         *)
(* A file is named by its folder (server slug, database) and its date.     *)
(* Only whether it is whole matters here, not what it holds.  Any step may *)
(* fail.  One restore runs at a time.                                      *)
(***************************************************************************)
EXTENDS Integers, FiniteSets, FiniteSetsExt

CONSTANTS
    NServers,       \* number of servers, in the order of the file
    NEntries,       \* number of database entries with backups
    Host,           \* Host[i]: the server that entry i sits under
    MongoServer,    \* the MongoDB servers
    Folder,         \* the folders "slug(server)/database"
    FolderOf,       \* FolderOf[i]: where entry i's backups go
    Keep,           \* Keep[i]: keep_count of entry i, 0 keeps all
    HasS3,          \* an s3 block is configured
    PageSize,       \* how many keys a listing returns at most
    NoRestore,      \* no restore is running
    MaxDay,         \* bound: nights
    MaxCrashes      \* bound: crashes of the provisioner

SqlOrMongo == 1..NServers
Entry == 1..NEntries
Day == 1..MaxDay

ASSUME EntriesAssumption ==
    /\ NServers \in Nat /\ NEntries \in Nat
    /\ Host \in [Entry -> SqlOrMongo]
    /\ MongoServer \subseteq SqlOrMongo
    /\ FolderOf \in [Entry -> Folder]
    /\ Keep \in [Entry -> Nat]
ASSUME StorageAssumption == HasS3 \in BOOLEAN /\ PageSize \in Nat \ {0}
ASSUME NightsAssumption == MaxDay \in Nat /\ MaxCrashes \in Nat

\* Absent, being written or left unfinished, or complete.
File == {"none", "partial", "whole"}

Restore == [entry : Entry, at : {"list", "fetch", "load"}, day : 0..MaxDay,
            body : File]
ASSUME NoRestoreAssumption == NoRestore \notin Restore

VARIABLES
    day,        \* today's date
    files,      \* the local files of each folder, by date
    objects,    \* the objects of each folder in S3, by date
    todo,       \* <<server, entry>>: the dumps left in the running night
    stage,      \* how far the dump at hand is
    rst,        \* the running restore
    kept,       \* history: folders that once held a whole backup
    best,       \* history: the newest whole backup when the restore began
    cut,        \* history: folders of which a restore was listed only a part
    crashes

vars == <<day, files, objects, todo, stage, rst, kept, best, cut,
          crashes>>

TypeOK ==
    /\ day \in 0..MaxDay
    /\ files \in [Folder -> [Day -> File]]
    /\ objects \in [Folder -> [Day -> File]]
    /\ todo \subseteq SqlOrMongo \X Entry
    /\ stage \in {"sleep", "open", "dump", "prune", "upload", "pruneS3"}
    /\ stage = "sleep" <=> todo = {}
    /\ rst \in Restore \cup {NoRestore}
    /\ kept \subseteq Folder
    /\ best \in 0..MaxDay
    /\ cut \subseteq Folder
    /\ crashes \in 0..MaxCrashes

-----------------------------------------------------------------------------
(***************************************************************************)
(* Dated files                                                             *)
(***************************************************************************)
Put(store, f, d, x) == [store EXCEPT ![f] = [@ EXCEPT ![d] = x]]
Without(store, f, D) ==
    [store EXCEPT ![f] = [d \in Day |-> IF d \in D THEN "none" ELSE @[d]]]

Present(fs) == {d \in Day : fs[d] # "none"}
Wholes(fs) == {d \in Day : fs[d] = "whole"}

\* What one listing of a prefix returns: the first keys in their order.
Page(fs) == {d \in Present(fs) : Cardinality({e \in Present(fs) : e < d}) < PageSize}

\* Mutant: retention takes the newest files.
Excess_Newest(D, k) ==
    IF k = 0 THEN {} ELSE {d \in D : Cardinality({e \in D : e < d}) >= k}

\* selectKeysToDelete, pruneBackups: all but the newest k, none when k is 0.
Excess(D, k) ==
    IF k = 0 THEN {} ELSE {d \in D : Cardinality({e \in D : e > d}) >= k}

-----------------------------------------------------------------------------
(***************************************************************************)
(* The scheduler's goroutine                                               *)
(***************************************************************************)
\* The dumps a server of the list triggers: its own entries, but a MongoDB
\* server calls mongoDBBackupSchedule, which goes through all of them.
Dumps(s, i) == IF s \in MongoServer THEN Host[i] \in MongoServer ELSE Host[i] = s
Turns(D) == {t \in SqlOrMongo \X D : Dumps(t[1], t[2])}

\* The dump at hand is the next one in the order of the file.
IsNext(t) ==
    /\ t \in todo
    /\ \A u \in todo : t[1] < u[1] \/ (t[1] = u[1] /\ t[2] <= u[2])

\* Mutant: the scheduler does not notice that the night is over.
Finish_StaysAwake(t) == todo' = todo \ {t} /\ stage' = "open"

\* The next dump of the night, or sleep until the next midnight.
Finish(t) ==
    /\ todo' = todo \ {t}
    /\ stage' = IF todo = {t} THEN "sleep" ELSE "open"

Init ==
    /\ day = 0
    /\ files = [f \in Folder |-> [d \in Day |-> "none"]]
    /\ objects = [f \in Folder |-> [d \in Day |-> "none"]]
    /\ todo = {} /\ stage = "sleep"
    /\ rst = NoRestore
    /\ kept = {} /\ best = 0 /\ cut = {}
    /\ crashes = 0

\* Midnight: load the file; D are the entries enabled, not migrated away and
\* due today by their schedule.
StartNight(D) ==
    /\ stage = "sleep"
    /\ day < MaxDay
    /\ day' = day + 1
    /\ todo' = Turns(D)
    /\ stage' = IF Turns(D) = {} THEN "sleep" ELSE "open"
    /\ UNCHANGED <<files, objects, rst, kept, best, cut, crashes>>

\* The day's file is created or truncated; a folder that cannot be made skips
\* the entry.
OpenFile(t) ==
    /\ stage = "open"
    /\ IsNext(t)
    /\ \/ /\ files' = Put(files, FolderOf[t[2]], day, "partial")
          /\ stage' = "dump"
          /\ UNCHANGED todo
       \/ /\ Finish(t)
          /\ UNCHANGED files
    /\ UNCHANGED <<day, objects, rst, kept, best, cut, crashes>>

\* Mutant: the file of a dump that failed is left behind.
Dump_KeepsFailed(t) ==
    /\ stage = "dump"
    /\ IsNext(t)
    /\ \/ /\ files' = Put(files, FolderOf[t[2]], day, "whole")
          /\ kept' = kept \cup {FolderOf[t[2]]}
       \/ UNCHANGED <<files, kept>>
    /\ stage' = "prune"
    /\ UNCHANGED <<day, objects, todo, rst, best, cut, crashes>>

\* The dump is complete, or it failed and the day's file is removed, if it can be.
Dump(t) ==
    /\ stage = "dump"
    /\ IsNext(t)
    /\ \/ /\ files' = Put(files, FolderOf[t[2]], day, "whole")
          /\ kept' = kept \cup {FolderOf[t[2]]}
          /\ stage' = "prune"
          /\ UNCHANGED todo
       \/ /\ \E x \in {"none", "partial"} : files' = Put(files, FolderOf[t[2]], day, x)
          /\ Finish(t)
          /\ UNCHANGED kept
    /\ UNCHANGED <<day, objects, rst, best, cut, crashes>>

\* pruneBackups, pruneMongoDBBackups: a file that cannot be removed is skipped.
Prune(t) ==
    LET f == FolderOf[t[2]] IN
    /\ stage = "prune"
    /\ IsNext(t)
    /\ \E R \in SUBSET Excess(Present(files[f]), Keep[t[2]]) :
          files' = Without(files, f, R)
    /\ IF HasS3 THEN stage' = "upload" /\ UNCHANGED todo
                ELSE Finish(t)
    /\ UNCHANGED <<day, objects, rst, kept, best, cut, crashes>>

\* uploadToS3: the day's file as it is now, when it can be opened.
Upload(t) ==
    LET f == FolderOf[t[2]] IN
    /\ stage = "upload"
    /\ IsNext(t)
    /\ \/ /\ files[f][day] # "none"
          /\ objects' = Put(objects, f, day, files[f][day])
          /\ stage' = "pruneS3"
          /\ UNCHANGED todo
       \/ /\ Finish(t)
          /\ UNCHANGED objects
    /\ UNCHANGED <<day, files, rst, kept, best, cut, crashes>>

\* pruneS3Backups: retention over one page of the listing.
PruneS3(t) ==
    LET f == FolderOf[t[2]] IN
    /\ stage = "pruneS3"
    /\ IsNext(t)
    /\ \E R \in SUBSET Excess(Page(objects[f]), Keep[t[2]]) :
          objects' = Without(objects, f, R)
    /\ Finish(t)
    /\ UNCHANGED <<day, files, rst, kept, best, cut, crashes>>

Scheduler ==
    \/ \E D \in SUBSET Entry : StartNight(D)
    \/ \E t \in todo :
          OpenFile(t) \/ Dump(t) \/ Prune(t) \/ Upload(t) \/ PruneS3(t)

-----------------------------------------------------------------------------
(***************************************************************************)
(* The provisioner's goroutine, in restoreDatabase or in the fallback of a *)
(* migration: findNewestBackup, then psql, mysql or mongorestore.          *)
(***************************************************************************)
\* The newest date of a set of files.
Newest(D) == IF D = {} THEN 0 ELSE Max(D)

\* Look for local files.
StartRestore(i) ==
    LET f == FolderOf[i]
        local == Present(files[f])
    IN /\ rst = NoRestore
       /\ \/ /\ local # {}
             /\ rst' = [entry |-> i, at |-> "load", day |-> Newest(local),
                         body |-> "none"]
          \/ /\ local = {}
             /\ HasS3
             /\ rst' = [entry |-> i, at |-> "list", day |-> 0,
                         body |-> "none"]
       /\ best' = Newest(Wholes(files[f]) \cup Wholes(objects[f]))
       /\ UNCHANGED <<day, files, objects, todo, stage, kept, cut, crashes>>

\* Mutant: the download starts from the first key of the listing.
FetchNewest_First ==
    /\ rst # NoRestore
    /\ rst.at = "list"
    /\ LET f == FolderOf[rst.entry]
           page == Page(objects[f])
       IN /\ page # {}
          /\ rst' = [rst EXCEPT !.at = "fetch", !.day = Min(page),
                                  !.body = objects[f][Min(page)]]
          /\ files' = Put(files, f, Min(page), "partial")
          /\ cut' = IF page = Present(objects[f]) THEN cut ELSE cut \cup {f}
    /\ UNCHANGED <<day, objects, todo, stage, kept, best, crashes>>

\* downloadNewestFromS3: the newest key of one page; its local file is created.
FetchNewest ==
    /\ rst # NoRestore
    /\ rst.at = "list"
    /\ LET f == FolderOf[rst.entry]
           page == Page(objects[f])
       IN \/ /\ page # {}
             /\ rst' = [rst EXCEPT !.at = "fetch", !.day = Newest(page),
                                  !.body = objects[f][Newest(page)]]
             /\ files' = Put(files, f, Newest(page), "partial")
             /\ cut' = IF page = Present(objects[f]) THEN cut ELSE cut \cup {f}
          \/ /\ rst' = NoRestore
             /\ UNCHANGED <<files, cut>>
    /\ UNCHANGED <<day, objects, todo, stage, kept, best, crashes>>

\* The body is copied into the local file, unless retention removed that file;
\* a copy that fails leaves what it has written.
Fetched ==
    /\ rst # NoRestore
    /\ rst.at = "fetch"
    /\ LET f == FolderOf[rst.entry]
       IN \/ /\ rst' = [rst EXCEPT !.at = "load"]
             /\ files' = IF files[f][rst.day] = "none" THEN files
                         ELSE Put(files, f, rst.day, rst.body)
          \/ /\ rst' = NoRestore
             /\ UNCHANGED files
    /\ UNCHANGED <<day, objects, todo, stage, kept, best, cut, crashes>>

\* The file is opened and replayed.
Load ==
    /\ rst # NoRestore
    /\ rst.at = "load"
    /\ rst' = NoRestore
    /\ best' = 0
    /\ UNCHANGED <<day, files, objects, todo, stage, kept, cut, crashes>>

Restorer == (\E i \in Entry : StartRestore(i)) \/ FetchNewest \/ Fetched \/ Load

-----------------------------------------------------------------------------
\* The process dies and is started again at any time before the next midnight;
\* without a volume the local files are gone.
CrashAndRestart ==
    /\ crashes < MaxCrashes
    /\ crashes' = crashes + 1
    /\ todo' = {} /\ stage' = "sleep"
    /\ rst' = NoRestore
    /\ best' = 0
    /\ \/ UNCHANGED <<files, kept, cut>>
       \/ /\ cut' = {}
          /\ files' = [f \in Folder |-> [d \in Day |-> "none"]]
          /\ kept' = {f \in Folder : Wholes(objects[f]) # {}}
    /\ UNCHANGED <<day, objects>>

Next == Scheduler \/ Restorer \/ CrashAndRestart

Spec == Init /\ [][Next]_vars

-----------------------------------------------------------------------------
(***************************************************************************)
(* Properties                                                              *)
(***************************************************************************)
\* A folder that once held a whole backup always holds one, locally or in S3,
\* however dumps, uploads, retention and downloads fail and interleave.
RetainsBackup ==
    \A f \in kept : Wholes(files[f]) # {} \/ Wholes(objects[f]) # {}

\* The same, asked only between two nights: keep_count files, not zero, remain.
AsleepWithBackup == stage = "sleep" => RetainsBackup

\* Every object in S3 is whole: nothing is uploaded before its dump is done, or
\* while a download is writing the same file.
ObjectsWhole == \A f \in Folder : Present(objects[f]) = Wholes(objects[f])

\* A file that a restore loads is at least as new as the newest whole backup there
\* was, here or in S3, when the restore began to look, unless a listing of the folder
\* did not fit on one page: the code asks for no second one, and what it downloads
\* then stays the newest local file until the next dump or the loss of the disk.
RestoresNewest ==
    /\ rst # NoRestore
    /\ rst.at = "load"
    /\ FolderOf[rst.entry] \notin cut
    => rst.day >= best

\* Backups implements the promise of Archive.
NewestOf == [f \in Folder |-> Newest(Wholes(files[f]) \cup Wholes(objects[f]))]
CopiedOf == [f \in Folder |-> Newest(Wholes(objects[f]))]

Arc == INSTANCE Archive WITH
    today <- day,
    newest <- NewestOf,
    copied <- CopiedOf

\* Every run of the scheduler, of retention, here and in S3, of downloads and of
\* crashes is a run of Archive: the newest whole backup of a folder never becomes
\* older, and a volume that is lost leaves the newest of its objects.
ImplementsArchive == Arc!ArchiveSpec

=============================================================================
