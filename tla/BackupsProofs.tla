---------------------------- MODULE BackupsProofs ----------------------------
(***************************************************************************)
(* Proofs about Backups, for every number of servers, entries, nights and  *)
(* crashes, every retention and every page size.                           *)
(***************************************************************************)
EXTENDS Backups, FiniteSetTheorems, WellFoundedInduction, TLAPS

-----------------------------------------------------------------------------
(***************************************************************************)
(* Dated files                                                             *)
(***************************************************************************)
Store == [Folder -> [Day -> File]]

LEMMA PutFacts ==
    ASSUME NEW store \in Store, NEW f \in Folder, NEW d, NEW x \in File
    PROVE  /\ Put(store, f, d, x) \in Store
           /\ \A g \in Folder, e \in Day :
                 Put(store, f, d, x)[g][e] =
                    IF g = f /\ e = d THEN x ELSE store[g][e]
  BY DEF Put, Store

LEMMA WithoutFacts ==
    ASSUME NEW store \in Store, NEW f \in Folder, NEW D
    PROVE  /\ Without(store, f, D) \in Store
           /\ \A g \in Folder, e \in Day :
                 Without(store, f, D)[g][e] =
                    IF g = f /\ e \in D THEN "none" ELSE store[g][e]
  BY DEF Without, Store, File

\* Retention never takes the newest file.
LEMMA NewestStays ==
    ASSUME NEW D \in SUBSET Day, NEW k \in Nat,
           NEW d \in Int, \A e \in D : e <= d
    PROVE  d \notin Excess(D, k)
  <1>1. D \subseteq Int
    BY NightsAssumption DEF Day
  <1>2. \A e \in D : ~ (e > d)
    BY <1>1
  <1>3. Cardinality({e \in D : e > d}) = 0
    <2>1. {e \in D : e > d} = {}
      BY <1>2, Zenon
    <2> QED
      BY <2>1, FS_EmptySet
  <1> QED
    BY <1>3 DEF Excess

\* Every non-empty set of dates has a newest one.
LEMMA NewestFacts ==
    ASSUME NEW D \in SUBSET Day, D # {}
    PROVE  Newest(D) \in D /\ \A e \in D : e <= Newest(D)
  <1> DEFINE T == {MaxDay - d : d \in D}
  <1>1. MaxDay \in Nat /\ \A d \in D : d \in Nat /\ MaxDay - d \in Nat
    BY NightsAssumption DEF Day
  <1>2. T \subseteq Nat /\ T # {}
    BY <1>1
  <1> DEFINE LessThan == {p \in Nat \X Nat : p[1] < p[2]}
  <1>w. IsWellFoundedOn(LessThan, Nat)
    BY NatLessThanWellFounded DEF OpToRel
  <1>3. PICK x \in T : \A y \in T : ~ (<<y, x>> \in LessThan)
    <2> HIDE DEF T, LessThan
    <2> QED
      BY <1>2, <1>w, WFMin
  <1>4. \A y \in T : ~ (y < x)
    BY <1>2, <1>3
  <1>5. PICK d \in D : x = MaxDay - d
    BY <1>3
  <1>6. \A e \in D : d >= e
    BY <1>1, <1>4, <1>5
  <1>7. Max(D) \in D /\ \A e \in D : Max(D) >= e
    BY <1>6 DEF Max
  <1> QED
    BY <1>1, <1>7 DEF Newest

LEMMA NewestDate ==
    ASSUME NEW D \in SUBSET Day
    PROVE  Newest(D) \in 0..MaxDay
  <1>1. CASE D = {}
    BY <1>1, NightsAssumption DEF Newest
  <1>2. CASE D # {}
    <2>1. Newest(D) \in Day
      BY <1>2, NewestFacts
    <2> QED
      BY <2>1, NightsAssumption DEF Day
  <1> QED
    BY <1>1, <1>2

LEMMA FolderOfEntry == \A i \in Entry : FolderOf[i] \in Folder /\ Keep[i] \in Nat
  BY EntriesAssumption

-----------------------------------------------------------------------------
(***************************************************************************)
(* The types                                                               *)
(***************************************************************************)
\* The dump at hand is unique.
LEMMA NextIsUnique ==
    ASSUME todo \subseteq SqlOrMongo \X Entry,
           NEW t, NEW u, IsNext(t), IsNext(u)
    PROVE  t = u
  <1>1. /\ t \in SqlOrMongo \X Entry /\ u \in SqlOrMongo \X Entry
        /\ \A i \in SqlOrMongo \cup Entry : i \in Int
    BY EntriesAssumption DEF IsNext, SqlOrMongo, Entry
  <1>2. t[1] = u[1] /\ t[2] = u[2]
    BY <1>1 DEF IsNext
  <1> QED
    BY <1>1, <1>2

LEMMA FinishTypes ==
    ASSUME todo \subseteq SqlOrMongo \X Entry, NEW t \in todo, Finish(t)
    PROVE  /\ todo' \subseteq todo
           /\ stage' \in {"sleep", "open"}
           /\ stage' = "sleep" <=> todo' = {}
  BY DEF Finish

\* The files of a night bear its date.
TypeInv == TypeOK /\ (stage # "sleep" => day \in Day)

LEMMA TypeInit == Init => TypeInv
  BY NightsAssumption DEF Init, TypeInv, TypeOK, File

LEMMA TypeNext == TypeInv /\ [Next]_vars => TypeInv'
  <1> SUFFICES ASSUME TypeOK, stage # "sleep" => day \in Day, [Next]_vars
               PROVE  TypeInv'
    BY DEF TypeInv
  <1>f. files \in Store /\ objects \in Store
    BY DEF TypeOK, Store
  <1>e. {"none", "partial", "whole"} = File
    BY DEF File
  <1>t. \A t \in todo : /\ t \in SqlOrMongo \X Entry
                        /\ FolderOf[t[2]] \in Folder
    BY FolderOfEntry DEF TypeOK
  <1>p. \A f \in Folder : /\ Present(files[f]) \subseteq Day
                          /\ Page(objects[f]) \subseteq Day
                          /\ Wholes(files[f]) \subseteq Day
    BY DEF Present, Page, Wholes
  <1>1. ASSUME NEW D \in SUBSET Entry, StartNight(D)
        PROVE  TypeInv'
    <2>1. Turns(D) \subseteq SqlOrMongo \X Entry
      BY DEF Turns
    <2>2. day' \in 0..MaxDay /\ day' \in Day
      BY <1>1, NightsAssumption DEF StartNight, TypeOK, Day
    <2> QED
      BY <1>1, <2>1, <2>2 DEF StartNight, TypeInv, TypeOK
  <1>2. ASSUME NEW t \in todo, OpenFile(t)
        PROVE  TypeInv'
    <2>1. files' \in Store
      BY <1>2, <1>f, <1>e, <1>t, PutFacts DEF OpenFile
    <2> QED
      BY <1>2, <2>1, FinishTypes DEF OpenFile, TypeInv, TypeOK, Store
  <1>3. ASSUME NEW t \in todo, Dump(t)
        PROVE  TypeInv'
    <2>1. files' \in Store
      BY <1>3, <1>f, <1>e, <1>t, PutFacts DEF Dump
    <2>2. kept' \subseteq Folder
      BY <1>3, <1>t DEF Dump, TypeOK
    <2> QED
      BY <1>3, <2>1, <2>2, FinishTypes DEF Dump, TypeInv, TypeOK, Store
  <1>4. ASSUME NEW t \in todo, Prune(t)
        PROVE  TypeInv'
    <2>1. files' \in Store
      BY <1>4, <1>f, <1>t, WithoutFacts DEF Prune
    <2> QED
      BY <1>4, <2>1, FinishTypes DEF Prune, TypeInv, TypeOK, Store
  <1>5. ASSUME NEW t \in todo, Upload(t)
        PROVE  TypeInv'
    <2>1. files[FolderOf[t[2]]][day] \in File
      BY <1>5, <1>f, <1>t DEF Upload, Store
    <2>2. objects' \in Store
      BY <1>5, <2>1, <1>f, <1>t, PutFacts DEF Upload
    <2> QED
      BY <1>5, <2>2, FinishTypes DEF Upload, TypeInv, TypeOK, Store
  <1>6. ASSUME NEW t \in todo, PruneS3(t)
        PROVE  TypeInv'
    <2>1. objects' \in Store
      BY <1>6, <1>f, <1>t, WithoutFacts DEF PruneS3
    <2> QED
      BY <1>6, <2>1, FinishTypes DEF PruneS3, TypeInv, TypeOK, Store
  <1>7. ASSUME NEW i \in Entry, StartRestore(i)
        PROVE  TypeInv'
    <2>1. FolderOf[i] \in Folder
      BY FolderOfEntry
    <2>2. Newest(Present(files[FolderOf[i]])) \in 0..MaxDay
      BY <1>p, <2>1, NewestDate
    <2>3. rst' \in Restore
      <3>1. 0 \in 0..MaxDay /\ "none" \in File
        BY NightsAssumption DEF File
      <3> QED
        BY <1>7, <2>2, <3>1 DEF StartRestore, Restore
    <2>4. best' \in 0..MaxDay
      <3>1. Wholes(files[FolderOf[i]]) \cup Wholes(objects[FolderOf[i]]) \in SUBSET Day
        BY DEF Wholes
      <3> QED
        BY <1>7, <3>1, NewestDate DEF StartRestore
    <2> QED
      BY <1>7, <2>3, <2>4 DEF StartRestore, TypeInv, TypeOK
  <1>8. ASSUME FetchNewest
        PROVE  TypeInv'
    <2> DEFINE f == FolderOf[rst.entry]
               d == Newest(Page(objects[f]))
    <2>1. rst \in Restore /\ f \in Folder
      BY <1>8, FolderOfEntry DEF FetchNewest, TypeOK, Restore
    <2>c. cut' \subseteq Folder
      BY <1>8, <2>1 DEF FetchNewest, TypeOK
    <2>2. CASE UNCHANGED files /\ rst' = NoRestore
      BY <1>8, <2>c, <2>2 DEF FetchNewest, TypeInv, TypeOK
    <2>3. CASE /\ Page(objects[f]) # {}
               /\ rst' = [rst EXCEPT !.at = "fetch", !.day = d,
                                       !.body = objects[f][d]]
               /\ files' = Put(files, f, d, "partial")
      <3>1. d \in Day /\ d \in 0..MaxDay
        BY <1>p, <2>1, <2>3, NewestFacts, NewestDate
      <3>2. objects[f][d] \in File
        BY <1>f, <2>1, <3>1 DEF Store
      <3>3. rst' \in Restore
        BY <2>1, <2>3, <3>1, <3>2 DEF Restore
      <3>4. files' \in Store
        BY <1>f, <1>e, <2>1, <2>3, PutFacts
      <3> QED
        BY <1>8, <2>c, <3>3, <3>4 DEF FetchNewest, TypeInv, TypeOK, Store
    <2> QED
      BY <1>8, <2>2, <2>3 DEF FetchNewest
  <1>9. ASSUME Fetched
        PROVE  TypeInv'
    <2>1. /\ rst \in Restore /\ FolderOf[rst.entry] \in Folder
          /\ rst.body \in File
      BY <1>9, FolderOfEntry DEF Fetched, TypeOK, Restore
    <2>2. files' \in Store
      BY <1>9, <1>f, <2>1, PutFacts DEF Fetched
    <2>3. rst' \in Restore \cup {NoRestore}
      BY <1>9, <2>1 DEF Fetched, Restore
    <2> QED
      BY <1>9, <2>2, <2>3 DEF Fetched, TypeInv, TypeOK, Store
  <1>10. ASSUME Load
         PROVE  TypeInv'
    BY <1>10, NightsAssumption DEF Load, TypeInv, TypeOK
  <1>11. ASSUME CrashAndRestart
         PROVE  TypeInv'
    <2>1. files' \in Store
      BY <1>11, <1>f, <1>e DEF CrashAndRestart, Store
    <2>2. crashes' \in 0..MaxCrashes /\ best' \in 0..MaxDay
      BY <1>11, NightsAssumption DEF CrashAndRestart, TypeOK
    <2> QED
      BY <1>11, <2>1, <2>2 DEF CrashAndRestart, TypeInv, TypeOK, Store
  <1>12. CASE UNCHANGED vars
    BY <1>12 DEF vars, TypeInv, TypeOK
  <1> QED
    BY <1>1, <1>2, <1>3, <1>4, <1>5, <1>6, <1>7, <1>8, <1>9, <1>10, <1>11, <1>12
       DEF Next, Scheduler, Restorer

\* Every variable keeps its type, and the scheduler sleeps exactly when the
\* night's dumps are done.
THEOREM TypeCorrect == Spec => []TypeOK
  <1>1. TypeInv => TypeOK
    BY DEF TypeInv
  <1> QED
    BY <1>1, TypeInit, TypeNext, PTL DEF Spec

-----------------------------------------------------------------------------
(***************************************************************************)
(* What the store of backups keeps, when no folder is dumped twice in one  *)
(* night: no entry below one of several MongoDB servers, and no two        *)
(* entries with the same folder.                                           *)
(***************************************************************************)
OneDumpPerNight ==
    \A t, u \in Turns(Entry) : FolderOf[t[2]] = FolderOf[u[2]] => t = u

\* Nothing bears a date to come.
FutureInv ==
    \A f \in Folder, d \in Day :
        d > day => files[f][d] = "none" /\ objects[f][d] = "none"

\* A dump that has not begun finds nothing of its date.
AheadInv ==
    /\ todo \subseteq Turns(Entry)
    /\ \A t \in todo :
          stage = "open" \/ ~ IsNext(t) =>
             /\ files[FolderOf[t[2]]][day] = "none"
             /\ objects[FolderOf[t[2]]][day] = "none"

\* How far the dump at hand is.
TurnInv ==
    \A t \in todo : IsNext(t) =>
        LET f == FolderOf[t[2]] IN
        /\ stage \in {"dump", "prune", "upload"} => objects[f][day] = "none"
        /\ stage \in {"prune", "upload"} => files[f][day] = "whole"
        /\ stage = "pruneS3" => objects[f][day] = "whole"

\* The object that is downloaded is whole.
FetchInv == rst # NoRestore /\ rst.at = "fetch" => rst.body = "whole" /\ rst.day \in Day

\* The file that the dump at hand is writing.
Writing(f, d) ==
    \E t \in todo : IsNext(t) /\ stage = "dump" /\ FolderOf[t[2]] = f /\ d = day

\* Some other backup is whole.
Held(f) ==
    \E d \in Day :
        objects[f][d] = "whole" \/ (files[f][d] = "whole" /\ ~ Writing(f, d))

KeptInv == \A f \in kept : Held(f)

StoreInv == FutureInv /\ AheadInv /\ TurnInv /\ ObjectsWhole /\ FetchInv /\ KeptInv

LEMMA WholeFacts ==
    ASSUME NEW store \in Store
    PROVE  (\A f \in Folder : Present(store[f]) = Wholes(store[f]))
              <=> \A f \in Folder, d \in Day : store[f][d] \in {"none", "whole"}
  BY DEF Present, Wholes, Store, File

LEMMA HeldRetains == TypeOK /\ KeptInv => RetainsBackup
  BY DEF TypeOK, KeptInv, Held, RetainsBackup, Wholes

LEMMA StoreInit == Init => StoreInv
  <1> SUFFICES ASSUME Init PROVE StoreInv
    OBVIOUS
  <1>1. FutureInv /\ AheadInv /\ TurnInv /\ FetchInv /\ KeptInv
    BY DEF Init, FutureInv, AheadInv, TurnInv, FetchInv, KeptInv
  <1>2. ObjectsWhole
    BY DEF Init, ObjectsWhole, Present, Wholes
  <1> QED
    BY <1>1, <1>2 DEF StoreInv

\* The turn that follows the dump at hand finds nothing of its date, provided
\* the files of other folders have not changed.
LEMMA AfterFinish ==
    ASSUME TypeInv, AheadInv, OneDumpPerNight,
           NEW t \in todo, IsNext(t), Finish(t), day' = day,
           \A f \in Folder, d \in Day :
              f # FolderOf[t[2]] =>
                 files'[f][d] = files[f][d] /\ objects'[f][d] = objects[f][d]
    PROVE  AheadInv' /\ TurnInv' /\ (\A f, d : ~ Writing(f, d)')
  <1>1. /\ todo' = todo \ {t}
        /\ stage' \in {"sleep", "open"}
        /\ day \in Day
    BY DEF Finish, TypeInv, TypeOK
  <1>2. \A u \in todo' : /\ u \in todo /\ u # t /\ ~ IsNext(u)
                         /\ FolderOf[u[2]] # FolderOf[t[2]]
                         /\ FolderOf[u[2]] \in Folder
    BY <1>1, NextIsUnique, FolderOfEntry DEF TypeInv, TypeOK, AheadInv, OneDumpPerNight
  <1>3. AheadInv'
    <2>1. ASSUME NEW u \in todo'
          PROVE  /\ files'[FolderOf[u[2]]][day] = "none"
                 /\ objects'[FolderOf[u[2]]][day] = "none"
      BY <1>1, <1>2, <2>1 DEF AheadInv
    <2> QED
      BY <1>1, <2>1 DEF AheadInv
  <1>4. TurnInv'
    BY <1>1 DEF TurnInv
  <1>5. \A f, d : ~ Writing(f, d)'
    BY <1>1 DEF Writing
  <1> QED
    BY <1>3, <1>4, <1>5

\* While a dump is under way, the turns behind it stay untouched, provided the
\* files of other folders have not changed.
LEMMA WhileAtHand ==
    ASSUME TypeInv, AheadInv, OneDumpPerNight,
           NEW t \in todo, IsNext(t), UNCHANGED <<day, todo>>, stage' # "open",
           \A f \in Folder, d \in Day :
              f # FolderOf[t[2]] =>
                 files'[f][d] = files[f][d] /\ objects'[f][d] = objects[f][d]
    PROVE  AheadInv' /\ \A u \in todo' : IsNext(u)' => u = t
  <1>1. \A u \in todo : IsNext(u)' <=> IsNext(u)
    BY DEF IsNext
  <1>2. \A u \in todo : IsNext(u) => u = t
    BY NextIsUnique DEF TypeInv, TypeOK
  <1>3. day \in Day
    BY DEF TypeInv, TypeOK
  <1>4. ASSUME NEW u \in todo', ~ IsNext(u)'
        PROVE  /\ files'[FolderOf[u[2]]][day] = "none"
               /\ objects'[FolderOf[u[2]]][day] = "none"
    <2>1. u # t /\ ~ IsNext(u) /\ u \in todo
      BY <1>1, <1>4
    <2>2. FolderOf[u[2]] # FolderOf[t[2]] /\ FolderOf[u[2]] \in Folder
      BY <2>1, FolderOfEntry DEF TypeInv, TypeOK, AheadInv, OneDumpPerNight
    <2> QED
      BY <1>3, <2>1, <2>2 DEF AheadInv
  <1> QED
    BY <1>1, <1>2, <1>4 DEF AheadInv

\* The dumps: their own file is out of everybody's way until it is whole.
LEMMA OpenAndDumpKeep ==
    ASSUME OneDumpPerNight, TypeInv, StoreInv,
           NEW t \in todo, OpenFile(t) \/ Dump(t)
    PROVE  StoreInv'
  <1> DEFINE F == FolderOf[t[2]]
  <1>f. files \in Store /\ objects \in Store /\ F \in Folder /\ day \in Day
        /\ kept \subseteq Folder /\ {"none", "partial", "whole"} = File
    BY FolderOfEntry DEF OpenFile, Dump, TypeInv, TypeOK, Store, File
  <1>n. IsNext(t) /\ UNCHANGED <<day, objects, rst>>
    BY DEF OpenFile, Dump
  <1>d. day \in Int /\ ~ (day > day)
    BY NightsAssumption DEF TypeInv, TypeOK
  <1>w. ObjectsWhole' /\ FetchInv'
    BY <1>n DEF StoreInv, ObjectsWhole, FetchInv
  <1>o. objects[F][day] = "none" /\ \A u \in todo : IsNext(u) => u = t
    BY <1>n, NextIsUnique DEF OpenFile, Dump, StoreInv, AheadInv, TurnInv, TypeInv, TypeOK
  <1>1. ASSUME NEW x \in File, files' = Put(files, F, day, x)
        PROVE  /\ FutureInv'
               /\ \A f \in Folder, d \in Day :
                     files'[f][d] = IF f = F /\ d = day THEN x ELSE files[f][d]
    <2>1. \A f \in Folder, d \in Day :
             files'[f][d] = IF f = F /\ d = day THEN x ELSE files[f][d]
      BY <1>f, <1>1, PutFacts
    <2> QED
      BY <1>n, <1>d, <2>1 DEF StoreInv, FutureInv
  <1>2. CASE /\ stage = "open" /\ stage' = "dump"
             /\ files' = Put(files, F, day, "partial") /\ UNCHANGED <<todo, kept>>
    <2>1. AheadInv' /\ \A u \in todo' : IsNext(u)' => u = t
      BY <1>f, <1>n, <1>1, <1>2, WhileAtHand DEF StoreInv
    <2>2. TurnInv'
      BY <1>n, <1>o, <1>2, <2>1 DEF TurnInv
    <2>3. KeptInv'
      <3> SUFFICES ASSUME NEW f \in kept
                   PROVE  Held(f)'
        BY <1>2 DEF KeptInv
      <3>1. PICK d \in Day : objects[f][d] = "whole" \/ files[f][d] = "whole"
        BY DEF StoreInv, KeptInv, Held
      <3>2. files[F][day] = "none" /\ objects[F][day] = "none"
        BY <1>2 DEF StoreInv, AheadInv
      <3>3. ~ (f = F /\ d = day)
        BY <3>1, <3>2
      <3>4. ~ Writing(f, d)'
        BY <1>n, <1>2, <2>1, <3>3 DEF Writing
      <3>5. objects'[f][d] = "whole" \/ files'[f][d] = "whole"
        BY <1>f, <1>n, <1>1, <1>2, <3>1, <3>3
      <3> QED
        BY <3>4, <3>5 DEF Held
    <2> QED
      BY <1>f, <1>1, <1>2, <1>w, <2>1, <2>2, <2>3 DEF StoreInv
  <1>3. CASE stage = "open" /\ Finish(t) /\ UNCHANGED <<files, kept>>
    <2>1. AheadInv' /\ TurnInv' /\ \A f, d : ~ Writing(f, d)'
      BY <1>n, <1>3, AfterFinish DEF StoreInv
    <2>2. FutureInv' /\ KeptInv'
      BY <1>n, <1>3, <2>1 DEF StoreInv, FutureInv, KeptInv, Held
    <2> QED
      BY <1>w, <2>1, <2>2 DEF StoreInv
  <1>4. CASE /\ stage = "dump" /\ stage' = "prune" /\ UNCHANGED todo
             /\ files' = Put(files, F, day, "whole") /\ kept' = kept \cup {F}
    <2>1. AheadInv' /\ \A u \in todo' : IsNext(u)' => u = t
      BY <1>f, <1>n, <1>1, <1>4, WhileAtHand DEF StoreInv
    <2>2. files'[F][day] = "whole"
      BY <1>f, <1>1, <1>4
    <2>3. TurnInv'
      BY <1>n, <1>o, <1>4, <2>1, <2>2 DEF TurnInv
    <2>4. KeptInv'
      <3>1. \A f, d : ~ Writing(f, d)'
        BY <1>4 DEF Writing
      <3>2. Held(F)'
        BY <1>f, <2>2, <3>1 DEF Held
      <3>3. ASSUME NEW f \in kept
            PROVE  Held(f)'
        <4>1. PICK d \in Day : objects[f][d] = "whole" \/ files[f][d] = "whole"
          BY DEF StoreInv, KeptInv, Held
        <4>2. objects'[f][d] = "whole" \/ files'[f][d] = "whole"
          BY <1>f, <1>n, <1>1, <1>4, <4>1
        <4> QED
          BY <3>1, <4>2 DEF Held
      <3> QED
        BY <1>4, <3>2, <3>3 DEF KeptInv
    <2> QED
      BY <1>f, <1>1, <1>4, <1>w, <2>1, <2>3, <2>4 DEF StoreInv
  <1>5. CASE /\ stage = "dump" /\ Finish(t) /\ UNCHANGED kept
             /\ \E x \in {"none", "partial"} : files' = Put(files, F, day, x)
    <2>0. PICK x \in File : files' = Put(files, F, day, x)
      BY <1>f, <1>5
    <2>1. AheadInv' /\ TurnInv' /\ \A f, d : ~ Writing(f, d)'
      BY <1>n, <1>1, <1>5, <2>0, AfterFinish DEF StoreInv
    <2>2. KeptInv'
      <3> SUFFICES ASSUME NEW f \in kept
                   PROVE  Held(f)'
        BY <1>5 DEF KeptInv
      <3>1. PICK d \in Day : \/ objects[f][d] = "whole"
                             \/ files[f][d] = "whole" /\ ~ Writing(f, d)
        BY DEF StoreInv, KeptInv, Held
      <3>2. Writing(F, day)
        BY <1>n, <1>5 DEF Writing
      <3>3. objects'[f][d] = "whole" \/ files'[f][d] = "whole"
        BY <1>f, <1>n, <1>1, <2>0, <3>1, <3>2
      <3> QED
        BY <2>1, <3>3 DEF Held
    <2> QED
      BY <1>1, <1>w, <2>0, <2>1, <2>2 DEF StoreInv
  <1> QED
    BY <1>2, <1>3, <1>4, <1>5 DEF OpenFile, Dump

\* Retention: the day's file is newer than whatever is removed.
LEMMA PruneKeeps ==
    ASSUME OneDumpPerNight, TypeInv, StoreInv, NEW t \in todo, Prune(t)
    PROVE  StoreInv'
  <1> DEFINE F == FolderOf[t[2]]
  <1>f. /\ files \in Store /\ F \in Folder /\ day \in Day /\ Keep[t[2]] \in Nat
        /\ kept \subseteq Folder
    BY FolderOfEntry DEF Prune, TypeInv, TypeOK, Store
  <1>n. /\ IsNext(t) /\ stage = "prune" /\ stage' # "dump"
        /\ UNCHANGED <<day, objects, rst, kept>>
        /\ \/ stage' = "upload" /\ UNCHANGED todo
           \/ Finish(t)
    BY DEF Prune, Finish
  <1>o. files[F][day] = "whole" /\ objects[F][day] = "none"
    BY <1>n DEF StoreInv, TurnInv
  <1>1. PICK R \in SUBSET Excess(Present(files[F]), Keep[t[2]]) :
           files' = Without(files, F, R)
    BY DEF Prune
  <1>2. day \notin R
    <2>1. \A e \in Present(files[F]) : e <= day
      BY <1>f, NightsAssumption DEF StoreInv, FutureInv, Present, Day
    <2>2. Present(files[F]) \in SUBSET Day /\ day \in Int
      BY <1>f, NightsAssumption DEF Present, Day
    <2> QED
      BY <1>f, <2>1, <2>2, NewestStays
  <1>3. \A f \in Folder, d \in Day :
           files'[f][d] = IF f = F /\ d \in R THEN "none" ELSE files[f][d]
    BY <1>f, <1>1, WithoutFacts
  <1>4. FutureInv' /\ ObjectsWhole' /\ FetchInv'
    BY <1>n, <1>3 DEF StoreInv, FutureInv, ObjectsWhole, FetchInv
  <1>5. AheadInv' /\ TurnInv' /\ \A f, d : ~ Writing(f, d)'
    <2>1. CASE stage' = "upload" /\ UNCHANGED todo
      <3>1. AheadInv' /\ \A u \in todo' : IsNext(u)' => u = t
        BY <1>n, <1>3, <2>1, WhileAtHand DEF StoreInv
      <3>2. files'[F][day] = "whole" /\ objects'[F][day] = "none"
        BY <1>f, <1>n, <1>o, <1>2, <1>3
      <3> QED
        BY <1>n, <2>1, <3>1, <3>2 DEF TurnInv, Writing
    <2>2. CASE Finish(t)
      BY <1>n, <1>3, <2>2, AfterFinish DEF StoreInv
    <2> QED
      BY <1>n, <2>1, <2>2
  <1>6. KeptInv'
    <2> SUFFICES ASSUME NEW f \in kept
                 PROVE  Held(f)'
      BY <1>n DEF KeptInv
    <2>1. CASE f = F
      <3>1. files'[F][day] = "whole"
        BY <1>f, <1>o, <1>2, <1>3
      <3> QED
        BY <1>f, <1>5, <2>1, <3>1 DEF Held
    <2>2. CASE f # F
      <3>1. PICK d \in Day : objects[f][d] = "whole" \/ files[f][d] = "whole"
        BY DEF StoreInv, KeptInv, Held
      <3>2. objects'[f][d] = "whole" \/ files'[f][d] = "whole"
        BY <1>f, <1>n, <1>3, <2>2, <3>1
      <3> QED
        BY <1>5, <3>2 DEF Held
    <2> QED
      BY <2>1, <2>2
  <1> QED
    BY <1>4, <1>5, <1>6 DEF StoreInv

\* The upload copies the day's file, which is whole.
LEMMA UploadKeeps ==
    ASSUME OneDumpPerNight, TypeInv, StoreInv, NEW t \in todo, Upload(t)
    PROVE  StoreInv'
  <1> DEFINE F == FolderOf[t[2]]
  <1>f. /\ objects \in Store /\ F \in Folder /\ day \in Day
        /\ kept \subseteq Folder /\ "whole" \in File
    BY FolderOfEntry DEF Upload, TypeInv, TypeOK, Store, File
  <1>n. IsNext(t) /\ stage = "upload" /\ UNCHANGED <<day, files, rst, kept>>
    BY DEF Upload
  <1>o. files[F][day] = "whole"
    BY <1>n DEF StoreInv, TurnInv
  <1>k. ASSUME \A f, d : ~ Writing(f, d)',
               \A f \in Folder, d \in Day :
                  objects[f][d] = "whole" => objects'[f][d] = "whole"
        PROVE  KeptInv'
    BY <1>f, <1>n, <1>k DEF StoreInv, KeptInv, Held
  <1>1. CASE /\ objects' = Put(objects, F, day, files[F][day])
             /\ stage' = "pruneS3" /\ UNCHANGED todo
    <2>1. objects' \in Store
          /\ \A f \in Folder, d \in Day :
                objects'[f][d] = IF f = F /\ d = day THEN "whole" ELSE objects[f][d]
      BY <1>f, <1>o, <1>1, PutFacts
    <2>2. AheadInv' /\ \A u \in todo' : IsNext(u)' => u = t
      BY <1>n, <1>1, <2>1, WhileAtHand DEF StoreInv
    <2>3. objects'[F][day] = "whole"
      BY <1>f, <2>1
    <2>4. TurnInv' /\ \A f, d : ~ Writing(f, d)'
      BY <1>n, <1>1, <2>2, <2>3 DEF TurnInv, Writing
    <2>5. FutureInv'
      <3>1. ~ (day > day)
        BY <1>f, NightsAssumption DEF Day
      <3> QED
        BY <1>n, <2>1, <3>1 DEF StoreInv, FutureInv
    <2>6. ObjectsWhole'
      <3>1. \A f \in Folder, d \in Day : objects[f][d] \in {"none", "whole"}
        BY <1>f, WholeFacts DEF StoreInv, ObjectsWhole
      <3>2. \A f \in Folder, d \in Day : objects'[f][d] \in {"none", "whole"}
        BY <2>1, <3>1
      <3> QED
        BY <2>1, <3>2, WholeFacts DEF ObjectsWhole
    <2>7. KeptInv'
      BY <1>k, <2>1, <2>4
    <2> QED
      BY <1>n, <2>2, <2>4, <2>5, <2>6, <2>7 DEF StoreInv, FetchInv
  <1>2. CASE Finish(t) /\ UNCHANGED objects
    <2>1. AheadInv' /\ TurnInv' /\ \A f, d : ~ Writing(f, d)'
      BY <1>n, <1>2, AfterFinish DEF StoreInv
    <2>2. KeptInv'
      BY <1>k, <1>2, <2>1
    <2> QED
      BY <1>n, <1>2, <2>1, <2>2 DEF StoreInv, FutureInv, ObjectsWhole, FetchInv
  <1> QED
    BY <1>1, <1>2 DEF Upload

\* Retention in S3: the day's object is newer than whatever is removed, on
\* whichever page it stands.
LEMMA PruneS3Keeps ==
    ASSUME OneDumpPerNight, TypeInv, StoreInv, NEW t \in todo, PruneS3(t)
    PROVE  StoreInv'
  <1> DEFINE F == FolderOf[t[2]]
  <1>f. /\ objects \in Store /\ F \in Folder /\ day \in Day /\ Keep[t[2]] \in Nat
        /\ kept \subseteq Folder
    BY FolderOfEntry DEF PruneS3, TypeInv, TypeOK, Store
  <1>n. /\ IsNext(t) /\ stage = "pruneS3" /\ Finish(t)
        /\ UNCHANGED <<day, files, rst, kept>>
    BY DEF PruneS3
  <1>o. objects[F][day] = "whole"
    BY <1>n DEF StoreInv, TurnInv
  <1>1. PICK R \in SUBSET Excess(Page(objects[F]), Keep[t[2]]) :
           objects' = Without(objects, F, R)
    BY DEF PruneS3
  <1>2. day \notin R
    <2>1. \A e \in Page(objects[F]) : e <= day
      BY <1>f, NightsAssumption DEF StoreInv, FutureInv, Page, Present, Day
    <2>2. Page(objects[F]) \in SUBSET Day /\ day \in Int
      BY <1>f, NightsAssumption DEF Page, Present, Day
    <2> QED
      BY <1>f, <2>1, <2>2, NewestStays
  <1>3. objects' \in Store
        /\ \A f \in Folder, d \in Day :
              objects'[f][d] = IF f = F /\ d \in R THEN "none" ELSE objects[f][d]
    BY <1>f, <1>1, WithoutFacts
  <1>4. FutureInv' /\ FetchInv'
    BY <1>n, <1>3 DEF StoreInv, FutureInv, FetchInv
  <1>5. AheadInv' /\ TurnInv' /\ \A f, d : ~ Writing(f, d)'
    BY <1>n, <1>3, AfterFinish DEF StoreInv
  <1>6. KeptInv'
    <2> SUFFICES ASSUME NEW f \in kept
                 PROVE  Held(f)'
      BY <1>n DEF KeptInv
    <2>1. CASE f = F
      <3>1. objects'[F][day] = "whole"
        BY <1>f, <1>o, <1>2, <1>3
      <3> QED
        BY <1>f, <2>1, <3>1 DEF Held
    <2>2. CASE f # F
      <3>1. PICK d \in Day : objects[f][d] = "whole" \/ files[f][d] = "whole"
        BY DEF StoreInv, KeptInv, Held
      <3>2. objects'[f][d] = "whole" \/ files'[f][d] = "whole"
        BY <1>f, <1>n, <1>3, <2>2, <3>1
      <3> QED
        BY <1>5, <3>2 DEF Held
    <2> QED
      BY <2>1, <2>2
  <1>7. ObjectsWhole'
    <2>1. \A f \in Folder, d \in Day : objects[f][d] \in {"none", "whole"}
      BY <1>f, WholeFacts DEF StoreInv, ObjectsWhole
    <2>2. \A f \in Folder, d \in Day : objects'[f][d] \in {"none", "whole"}
      BY <1>3, <2>1
    <2> QED
      BY <1>3, <2>2, WholeFacts DEF ObjectsWhole
  <1> QED
    BY <1>4, <1>5, <1>6, <1>7 DEF StoreInv

\* A download only touches a local file whose object is whole, and whose dump is
\* not at hand.
LEMMA DownloadKeeps ==
    ASSUME OneDumpPerNight, TypeInv, StoreInv, FetchNewest \/ Fetched
    PROVE  StoreInv'
  <1> DEFINE F == FolderOf[rst.entry]
  <1>f. /\ files \in Store /\ objects \in Store /\ rst \in Restore /\ F \in Folder
        /\ kept \subseteq Folder /\ {"none", "partial", "whole"} = File
        /\ \A t \in todo : FolderOf[t[2]] \in Folder
        /\ todo # {} => day \in Day
    BY FolderOfEntry DEF FetchNewest, Fetched, TypeInv, TypeOK, Store, File, Restore
  <1>n. UNCHANGED <<day, objects, todo, stage, kept>>
    BY DEF FetchNewest, Fetched
  <1>i. \A u : IsNext(u)' <=> IsNext(u)
    BY <1>n DEF IsNext
  <1>v. \A f, d : Writing(f, d)' <=> Writing(f, d)
    BY <1>n, <1>i DEF Writing
  <1>w. ObjectsWhole'
    BY <1>n DEF StoreInv, ObjectsWhole
  \* It is enough that each changed file stood there, or its object does, and
  \* that it becomes whole or leaves its whole object behind.
  <1>1. ASSUME NEW e \in Day, NEW x \in File, files' = Put(files, F, e, x),
               files[F][e] # "none" \/ objects[F][e] = "whole",
               x = "whole" \/ objects[F][e] = "whole"
        PROVE  FutureInv' /\ AheadInv' /\ TurnInv' /\ KeptInv'
    <2>1. \A f \in Folder, d \in Day :
             files'[f][d] = IF f = F /\ d = e THEN x ELSE files[f][d]
      BY <1>f, <1>1, PutFacts
    <2>2. FutureInv'
      BY <1>n, <1>f, <1>1, <2>1 DEF StoreInv, FutureInv
    <2>3. AheadInv'
      <3>1. ASSUME NEW t \in todo, stage = "open" \/ ~ IsNext(t)
            PROVE  files'[FolderOf[t[2]]][day] = "none"
        <4>1. /\ files[FolderOf[t[2]]][day] = "none"
              /\ objects[FolderOf[t[2]]][day] = "none"
          BY <3>1 DEF StoreInv, AheadInv
        <4> QED
          BY <1>f, <1>1, <2>1, <4>1
      <3> QED
        BY <1>n, <1>i, <3>1 DEF StoreInv, AheadInv
    <2>4. TurnInv'
      <3>1. ASSUME NEW t \in todo, IsNext(t), stage \in {"prune", "upload"}
            PROVE  files'[FolderOf[t[2]]][day] = "whole"
        <4>1. /\ files[FolderOf[t[2]]][day] = "whole"
              /\ objects[FolderOf[t[2]]][day] = "none"
          BY <3>1 DEF StoreInv, TurnInv
        <4> QED
          BY <1>f, <1>1, <2>1, <4>1
      <3> QED
        BY <1>n, <1>i, <3>1 DEF StoreInv, TurnInv
    <2>5. KeptInv'
      <3> SUFFICES ASSUME NEW f \in kept
                   PROVE  Held(f)'
        BY <1>n DEF KeptInv
      <3>1. PICK d \in Day : \/ objects[f][d] = "whole"
                             \/ files[f][d] = "whole" /\ ~ Writing(f, d)
        BY DEF StoreInv, KeptInv, Held
      <3>2. \/ objects'[f][d] = "whole"
            \/ files'[f][d] = "whole" /\ ~ Writing(f, d)
        BY <1>f, <1>n, <1>1, <2>1, <3>1
      <3> QED
        BY <1>v, <3>2 DEF Held
    <2> QED
      BY <2>2, <2>3, <2>4, <2>5
  <1>2. ASSUME UNCHANGED files
        PROVE  FutureInv' /\ AheadInv' /\ TurnInv' /\ KeptInv'
    <2>1. FutureInv' /\ AheadInv' /\ TurnInv'
      BY <1>n, <1>i, <1>2 DEF StoreInv, FutureInv, AheadInv, TurnInv
    <2>2. KeptInv'
      BY <1>n, <1>v, <1>2 DEF StoreInv, KeptInv, Held
    <2> QED
      BY <2>1, <2>2
  <1>3. CASE FetchNewest
    <2> DEFINE e == Newest(Page(objects[F]))
    <2>1. CASE UNCHANGED files /\ rst' = NoRestore
      BY <1>2, <1>w, <2>1 DEF StoreInv, FetchInv
    <2>2. CASE /\ Page(objects[F]) # {}
               /\ rst' = [rst EXCEPT !.at = "fetch", !.day = e,
                                       !.body = objects[F][e]]
               /\ files' = Put(files, F, e, "partial")
      <3>1. Page(objects[F]) \in SUBSET Day
        BY DEF Page, Present
      <3>2. e \in Page(objects[F])
        BY <2>2, <3>1, NewestFacts
      <3>3. e \in Day /\ objects[F][e] # "none"
        BY <3>1, <3>2 DEF Page, Present
      <3>4. objects[F][e] = "whole"
        BY <1>f, <3>3, WholeFacts DEF StoreInv, ObjectsWhole
      <3>5. FetchInv'
        BY <1>f, <2>2, <3>3, <3>4 DEF FetchInv, Restore
      <3> QED
        BY <1>f, <1>1, <1>w, <2>2, <3>3, <3>4, <3>5 DEF StoreInv
    <2> QED
      BY <1>3, <2>1, <2>2 DEF FetchNewest
  <1>4. CASE Fetched
    <2>1. rst.body = "whole" /\ rst.day \in Day
      BY <1>4 DEF Fetched, StoreInv, FetchInv
    <2>2. FetchInv'
      BY <1>4, <1>f DEF Fetched, FetchInv, Restore
    <2>3. CASE UNCHANGED files
      BY <1>2, <1>w, <2>2, <2>3 DEF StoreInv
    <2>4. CASE files[F][rst.day] # "none" /\ files' = Put(files, F, rst.day, rst.body)
      BY <1>f, <1>1, <1>w, <2>1, <2>2, <2>4 DEF StoreInv
    <2> QED
      BY <1>4, <2>3, <2>4 DEF Fetched
  <1> QED
    BY <1>3, <1>4

LEMMA StoreNext ==
    ASSUME OneDumpPerNight
    PROVE  TypeInv /\ StoreInv /\ [Next]_vars => StoreInv'
  <1> SUFFICES ASSUME TypeInv, StoreInv, [Next]_vars
               PROVE  StoreInv'
    OBVIOUS
  <1>s. ASSUME UNCHANGED <<day, files, objects, todo, stage, kept>>, FetchInv'
        PROVE  StoreInv'
    <2>1. FutureInv' /\ ObjectsWhole'
      BY <1>s DEF StoreInv, FutureInv, ObjectsWhole
    <2>2. \A u : IsNext(u)' <=> IsNext(u)
      BY <1>s DEF IsNext
    <2>3. AheadInv' /\ TurnInv'
      BY <1>s, <2>2 DEF StoreInv, AheadInv, TurnInv
    <2>4. \A f, d : Writing(f, d)' <=> Writing(f, d)
      BY <1>s, <2>2 DEF Writing
    <2>5. KeptInv'
      BY <1>s, <2>4 DEF StoreInv, KeptInv, Held
    <2> QED
      BY <1>s, <2>1, <2>3, <2>5 DEF StoreInv
  <1>1. ASSUME NEW D \in SUBSET Entry, StartNight(D)
        PROVE  StoreInv'
    <2>1. /\ day' = day + 1 /\ day' \in Day /\ day \in Nat
          /\ todo' = Turns(D) /\ stage' \in {"sleep", "open"}
          /\ UNCHANGED <<files, objects, rst, kept>>
      BY <1>1, NightsAssumption DEF StartNight, TypeInv, TypeOK, Day
    <2>2. Turns(D) \subseteq Turns(Entry)
      BY DEF Turns
    <2>3. FutureInv'
      BY <2>1, NightsAssumption DEF StoreInv, FutureInv, Day
    <2>4. AheadInv'
      <3>1. ASSUME NEW f \in Folder
            PROVE  files[f][day'] = "none" /\ objects[f][day'] = "none"
        BY <2>1 DEF StoreInv, FutureInv
      <3>2. \A t \in Turns(D) : FolderOf[t[2]] \in Folder
        BY FolderOfEntry DEF Turns
      <3> QED
        BY <2>1, <2>2, <3>1, <3>2 DEF AheadInv
    <2>5. TurnInv' /\ \A f, d : ~ Writing(f, d)'
      BY <2>1 DEF TurnInv, Writing
    <2>6. KeptInv'
      BY <2>1, <2>5 DEF StoreInv, KeptInv, Held
    <2> QED
      BY <2>1, <2>3, <2>4, <2>5, <2>6 DEF StoreInv, ObjectsWhole, FetchInv
  <1>2. ASSUME NEW i \in Entry, StartRestore(i)
        PROVE  StoreInv'
    <2>1. FetchInv'
      BY <1>2 DEF StartRestore, FetchInv
    <2> QED
      BY <1>2, <1>s, <2>1 DEF StartRestore
  <1>3. ASSUME Load
        PROVE  StoreInv'
    <2>1. FetchInv'
      BY <1>3 DEF Load, FetchInv
    <2> QED
      BY <1>3, <1>s, <2>1 DEF Load
  <1>4. ASSUME CrashAndRestart
        PROVE  StoreInv'
    <2>1. /\ todo' = {} /\ rst' = NoRestore /\ UNCHANGED <<day, objects>>
      BY <1>4 DEF CrashAndRestart
    <2>2. AheadInv' /\ TurnInv' /\ FetchInv' /\ \A f, d : ~ Writing(f, d)'
      BY <2>1 DEF AheadInv, TurnInv, FetchInv, Writing
    <2>3. FutureInv' /\ KeptInv'
      <3>1. CASE UNCHANGED <<files, kept>>
        BY <2>1, <2>2, <3>1 DEF StoreInv, FutureInv, KeptInv, Held
      <3>2. CASE /\ files' = [f \in Folder |-> [d \in Day |-> "none"]]
                 /\ kept' = {f \in Folder : Wholes(objects[f]) # {}}
        BY <2>1, <3>2 DEF StoreInv, FutureInv, KeptInv, Held, Wholes
      <3> QED
        BY <1>4, <3>1, <3>2 DEF CrashAndRestart
    <2> QED
      BY <2>1, <2>2, <2>3 DEF StoreInv, ObjectsWhole
  <1>5. CASE UNCHANGED vars
    <2>1. FetchInv'
      BY <1>5 DEF vars, StoreInv, FetchInv
    <2> QED
      BY <1>5, <1>s, <2>1 DEF vars
  <1> QED
    BY <1>1, <1>2, <1>3, <1>4, <1>5, OpenAndDumpKeep, PruneKeeps, UploadKeeps,
       PruneS3Keeps, DownloadKeeps DEF Next, Scheduler, Restorer

LEMMA StoreCorrect ==
    ASSUME OneDumpPerNight
    PROVE  Spec => [](TypeOK /\ StoreInv)
  <1>1. TypeInv => TypeOK
    BY DEF TypeInv
  <1> QED
    BY <1>1, TypeInit, TypeNext, StoreInit, StoreNext, PTL DEF Spec

\* When no folder is dumped twice in one night, a folder that once held a whole
\* backup holds one for ever, here or in S3, whatever fails or interleaves.
THEOREM BackupsAreRetained ==
    ASSUME OneDumpPerNight
    PROVE  Spec => []RetainsBackup
  <1>1. TypeOK /\ StoreInv => RetainsBackup
    BY HeldRetains DEF StoreInv
  <1> QED
    BY <1>1, StoreCorrect, PTL

\* Under the same assumption every object in S3 is a whole backup, even while a
\* download writes the files that uploads read.
THEOREM ObjectsAreWhole ==
    ASSUME OneDumpPerNight
    PROVE  Spec => []ObjectsWhole
  <1>1. StoreInv => ObjectsWhole
    BY DEF StoreInv
  <1> QED
    BY <1>1, StoreCorrect, PTL

-----------------------------------------------------------------------------
(***************************************************************************)
(* What a restore finds.  A local file shadows the objects of its folder,  *)
(* so it has to be at least as new as every one of them, as long as each   *)
(* listing of the folder has fit on one page.                              *)
(***************************************************************************)
Reaches(D, x) == \E d \in D : d >= x

\* The local files of a folder, but for the one that is being dumped.
Local(f) == {d \in Day : files[f][d] # "none" /\ ~ Writing(f, d)}

LeadInv ==
    \A f \in Folder \ cut : Local(f) # {} =>
        \A d \in Present(objects[f]) : Reaches(Local(f), d)

\* The file that was uploaded stays while the objects are pruned.
CopyInv ==
    \A t \in todo :
        IsNext(t) /\ stage = "pruneS3" => files[FolderOf[t[2]]][day] # "none"

\* The restore has, or still finds in S3, something as new as what there was.
RestInv ==
    rst # NoRestore =>
        \/ FolderOf[rst.entry] \in cut
        \/ IF rst.at = "list"
           THEN best = 0 \/ Reaches(Present(objects[FolderOf[rst.entry]]), best)
           ELSE rst.day >= best

NewestInv == LeadInv /\ CopyInv /\ RestInv

LEMMA PresentFacts ==
    ASSUME NEW a, NEW b, \A d \in Day : a[d] = b[d]
    PROVE  Present(a) = Present(b)
  BY DEF Present

\* Whatever is added later in the night, or pruned, the objects still reach as far.
LEMMA ObjectsReach ==
    ASSUME TypeInv, StoreInv, NEW t \in todo, Upload(t) \/ PruneS3(t),
           NEW f \in Folder, NEW x \in Int, Reaches(Present(objects[f]), x)
    PROVE  Reaches(Present(objects'[f]), x)
  <1> DEFINE F == FolderOf[t[2]]
             n == Newest(Present(objects[f]))
  <1>f. /\ objects \in Store /\ F \in Folder /\ Keep[t[2]] \in Nat
        /\ files[F][day] \in File /\ \A d \in Day : d \in Int
    BY FolderOfEntry, NightsAssumption
       DEF Upload, PruneS3, TypeInv, TypeOK, Store, Day
  <1>1. n \in Present(objects[f]) /\ \A e \in Present(objects[f]) : e <= n
    <2>1. Present(objects[f]) \in SUBSET Day /\ Present(objects[f]) # {}
      BY DEF Present, Reaches
    <2> QED
      BY <2>1, NewestFacts
  <1>2. n \in Day /\ n \in Int /\ n >= x /\ objects[f][n] # "none"
    BY <1>1, <1>f DEF Reaches, Present
  <1> HIDE DEF n
  <1>3. ASSUME objects'[f][n] # "none"
        PROVE  Reaches(Present(objects'[f]), x)
    BY <1>2, <1>3 DEF Reaches, Present
  <1>4. CASE UNCHANGED objects
    BY <1>4
  <1>5. CASE Upload(t) /\ objects' = Put(objects, F, day, files[F][day])
    <2>1. files[F][day] # "none"
      BY <1>5 DEF Upload, StoreInv, TurnInv
    <2>2. objects'[f][n] # "none"
      BY <1>2, <1>5, <1>f, <2>1, PutFacts
    <2> QED
      BY <1>3, <2>2
  <1>6. CASE PruneS3(t)
    <2>1. PICK R \in SUBSET Excess(Page(objects[F]), Keep[t[2]]) :
             objects' = Without(objects, F, R)
      BY <1>6 DEF PruneS3
    <2>2. Page(objects[F]) \in SUBSET Day /\ Page(objects[F]) \subseteq Present(objects[F])
      BY DEF Page, Present
    <2>3. f = F => n \notin R
      BY <1>1, <1>2, <1>f, <2>2, NewestStays
    <2>4. objects'[f][n] # "none"
      BY <1>2, <1>f, <2>1, <2>3, WithoutFacts
    <2> QED
      BY <1>3, <2>4
  <1> QED
    BY <1>4, <1>5, <1>6 DEF Upload

\* The day's file leads whatever has been uploaded.
LEMMA DayLeads ==
    ASSUME TypeInv', FutureInv', day' \in Day, NEW f \in Folder, day' \in Local(f)'
    PROVE  \A d \in Present(objects'[f]) : Reaches(Local(f)', d)
  <1>1. \A d \in Present(objects'[f]) : d \in Int /\ d <= day'
    BY NightsAssumption DEF FutureInv, Present, Day
  <1>2. day' \in Int
    BY NightsAssumption DEF Day
  <1> QED
    BY <1>1, <1>2 DEF Reaches

\* A folder that no step has touched, or only the dump that is writing there.
LEMMA LeadKept ==
    ASSUME NEW f \in Folder \ cut, LeadInv, Local(f)' = Local(f),
           \A d \in Day : objects'[f][d] = objects[f][d]
    PROVE  Local(f)' # {} => \A d \in Present(objects'[f]) : Reaches(Local(f)', d)
  BY PresentFacts DEF LeadInv

\* The scheduler: what a dump, retention or an upload changes is led by the day's
\* file.
LEMMA TurnsLead ==
    ASSUME OneDumpPerNight, TypeInv, StoreInv, TypeInv', StoreInv', LeadInv, CopyInv,
           NEW t \in todo,
           \/ OpenFile(t) \/ Dump(t) \/ Prune(t) \/ Upload(t) \/ PruneS3(t)
    PROVE  LeadInv' /\ CopyInv'
  <1> DEFINE F == FolderOf[t[2]]
  <1>f. /\ files \in Store /\ objects \in Store /\ F \in Folder /\ day \in Day
        /\ {"none", "partial", "whole"} = File
    BY FolderOfEntry
       DEF OpenFile, Dump, Prune, Upload, PruneS3, TypeInv, TypeOK, Store, File
  <1>n. IsNext(t) /\ day' = day /\ cut' = cut
    BY DEF OpenFile, Dump, Prune, Upload, PruneS3
  <1>u. \A u \in todo : IsNext(u) => u = t
    BY <1>n, NextIsUnique DEF TypeInv, TypeOK
  <1>v. \A f, d : Writing(f, d) <=> stage = "dump" /\ f = F /\ d = day
    BY <1>n, <1>u DEF Writing
  <1>w. \A f, d : Writing(f, d)' => stage' = "dump" /\ f = F /\ d = day
    <2>1. CASE stage' = "dump"
      <3>1. todo' = todo
        BY <2>1 DEF OpenFile, Dump, Prune, Upload, PruneS3, Finish
      <3>2. \A u \in todo' : IsNext(u)' => u = t
        BY <3>1, <1>u DEF IsNext
      <3> QED
        BY <3>2, <1>n DEF Writing
    <2>2. CASE stage' # "dump"
      BY <2>2 DEF Writing
    <2> QED
      BY <2>1, <2>2
  <1>o. \A f \in Folder, d \in Day :
           f # F => files'[f][d] = files[f][d] /\ objects'[f][d] = objects[f][d]
    <2>1. files[F][day] \in File
      BY <1>f DEF Store
    <2>2. /\ \/ UNCHANGED files
             \/ \E x \in File : files' = Put(files, F, day, x)
             \/ \E R : files' = Without(files, F, R)
          /\ \/ UNCHANGED objects
             \/ \E x \in File : objects' = Put(objects, F, day, x)
             \/ \E R : objects' = Without(objects, F, R)
      BY <1>f, <2>1 DEF OpenFile, Dump, Prune, Upload, PruneS3
    <2>3. \A f \in Folder, d \in Day : f # F => files'[f][d] = files[f][d]
      BY <1>f, <2>2, PutFacts, WithoutFacts
    <2>4. \A f \in Folder, d \in Day : f # F => objects'[f][d] = objects[f][d]
      BY <1>f, <2>2, PutFacts, WithoutFacts
    <2> QED
      BY <2>3, <2>4
  \* The other folders keep what they hold.
  <1>1. ASSUME \/ /\ day \in Local(F)'
               \/ /\ Local(F)' = Local(F)
                  /\ UNCHANGED objects
        PROVE  LeadInv'
    <2> SUFFICES ASSUME NEW f \in Folder \ cut, Local(f)' # {}
                 PROVE  \A d \in Present(objects'[f]) : Reaches(Local(f)', d)
      BY <1>n DEF LeadInv
    <2>1. CASE f # F
      <3>1. Local(f)' = Local(f)
        BY <1>o, <1>v, <1>w, <2>1 DEF Local
      <3>2. \A d \in Day : objects'[f][d] = objects[f][d]
        BY <1>o, <2>1
      <3> QED
        BY <3>1, <3>2, LeadKept
    <2>2. CASE f = F /\ day \in Local(F)'
      BY <1>f, <1>n, <2>2, DayLeads DEF StoreInv
    <2>3. CASE f = F /\ Local(F)' = Local(F) /\ UNCHANGED objects
      BY <2>3, LeadKept
    <2> QED
      BY <1>1, <2>1, <2>2, <2>3
  \* The day's file leads as soon as nobody writes it.
  <1>2. ASSUME files'[F][day] # "none", stage' # "dump"
        PROVE  LeadInv'
    <2>1. day \in Local(F)'
      BY <1>2, <1>f, <1>w DEF Local
    <2> QED
      BY <1>1, <2>1
  <1>3. ASSUME Finish(t)
        PROVE  CopyInv'
    BY <1>3 DEF Finish, CopyInv
  <1>4. CASE OpenFile(t)
    <2>1. UNCHANGED objects /\ files[F][day] = "none" /\ stage = "open"
      BY <1>4 DEF OpenFile, StoreInv, AheadInv
    <2>2. stage' # "pruneS3"
      BY <1>4 DEF OpenFile, Finish
    <2>3. Local(F)' = Local(F)
      <3>1. CASE files' = Put(files, F, day, "partial") /\ stage' = "dump" /\ UNCHANGED todo
        <4>1. \A d \in Day : files'[F][d] = IF d = day THEN "partial" ELSE files[F][d]
          BY <1>f, <3>1, PutFacts
        <4>2. Writing(F, day)'
          BY <1>n, <3>1 DEF Writing, IsNext
        <4> QED
          BY <1>v, <1>w, <2>1, <4>1, <4>2 DEF Local
      <3>2. CASE UNCHANGED files /\ Finish(t)
        <4>1. stage' # "dump"
          BY <3>2 DEF Finish
        <4> QED
          BY <1>v, <1>w, <2>1, <3>2, <4>1 DEF Local
      <3> QED
        BY <1>4, <3>1, <3>2 DEF OpenFile
    <2> QED
      BY <1>1, <2>1, <2>2, <2>3 DEF CopyInv
  <1>5. CASE Dump(t)
    <2>1. UNCHANGED objects /\ stage = "dump" /\ stage' \notin {"dump", "pruneS3"}
      BY <1>5 DEF Dump, Finish
    <2>2. CASE files' = Put(files, F, day, "whole")
      <3>1. files'[F][day] = "whole"
        BY <1>f, <2>2, PutFacts
      <3> QED
        BY <1>2, <2>1, <3>1 DEF CopyInv
    <2>3. CASE \E x \in {"none", "partial"} : files' = Put(files, F, day, x)
      <3>1. PICK x \in {"none", "partial"} : files' = Put(files, F, day, x)
        BY <2>3
      <3>2. \A d \in Day : files'[F][d] = IF d = day THEN x ELSE files[F][d]
        BY <1>f, <3>1, PutFacts
      <3>3. CASE x = "partial"
        BY <1>2, <1>f, <2>1, <3>2, <3>3 DEF CopyInv
      <3>4. CASE x = "none"
        <4>1. Local(F)' = Local(F)
          BY <1>v, <1>w, <2>1, <3>2, <3>4 DEF Local
        <4> QED
          BY <1>1, <2>1, <4>1 DEF CopyInv
      <3> QED
        BY <3>3, <3>4
    <2> QED
      BY <1>5, <2>2, <2>3 DEF Dump
  <1>6. CASE Prune(t)
    <2>1. stage = "prune" /\ stage' \notin {"dump", "pruneS3"}
      BY <1>6 DEF Prune, Finish
    <2>2. PICK R \in SUBSET Excess(Present(files[F]), Keep[t[2]]) :
             files' = Without(files, F, R)
      BY <1>6 DEF Prune
    <2>3. day \notin R
      <3>1. \A e \in Present(files[F]) : e <= day
        BY <1>f, NightsAssumption DEF StoreInv, FutureInv, Present, Day
      <3>2. Present(files[F]) \in SUBSET Day /\ day \in Int
        BY <1>f, NightsAssumption DEF Present, Day
      <3>3. Keep[t[2]] \in Nat
        BY FolderOfEntry DEF TypeInv, TypeOK
      <3> QED
        BY <3>1, <3>2, <3>3, NewestStays
    <2>4. files'[F][day] = files[F][day]
      BY <1>f, <2>2, <2>3, WithoutFacts
    <2>5. files[F][day] = "whole"
      BY <1>n, <2>1 DEF StoreInv, TurnInv
    <2> QED
      BY <1>2, <2>1, <2>4, <2>5 DEF CopyInv
  <1>7. CASE Upload(t)
    <2>1. files[F][day] = "whole" /\ files' = files /\ stage' # "dump"
      BY <1>n, <1>7 DEF Upload, Finish, StoreInv, TurnInv
    <2>2. CopyInv'
      <3>1. CASE UNCHANGED todo
        <4>1. \A u \in todo' : IsNext(u)' => u = t
          BY <1>u, <3>1 DEF IsNext
        <4> QED
          BY <1>n, <2>1, <4>1 DEF CopyInv
      <3>2. CASE Finish(t)
        BY <1>3, <3>2
      <3> QED
        BY <1>7, <3>1, <3>2 DEF Upload
    <2> QED
      BY <1>2, <2>1, <2>2
  <1>8. CASE PruneS3(t)
    <2>1. files[F][day] # "none" /\ files' = files /\ Finish(t)
      BY <1>n, <1>8 DEF PruneS3, CopyInv
    <2>2. stage' # "dump"
      BY <2>1 DEF Finish
    <2> QED
      BY <1>2, <1>3, <2>1, <2>2
  <1> QED
    BY <1>4, <1>5, <1>6, <1>7, <1>8

\* A download brings the newest object listed, which is the newest object when the
\* listing is whole, and removes no file.
LEMMA DownloadLeads ==
    ASSUME TypeInv, StoreInv, LeadInv, CopyInv, FetchNewest \/ Fetched
    PROVE  LeadInv' /\ CopyInv'
  <1> DEFINE F == FolderOf[rst.entry]
  <1>f. /\ files \in Store /\ objects \in Store /\ rst \in Restore /\ F \in Folder
        /\ {"none", "partial", "whole"} = File
        /\ \A t \in todo : FolderOf[t[2]] \in Folder
        /\ todo # {} => day \in Day
    BY FolderOfEntry DEF FetchNewest, Fetched, TypeInv, TypeOK, Store, File, Restore
  <1>n. UNCHANGED <<day, objects, todo, stage>> /\ cut \subseteq cut'
    BY DEF FetchNewest, Fetched
  <1>i. \A u : IsNext(u)' <=> IsNext(u)
    BY <1>n DEF IsNext
  <1>v. \A f, d : Writing(f, d)' <=> Writing(f, d)
    BY <1>n, <1>i DEF Writing
  <1>1. ASSUME \A f \in Folder, d \in Day :
                  files[f][d] # "none" => files'[f][d] # "none"
        PROVE  CopyInv'
    BY <1>1, <1>f, <1>n, <1>i DEF CopyInv
  <1>2. CASE UNCHANGED files
    <2>1. \A f : Local(f)' = Local(f)
      BY <1>2, <1>v DEF Local
    <2> QED
      BY <1>1, <1>2, <1>n, <2>1 DEF LeadInv
  <1>3. CASE FetchNewest /\ ~ UNCHANGED files
    <2> PICK g \in Folder : g = F
      BY <1>f
    <2>1. /\ Page(objects[g]) # {}
          /\ files' = Put(files, g, Newest(Page(objects[g])), "partial")
          /\ g \notin cut' => Page(objects[g]) = Present(objects[g])
      BY <1>3 DEF FetchNewest
    <2>2. Page(objects[g]) \in SUBSET Day
      BY DEF Page, Present
    <2>3. PICK e \in Page(objects[g]) : /\ e = Newest(Page(objects[g]))
                                        /\ \A d \in Page(objects[g]) : d <= e
      BY <2>1, <2>2, NewestFacts
    <2>4. e \in Day /\ \A d \in Page(objects[g]) : e >= d
      BY <2>2, <2>3, NightsAssumption DEF Day
    <2>5. objects[g][e] # "none"
      BY <2>3 DEF Page, Present
    <2>6. ~ Writing(g, e)
      BY <2>5 DEF Writing, StoreInv, TurnInv
    <2>7. \A f \in Folder, d \in Day :
             files'[f][d] = IF f = g /\ d = e THEN "partial" ELSE files[f][d]
      BY <1>f, <2>1, <2>3, PutFacts
    <2>8. e \in Local(g)' /\ \A f \in Folder : f # g => Local(f)' = Local(f)
      <3>1. files'[g][e] = "partial" /\ ~ Writing(g, e)'
        BY <1>v, <2>4, <2>6, <2>7
      <3>2. ASSUME NEW f \in Folder, f # g
            PROVE  Local(f)' = Local(f)
        BY <1>v, <2>7, <3>2 DEF Local
      <3> QED
        BY <2>4, <3>1, <3>2 DEF Local
    <2>9. LeadInv'
      BY <1>n, <2>1, <2>4, <2>8 DEF LeadInv, Reaches
    <2> QED
      BY <1>1, <2>7, <2>9
  <1>4. CASE Fetched /\ ~ UNCHANGED files
    <2>1. /\ files[F][rst.day] # "none" /\ files' = Put(files, F, rst.day, rst.body)
          /\ rst.body = "whole"
      BY <1>4 DEF Fetched, StoreInv, FetchInv
    <2>2. \A f \in Folder, d \in Day : files[f][d] # "none" <=> files'[f][d] # "none"
      BY <1>f, <2>1, PutFacts
    <2>3. \A f \in Folder : Local(f)' = Local(f)
      BY <1>v, <2>2 DEF Local
    <2>4. LeadInv'
      BY <1>n, <2>3 DEF LeadInv
    <2> QED
      BY <1>1, <2>2, <2>4
  <1> QED
    BY <1>2, <1>3, <1>4

LEMMA LeadNext ==
    ASSUME OneDumpPerNight, TypeInv, StoreInv, TypeInv', StoreInv', LeadInv, CopyInv,
           [Next]_vars
    PROVE  LeadInv' /\ CopyInv'
  <1>1. ASSUME UNCHANGED <<day, files, objects, todo, stage, cut>>
        PROVE  LeadInv' /\ CopyInv'
    <2>1. \A u : IsNext(u)' <=> IsNext(u)
      BY <1>1 DEF IsNext
    <2>2. \A f, d : Writing(f, d)' <=> Writing(f, d)
      BY <1>1, <2>1 DEF Writing
    <2>3. \A f : Local(f)' = Local(f)
      BY <1>1, <2>2 DEF Local
    <2> QED
      BY <1>1, <2>1, <2>3 DEF LeadInv, CopyInv
  <1>2. ASSUME NEW D \in SUBSET Entry, StartNight(D)
        PROVE  LeadInv' /\ CopyInv'
    <2>1. /\ UNCHANGED <<files, objects, cut>>
          /\ stage = "sleep" /\ stage' \in {"sleep", "open"}
      BY <1>2 DEF StartNight
    <2>2. \A f : Local(f)' = Local(f)
      BY <2>1 DEF Local, Writing
    <2> QED
      BY <2>1, <2>2 DEF LeadInv, CopyInv
  <1>3. ASSUME CrashAndRestart
        PROVE  LeadInv' /\ CopyInv'
    <2>1. todo' = {} /\ UNCHANGED <<day, objects>>
      BY <1>3 DEF CrashAndRestart
    <2>2. CopyInv' /\ \A f, d : ~ Writing(f, d)'
      BY <2>1 DEF CopyInv, Writing
    <2>3. CASE files' = [f \in Folder |-> [d \in Day |-> "none"]]
      <3>1. \A f \in Folder : Local(f)' = {}
        BY <2>3 DEF Local
      <3> QED
        BY <2>2, <3>1 DEF LeadInv
    <2>4. CASE UNCHANGED <<files, cut>>
      <3> SUFFICES ASSUME NEW f \in Folder \ cut, Local(f)' # {}
                   PROVE  \A d \in Present(objects[f]) : Reaches(Local(f)', d)
        BY <2>1, <2>2, <2>4 DEF LeadInv
      <3>1. CASE \E d \in Local(f)' : Writing(f, d)
        <4>1. day \in Local(f)' /\ day' \in Day
          BY <3>1, <2>1 DEF Writing, Local
        <4> QED
          BY <4>1, <2>1, DayLeads DEF StoreInv
      <3>2. CASE ~ \E d \in Local(f)' : Writing(f, d)
        <4>1. Local(f)' = Local(f)
          BY <2>2, <2>4, <3>2 DEF Local
        <4> QED
          BY <4>1 DEF LeadInv
      <3> QED
        BY <3>1, <3>2
    <2> QED
      BY <1>3, <2>2, <2>3, <2>4 DEF CrashAndRestart
  <1>4. ASSUME (\E i \in Entry : StartRestore(i)) \/ Load \/ UNCHANGED vars
        PROVE  LeadInv' /\ CopyInv'
    BY <1>1, <1>4 DEF StartRestore, Load, vars
  <1> QED
    BY <1>2, <1>3, <1>4, TurnsLead, DownloadLeads DEF Next, Scheduler, Restorer

\* What is found first is the newest: a local file, or else a key of a whole listing.
LEMMA RestNext ==
    ASSUME TypeInv, StoreInv, LeadInv, RestInv, [Next]_vars
    PROVE  RestInv'
  <1>m. \A d \in Day : d \in Int /\ d > 0
    BY NightsAssumption DEF Day
  <1>1. ASSUME NEW i \in Entry, StartRestore(i)
        PROVE  RestInv'
    <2> DEFINE f == FolderOf[i]
               local == Present(files[f])
               W == Wholes(files[f]) \cup Wholes(objects[f])
    <2> SUFFICES ASSUME f \notin cut
                 PROVE  RestInv'
      BY <1>1 DEF StartRestore, RestInv
    <2>1. /\ f \in Folder /\ local \in SUBSET Day /\ W \in SUBSET Day
          /\ Wholes(files[f]) \subseteq local
      BY FolderOfEntry DEF Present, Wholes
    <2>2. best' = Newest(W) /\ (W = {} => best' = 0)
      BY <1>1 DEF StartRestore, Newest
    <2>3. W # {} => best' \in W
      BY <2>1, <2>2, NewestFacts
    <2>4. CASE local # {} /\ rst' = [entry |-> i, at |-> "load", day |-> Newest(local),
                                      body |-> "none"]
      <3>1. Newest(local) \in Day /\ \A e \in local : e <= Newest(local)
        BY <2>1, <2>4, NewestFacts
      <3> DEFINE n == Newest(local)
      <3> HIDE DEF n
      <3>2. \A e \in Wholes(files[f]) : n >= e
        BY <1>m, <2>1, <3>1 DEF n
      <3>3. \A d \in Present(objects[f]) : n >= d
        <4>1. CASE Local(f) # {}
          <5>1. \A d \in Present(objects[f]) : \E e \in Local(f) : e >= d
            BY <2>1, <4>1 DEF LeadInv, Reaches
          <5>2. \A e \in Local(f) : e \in Day /\ e <= n
            BY <3>1 DEF Local, Present, n
          <5>3. \A d \in Present(objects[f]) : d \in Day
            BY DEF Present
          <5> QED
            BY <1>m, <3>1, <5>1, <5>2, <5>3 DEF n
        <4>2. CASE Local(f) = {}
          <5>1. PICK x \in local : Writing(f, x)
            BY <2>4, <4>2 DEF Local, Present
          <5>2. day \in local
            BY <5>1 DEF Writing
          <5>3. \A d \in Present(objects[f]) : d \in Day /\ ~ (d > day)
            BY <2>1 DEF StoreInv, FutureInv, Present
          <5> QED
            BY <1>m, <2>1, <3>1, <5>2, <5>3 DEF n
        <4> QED
          BY <4>1, <4>2
      <3>4. n >= best'
        <4>1. \A e \in W : n >= e
          BY <3>2, <3>3 DEF Wholes, Present
        <4> QED
          BY <1>m, <2>2, <2>3, <3>1, <4>1 DEF n
      <3> QED
        BY <2>4, <3>4 DEF RestInv, n
    <2>5. CASE local = {} /\ rst' = [entry |-> i, at |-> "list", day |-> 0,
                                      body |-> "none"]
      <3>1. UNCHANGED objects /\ rst'.at = "list" /\ rst'.entry = i
        BY <1>1, <2>5 DEF StartRestore
      <3>2. best' = 0 \/ (best' \in Present(objects[f]) /\ best' \in Day)
        BY <2>1, <2>2, <2>3, <2>5 DEF Wholes, Present
      <3>3. best' = 0 \/ Reaches(Present(objects[f]), best')
        BY <1>m, <3>2 DEF Reaches
      <3> QED
        BY <3>1, <3>3 DEF RestInv
    <2> QED
      BY <1>1, <2>4, <2>5 DEF StartRestore
  <1>2. CASE FetchNewest
    <2> DEFINE P == Page(objects[FolderOf[rst.entry]])
               n == Newest(P)
    <2>c. cut \subseteq cut'
      BY <1>2 DEF FetchNewest
    <2>1. CASE rst' = NoRestore
      BY <2>1 DEF RestInv
    <2>2. CASE /\ P # {}
               /\ rst' = [rst EXCEPT !.at = "fetch", !.day = n,
                                       !.body = objects[FolderOf[rst.entry]][n]]
               /\ P = Present(objects[FolderOf[rst.entry]]) \/ FolderOf[rst.entry] \in cut'
      <3>1. P \in SUBSET Day
        BY DEF Page, Present
      <3>2. n \in Day /\ \A e \in P : e <= n
        BY <2>2, <3>1, NewestFacts
      <3>3. /\ best \in Int /\ rst \in Restore /\ rst.at = "list"
            /\ best' = best /\ rst # NoRestore
        BY <1>2, NightsAssumption DEF FetchNewest, TypeInv, TypeOK
      <3>4. rst'.at = "fetch" /\ rst'.day = n /\ rst'.entry = rst.entry
        BY <2>2, <3>3 DEF Restore
      <3>5. CASE FolderOf[rst.entry] \in cut'
        BY <3>4, <3>5 DEF RestInv
      <3>6. CASE FolderOf[rst.entry] \notin cut'
        <4>1. P = Present(objects[FolderOf[rst.entry]])
          BY <2>2, <3>6
        <4>2. best = 0 \/ \E d \in P : d >= best
          BY <2>c, <3>3, <3>6, <4>1 DEF RestInv, Reaches
        <4>3. n >= best
          BY <1>m, <3>1, <3>2, <3>3, <4>2
        <4> QED
          BY <3>3, <3>4, <4>3 DEF RestInv
      <3> QED
        BY <3>5, <3>6
    <2> QED
      BY <1>2, <2>1, <2>2 DEF FetchNewest
  <1>3. CASE Fetched
    <2>1. /\ rst \in Restore /\ best' = best /\ cut' = cut
          /\ FolderOf[rst.entry] \in cut \/ rst.day >= best
      BY <1>3 DEF Fetched, TypeInv, TypeOK, RestInv
    <2> QED
      BY <1>3, <2>1 DEF Fetched, RestInv, Restore
  <1>4. ASSUME Load \/ CrashAndRestart
        PROVE  RestInv'
    BY <1>4 DEF Load, CrashAndRestart, RestInv
  <1>5. ASSUME UNCHANGED <<objects, rst, best, cut>>
        PROVE  RestInv'
    BY <1>5 DEF RestInv
  <1>6. ASSUME NEW t \in todo, Upload(t) \/ PruneS3(t)
        PROVE  RestInv'
    <2>1. UNCHANGED <<rst, best, cut>> /\ best \in Int
      BY <1>6, NightsAssumption DEF Upload, PruneS3, TypeInv, TypeOK
    <2>2. rst # NoRestore => FolderOf[rst.entry] \in Folder
      BY FolderOfEntry DEF TypeInv, TypeOK, Restore
    <2>3. \A f \in Folder :
             Reaches(Present(objects[f]), best) => Reaches(Present(objects'[f]), best)
      BY <1>6, <2>1, ObjectsReach
    <2> QED
      BY <2>1, <2>2, <2>3 DEF RestInv
  <1>7. ASSUME NEW t \in todo, OpenFile(t) \/ Dump(t) \/ Prune(t)
        PROVE  RestInv'
    BY <1>5, <1>7 DEF OpenFile, Dump, Prune
  <1>8. ASSUME NEW D \in SUBSET Entry, StartNight(D)
        PROVE  RestInv'
    BY <1>5, <1>8 DEF StartNight
  <1>9. CASE UNCHANGED vars
    BY <1>5, <1>9 DEF vars
  <1> QED
    BY <1>1, <1>2, <1>3, <1>4, <1>6, <1>7, <1>8, <1>9 DEF Next, Scheduler, Restorer

\* When no folder is dumped twice in one night, a restore loads a file that is at
\* least as new as the newest whole backup there was, here or in S3, when it began
\* to look, however dumps, uploads, retention and failures come between, unless a
\* listing of the folder did not fit on one page.
THEOREM NewestIsRestored ==
    ASSUME OneDumpPerNight
    PROVE  Spec => []RestoresNewest
  <1> DEFINE Inv == TypeInv /\ StoreInv /\ NewestInv
  <1>1. Init => Inv
    <2>1. Init => LeadInv /\ CopyInv /\ RestInv
      BY DEF Init, LeadInv, CopyInv, RestInv, Local
    <2> QED
      BY <2>1, TypeInit, StoreInit DEF NewestInv
  <1>2. Inv /\ [Next]_vars => Inv'
    <2> SUFFICES ASSUME TypeInv, StoreInv, NewestInv, [Next]_vars
                 PROVE  Inv'
      OBVIOUS
    <2>1. TypeInv' /\ StoreInv'
      BY TypeNext, StoreNext
    <2>2. LeadInv' /\ CopyInv' /\ RestInv'
      BY <2>1, LeadNext, RestNext DEF NewestInv
    <2> QED
      BY <2>1, <2>2 DEF NewestInv
  <1>3. Inv => RestoresNewest
    BY DEF NewestInv, RestInv, RestoresNewest
  <1> QED
    BY <1>1, <1>2, <1>3, PTL DEF Spec

-----------------------------------------------------------------------------
(***************************************************************************)
(* The backups are an archive: every step is one of Archive's, or none of  *)
(* them.                                                                   *)
(***************************************************************************)
Both(fs, os) == Wholes(fs) \cup Wholes(os)

Fetching == rst # NoRestore /\ rst.at = "fetch"

\* The day's file is not whole before its dump is.
DumpInv ==
    \A t \in todo : IsNext(t) /\ stage = "dump" => files[FolderOf[t[2]]][day] # "whole"

\* An object of the day is downloaded only when the folder's turn is over.
FetchDayInv ==
    Fetching => /\ rst.day <= day
                /\ rst.day = day =>
                      \A t \in todo : FolderOf[t[2]] = FolderOf[rst.entry] =>
                          IsNext(t) /\ stage = "pruneS3"

\* A download brings nothing newer than what there is.
FetchOldInv == Fetching => rst.day <= NewestOf[FolderOf[rst.entry]]

ArcInv == DumpInv /\ FetchDayInv /\ FetchOldInv

\* The date that no other of the set exceeds is the newest.
LEMMA NewestUnique ==
    ASSUME NEW D \in SUBSET Day, NEW n \in D, \A e \in D : e <= n
    PROVE  Newest(D) = n
  <1>1. Newest(D) \in D /\ n <= Newest(D)
    BY NewestFacts
  <1>2. Newest(D) <= n /\ Newest(D) \in Day /\ n \in Day
    BY <1>1
  <1>3. Newest(D) \in Int /\ n \in Int
    BY <1>2, NightsAssumption DEF Day
  <1> QED
    BY <1>1, <1>2, <1>3

\* A larger set with nothing newer has the same newest date.
LEMMA SameNewest ==
    ASSUME NEW D \in SUBSET Day, NEW E \in SUBSET Day,
           D \subseteq E, \A e \in E : Reaches(D, e)
    PROVE  Newest(E) = Newest(D)
  <1>1. CASE D = {}
    BY <1>1 DEF Reaches
  <1>2. CASE D # {}
    <2>1. Newest(D) \in D /\ \A e \in D : e <= Newest(D)
      BY <1>2, NewestFacts
    <2>2. ASSUME NEW e \in E
          PROVE  e <= Newest(D)
      <3>1. PICK d \in D : d >= e
        BY DEF Reaches
      <3>2. d <= Newest(D) /\ d \in Day /\ e \in Day /\ Newest(D) \in Day
        BY <2>1
      <3> QED
        BY <3>1, <3>2, NightsAssumption DEF Day
    <2> QED
      BY <2>1, <2>2, NewestUnique
  <1> QED
    BY <1>1, <1>2

\* The mapped variables have the types of Archive.
LEMMA ArcTypes ==
    ASSUME TypeOK
    PROVE  /\ NewestOf \in [Folder -> 0..MaxDay] /\ CopiedOf \in [Folder -> 0..MaxDay]
           /\ \A f \in Folder : /\ NewestOf[f] = Newest(Both(files[f], objects[f]))
                                /\ CopiedOf[f] = Newest(Wholes(objects[f]))
                                /\ Both(files[f], objects[f]) \in SUBSET Day
  <1>1. \A f \in Folder : Both(files[f], objects[f]) \in SUBSET Day
                          /\ Wholes(objects[f]) \in SUBSET Day
    BY DEF Both, Wholes
  <1> QED
    BY <1>1, NewestDate DEF NewestOf, CopiedOf, Both

\* Steps of Archive, from what they do to each folder.
LEMMA ArcSame ==
    ASSUME day' = day,
           \A f \in Folder :
              /\ Newest(Both(files'[f], objects'[f])) = Newest(Both(files[f], objects[f]))
              /\ Newest(Wholes(objects'[f])) = Newest(Wholes(objects[f]))
    PROVE  UNCHANGED Arc!archiveVars
  BY DEF Arc!archiveVars, NewestOf, CopiedOf, Both

LEMMA ArcBackUp ==
    ASSUME day' = day, NEW F \in Folder,
           Newest(Both(files[F], objects[F])) < day,
           Newest(Both(files'[F], objects'[F])) = day,
           \A f \in Folder :
              /\ f # F => Newest(Both(files'[f], objects'[f]))
                             = Newest(Both(files[f], objects[f]))
              /\ Newest(Wholes(objects'[f])) = Newest(Wholes(objects[f]))
    PROVE  Arc!BackUp(F)
  BY DEF Arc!BackUp, NewestOf, CopiedOf, Both

LEMMA ArcCopyOut ==
    ASSUME day' = day, NEW F \in Folder,
           Newest(Both(files[F], objects[F])) = day,
           Newest(Wholes(objects[F])) < day,
           Newest(Wholes(objects'[F])) = day,
           \A f \in Folder :
              /\ Newest(Both(files'[f], objects'[f])) = Newest(Both(files[f], objects[f]))
              /\ f # F => Newest(Wholes(objects'[f])) = Newest(Wholes(objects[f]))
    PROVE  Arc!CopyOut(F)
  BY DEF Arc!CopyOut, NewestOf, CopiedOf, Both

\* Dates before the night's.
LEMMA BeforeToday ==
    ASSUME TypeInv, FutureInv, NEW F \in Folder
    PROVE  /\ \A d \in Both(files[F], objects[F]) : d \in Day /\ d <= day
           /\ \A d \in Wholes(objects[F]) : d \in Day /\ d <= day
  BY NightsAssumption DEF TypeInv, TypeOK, FutureInv, Both, Wholes, Day

\* Dates up to a day that is not among them are before it.
LEMMA NewestBefore ==
    ASSUME NEW D \in SUBSET Day, NEW d \in Day, \A e \in D : e <= d, d \notin D
    PROVE  Newest(D) < d
  <1>1. CASE D = {}
    BY <1>1, NightsAssumption DEF Newest, Day
  <1>2. CASE D # {}
    <2>1. Newest(D) \in D
      BY <1>2, NewestFacts
    <2>2. Newest(D) <= d /\ Newest(D) # d /\ Newest(D) \in Day
      BY <2>1
    <2> QED
      BY <2>2, NightsAssumption DEF Day
  <1> QED
    BY <1>1, <1>2

\* The scheduler backs a folder up, copies it out, or does nothing to the archive.
LEMMA TurnsArchive ==
    ASSUME TypeInv, StoreInv, DumpInv, NEW t \in todo,
           OpenFile(t) \/ Dump(t) \/ Prune(t) \/ Upload(t) \/ PruneS3(t)
    PROVE  \/ UNCHANGED Arc!archiveVars
           \/ \E f \in Folder : Arc!BackUp(f) \/ Arc!CopyOut(f)
  <1> PICK F \in Folder : F = FolderOf[t[2]]
    BY FolderOfEntry DEF TypeInv, TypeOK
  <1>f. /\ files \in Store /\ objects \in Store /\ day \in Day /\ IsNext(t)
        /\ {"none", "partial", "whole"} = File /\ day' = day
        /\ Keep[t[2]] \in Nat
    BY FolderOfEntry
       DEF OpenFile, Dump, Prune, Upload, PruneS3, TypeInv, TypeOK, Store, File
  <1>b. /\ \A d \in Both(files[F], objects[F]) : d \in Day /\ d <= day
        /\ \A d \in Wholes(objects[F]) : d \in Day /\ d <= day
    BY BeforeToday DEF StoreInv
  <1>d. day \in Int /\ day <= day /\ ~ (day < day)
    BY <1>f DEF Day
  <1>n. \A f \in Folder : /\ Both(files[f], objects[f]) \in SUBSET Day
                          /\ Wholes(objects[f]) \in SUBSET Day
    BY DEF Both, Wholes
  \* The file of the day changes, and neither is nor becomes whole.
  <1>1. ASSUME NEW x \in File, files' = Put(files, F, day, x), UNCHANGED objects,
               x # "whole", files[F][day] # "whole"
        PROVE  UNCHANGED Arc!archiveVars
    <2>1. \A f \in Folder, d \in Day :
             files'[f][d] = IF f = F /\ d = day THEN x ELSE files[f][d]
      BY <1>f, <1>1, PutFacts
    <2>2. \A f \in Folder : Both(files'[f], objects'[f]) = Both(files[f], objects[f])
      BY <1>1, <2>1 DEF Both, Wholes
    <2> QED
      BY <1>f, <1>1, <2>2, ArcSame
  <1>2. CASE OpenFile(t)
    <2>1. CASE files' = Put(files, F, day, "partial")
      <3>1. files[F][day] = "none" /\ UNCHANGED objects
        BY <1>2, <1>f DEF OpenFile, StoreInv, AheadInv
      <3> QED
        BY <1>f, <1>1, <2>1, <3>1
    <2>2. CASE UNCHANGED files
      BY <1>2, <1>f, <2>2, ArcSame DEF OpenFile
    <2> QED
      BY <1>2, <2>1, <2>2 DEF OpenFile
  <1>3. CASE Dump(t)
    <2>1. files[F][day] # "whole" /\ objects[F][day] = "none" /\ UNCHANGED objects
      BY <1>3, <1>f DEF Dump, DumpInv, StoreInv, TurnInv
    <2>2. CASE files' = Put(files, F, day, "whole")
      <3>1. \A f \in Folder, d \in Day :
               files'[f][d] = IF f = F /\ d = day THEN "whole" ELSE files[f][d]
        BY <1>f, <2>2, PutFacts
      <3>2. \A f \in Folder :
               f # F => Both(files'[f], objects'[f]) = Both(files[f], objects[f])
        BY <2>1, <3>1 DEF Both, Wholes
      <3>3. Both(files'[F], objects'[F]) = Both(files[F], objects[F]) \cup {day}
        BY <1>f, <2>1, <3>1 DEF Both, Wholes
      <3>4. day \notin Both(files[F], objects[F])
        BY <2>1 DEF Both, Wholes
      <3>5. Newest(Both(files[F], objects[F])) < day
        BY <1>b, <1>f, <1>n, <3>4, NewestBefore
      <3>6. Newest(Both(files'[F], objects'[F])) = day
        BY <1>b, <1>d, <1>f, <1>n, <3>3, NewestUnique
      <3> QED
        BY <1>f, <2>1, <3>2, <3>5, <3>6, ArcBackUp
    <2>3. CASE \E x \in {"none", "partial"} : files' = Put(files, F, day, x)
      BY <1>1, <1>f, <2>1, <2>3
    <2> QED
      BY <1>3, <2>2, <2>3 DEF Dump
  <1>4. CASE Prune(t)
    <2>1. PICK R \in SUBSET Excess(Present(files[F]), Keep[t[2]]) :
             files' = Without(files, F, R)
      BY <1>4 DEF Prune
    <2>2. files[F][day] = "whole" /\ UNCHANGED objects
      BY <1>4, <1>f DEF Prune, StoreInv, TurnInv
    <2>3. \A f \in Folder, d \in Day :
             files'[f][d] = IF f = F /\ d \in R THEN "none" ELSE files[f][d]
      BY <1>f, <2>1, WithoutFacts
    <2>4. \A d \in Present(files[F]) : d <= day
      BY <1>d, <1>f, NightsAssumption DEF StoreInv, FutureInv, Present, Day
    <2>5. day \notin R
      <3>1. Present(files[F]) \in SUBSET Day
        BY DEF Present
      <3> QED
        BY <1>d, <1>f, <2>1, <2>4, <3>1, NewestStays
    <2>6. /\ day \in Both(files'[F], objects'[F])
          /\ Both(files'[F], objects'[F]) \subseteq Both(files[F], objects[F])
      BY <1>f, <2>2, <2>3, <2>5 DEF Both, Wholes
    <2>7. /\ Newest(Both(files'[F], objects'[F])) = day
          /\ Newest(Both(files[F], objects[F])) = day
      <3>1. Both(files'[F], objects'[F]) \in SUBSET Day
        BY <1>n, <2>6
      <3> QED
        BY <1>b, <1>n, <2>6, <3>1, NewestUnique
    <2>8. \A f \in Folder :
             f # F => Both(files'[f], objects'[f]) = Both(files[f], objects[f])
      BY <2>2, <2>3 DEF Both, Wholes
    <2> QED
      BY <1>f, <2>2, <2>7, <2>8, ArcSame
  <1>5. CASE Upload(t)
    <2>1. /\ files[F][day] = "whole" /\ objects[F][day] = "none" /\ UNCHANGED files
      BY <1>5, <1>f DEF Upload, StoreInv, TurnInv
    <2>2. CASE objects' = Put(objects, F, day, files[F][day])
      <3>1. \A f \in Folder, d \in Day :
               objects'[f][d] = IF f = F /\ d = day THEN "whole" ELSE objects[f][d]
        BY <1>f, <2>1, <2>2, PutFacts
      <3>2. \A f \in Folder : Both(files'[f], objects'[f]) = Both(files[f], objects[f])
        BY <2>1, <3>1 DEF Both, Wholes
      <3>3. Wholes(objects'[F]) = Wholes(objects[F]) \cup {day}
        BY <1>f, <3>1 DEF Wholes
      <3>4. \A f \in Folder : f # F => Wholes(objects'[f]) = Wholes(objects[f])
        BY <3>1 DEF Wholes
      <3>5. day \in Both(files[F], objects[F]) /\ day \notin Wholes(objects[F])
        BY <1>f, <2>1 DEF Both, Wholes
      <3>6. Newest(Both(files[F], objects[F])) = day
        BY <1>b, <1>n, <3>5, NewestUnique
      <3>7. Newest(Wholes(objects[F])) < day
        BY <1>b, <1>f, <1>n, <3>5, NewestBefore
      <3>8. Newest(Wholes(objects'[F])) = day
        BY <1>b, <1>d, <1>f, <1>n, <3>3, NewestUnique
      <3> QED
        BY <1>f, <3>2, <3>4, <3>6, <3>7, <3>8, ArcCopyOut
    <2>3. CASE UNCHANGED objects
      BY <1>f, <2>1, <2>3, ArcSame
    <2> QED
      BY <1>5, <2>2, <2>3 DEF Upload
  <1>6. CASE PruneS3(t)
    <2>1. PICK R \in SUBSET Excess(Page(objects[F]), Keep[t[2]]) :
             objects' = Without(objects, F, R)
      BY <1>6 DEF PruneS3
    <2>2. objects[F][day] = "whole" /\ UNCHANGED files
      BY <1>6, <1>f DEF PruneS3, StoreInv, TurnInv
    <2>3. \A f \in Folder, d \in Day :
             objects'[f][d] = IF f = F /\ d \in R THEN "none" ELSE objects[f][d]
      BY <1>f, <2>1, WithoutFacts
    <2>4. Page(objects[F]) \in SUBSET Day /\ \A d \in Page(objects[F]) : d <= day
      BY <1>d, <1>f, NightsAssumption DEF StoreInv, FutureInv, Page, Present, Day
    <2>5. day \notin R
      BY <1>d, <1>f, <2>1, <2>4, NewestStays
    <2>6. /\ day \in Wholes(objects'[F])
          /\ Wholes(objects'[F]) \subseteq Wholes(objects[F])
          /\ day \in Both(files'[F], objects'[F])
          /\ Both(files'[F], objects'[F]) \subseteq Both(files[F], objects[F])
      BY <1>f, <2>2, <2>3, <2>5 DEF Both, Wholes
    <2>7. /\ Newest(Both(files'[F], objects'[F])) = day
          /\ Newest(Both(files[F], objects[F])) = day
          /\ Newest(Wholes(objects'[F])) = day
          /\ Newest(Wholes(objects[F])) = day
      <3>1. /\ Both(files'[F], objects'[F]) \in SUBSET Day
            /\ Wholes(objects'[F]) \in SUBSET Day
        BY <1>n, <2>6
      <3> QED
        BY <1>b, <1>n, <2>6, <3>1, NewestUnique
    <2>8. \A f \in Folder : f # F =>
             /\ Both(files'[f], objects'[f]) = Both(files[f], objects[f])
             /\ Wholes(objects'[f]) = Wholes(objects[f])
      BY <2>2, <2>3 DEF Both, Wholes
    <2> QED
      BY <1>f, <2>7, <2>8, ArcSame
  <1> QED
    BY <1>2, <1>3, <1>4, <1>5, <1>6

\* A download writes over a file whose object is whole, and brings nothing newer.
LEMMA DownloadsArchive ==
    ASSUME TypeInv, StoreInv, FetchOldInv, FetchNewest \/ Fetched
    PROVE  UNCHANGED Arc!archiveVars
  <1> PICK F \in Folder : F = FolderOf[rst.entry]
    BY FolderOfEntry DEF FetchNewest, Fetched, TypeInv, TypeOK, Restore
  <1>f. /\ files \in Store /\ objects \in Store /\ rst \in Restore
        /\ {"none", "partial", "whole"} = File
    BY DEF FetchNewest, Fetched, TypeInv, TypeOK, Store, File
  <1>n. UNCHANGED <<day, objects>>
    BY DEF FetchNewest, Fetched
  <1>1. CASE UNCHANGED files
    BY <1>n, <1>1, ArcSame
  <1>2. CASE FetchNewest /\ ~ UNCHANGED files
    <2>1. /\ Page(objects[F]) # {}
          /\ files' = Put(files, F, Newest(Page(objects[F])), "partial")
      BY <1>2 DEF FetchNewest
    <2>2. Page(objects[F]) \in SUBSET Day
      BY DEF Page, Present
    <2>3. PICK e \in Page(objects[F]) : e = Newest(Page(objects[F]))
      BY <2>1, <2>2, NewestFacts
    <2>4. e \in Wholes(objects[F])
      BY <2>3 DEF Page, StoreInv, ObjectsWhole
    <2>5. \A f \in Folder, d \in Day :
             files'[f][d] = IF f = F /\ d = e THEN "partial" ELSE files[f][d]
      BY <1>f, <2>1, <2>3, PutFacts
    <2>6. \A f \in Folder : Both(files'[f], objects'[f]) = Both(files[f], objects[f])
      BY <1>n, <2>4, <2>5 DEF Both, Wholes
    <2> QED
      BY <1>n, <2>6, ArcSame
  <1>3. CASE Fetched /\ ~ UNCHANGED files
    <2>1. /\ files' = Put(files, F, rst.day, "whole")
          /\ rst.day \in Day /\ rst.day <= NewestOf[F]
      BY <1>3 DEF Fetched, StoreInv, FetchInv, FetchOldInv, Fetching
    <2>2. \A f \in Folder, d \in Day :
             files'[f][d] = IF f = F /\ d = rst.day THEN "whole" ELSE files[f][d]
      BY <1>f, <2>1, PutFacts
    <2> DEFINE D == Both(files[F], objects[F])
    <2>3. Both(files'[F], objects'[F]) = D \cup {rst.day}
      BY <1>n, <2>1, <2>2 DEF Both, Wholes
    <2>4. \A f \in Folder :
             f # F => Both(files'[f], objects'[f]) = Both(files[f], objects[f])
      BY <1>n, <2>2 DEF Both, Wholes
    <2>5. D \in SUBSET Day /\ NewestOf[F] = Newest(D)
      BY ArcTypes DEF TypeInv
    <2>6. D # {}
      BY <2>1, <2>5, NightsAssumption DEF Newest, Day
    <2>7. \A d \in D \cup {rst.day} : Reaches(D, d)
      <3>1. Newest(D) \in D /\ Reaches(D, rst.day)
        BY <2>1, <2>5, <2>6, NewestFacts DEF Reaches
      <3>2. \A d \in D : d >= d
        BY <2>5, NightsAssumption DEF Day
      <3> QED
        BY <3>1, <3>2 DEF Reaches
    <2>8. Newest(D \cup {rst.day}) = Newest(D)
      <3> HIDE DEF D
      <3> QED
        BY <2>1, <2>5, <2>7, SameNewest
    <2> QED
      BY <1>n, <2>3, <2>4, <2>8, ArcSame
  <1> QED
    BY <1>1, <1>2, <1>3

\* Every step is a step of Archive or none of them.
LEMMA ArcNext ==
    ASSUME TypeInv, StoreInv, DumpInv, FetchOldInv, [Next]_vars
    PROVE  \/ UNCHANGED Arc!archiveVars
           \/ \E f \in Folder : Arc!BackUp(f) \/ Arc!CopyOut(f)
           \/ UNCHANGED <<NewestOf, CopiedOf>> /\ Arc!Midnight
           \/ CrashAndRestart /\ Arc!LoseDisk
  <1>1. ASSUME NEW D \in SUBSET Entry, StartNight(D)
        PROVE  UNCHANGED <<NewestOf, CopiedOf>> /\ Arc!Midnight
    BY <1>1 DEF StartNight, Arc!Midnight, NewestOf, CopiedOf
  <1>2. ASSUME UNCHANGED <<day, files, objects>>
        PROVE  UNCHANGED Arc!archiveVars
    BY <1>2, ArcSame
  <1>3. CASE CrashAndRestart
    <2>1. CASE UNCHANGED files
      BY <1>2, <1>3, <2>1 DEF CrashAndRestart
    <2>2. CASE files' = [f \in Folder |-> [d \in Day |-> "none"]]
      <3>1. UNCHANGED <<day, objects>>
        BY <1>3 DEF CrashAndRestart
      <3>2. \A f \in Folder : Wholes(files'[f]) = {}
        BY <2>2 DEF Wholes
      <3>3. NewestOf' = [f \in Folder |-> Newest(Wholes(objects[f]))]
        <4>1. NewestOf' = [f \in Folder |-> Newest(Wholes(files'[f]) \cup Wholes(objects'[f]))]
          BY DEF NewestOf
        <4>2. \A f \in Folder :
                 Wholes(files'[f]) \cup Wholes(objects'[f]) = Wholes(objects[f])
          BY <3>1, <3>2
        <4> QED
          BY <4>1, <4>2
      <3>4. Arc!LoseDisk
        BY <3>1, <3>3 DEF Arc!LoseDisk, CopiedOf
      <3> QED
        BY <1>3, <3>4
    <2> QED
      BY <1>3, <2>1, <2>2 DEF CrashAndRestart
  <1>4. CASE (\E i \in Entry : StartRestore(i)) \/ Load \/ UNCHANGED vars
    BY <1>2, <1>4 DEF StartRestore, Load, vars
  <1> QED
    BY <1>1, <1>3, <1>4, TurnsArchive, DownloadsArchive DEF Next, Scheduler, Restorer

\* The dump and the download of one folder keep out of each other's way.
LEMMA TurnsFollow ==
    ASSUME TypeInv, DumpInv, FetchDayInv, TypeInv', NEW t \in todo,
           OpenFile(t) \/ Dump(t) \/ Prune(t) \/ Upload(t) \/ PruneS3(t)
    PROVE  DumpInv' /\ FetchDayInv'
  <1>1. /\ IsNext(t) /\ UNCHANGED <<day, rst>> /\ todo' \subseteq todo
        /\ stage # "pruneS3" \/ todo' = todo \ {t}
        /\ \A u \in todo : IsNext(u) => u = t
    BY NextIsUnique
       DEF OpenFile, Dump, Prune, Upload, PruneS3, Finish, TypeInv, TypeOK
  <1>2. FetchDayInv'
    BY <1>1 DEF FetchDayInv, Fetching
  <1>3. CASE stage' # "dump"
    BY <1>2, <1>3 DEF DumpInv
  <1>4. CASE stage' = "dump"
    <2> PICK F \in Folder : F = FolderOf[t[2]]
      BY FolderOfEntry DEF TypeInv, TypeOK
    <2>1. /\ files' = Put(files, F, day, "partial") /\ UNCHANGED todo
          /\ stage = "open"
      BY <1>4 DEF OpenFile, Dump, Prune, Upload, PruneS3, Finish
    <2>2. files \in Store /\ day \in Day /\ "partial" \in File
      BY <2>1 DEF TypeInv, TypeOK, Store, File
    <2>3. files'[F][day] = "partial"
      BY <2>1, <2>2, PutFacts
    <2>4. \A u \in todo' : IsNext(u)' => u = t
      BY <1>1, <2>1 DEF IsNext
    <2>5. DumpInv'
      BY <1>1, <2>3, <2>4 DEF DumpInv
    <2> QED
      BY <1>2, <2>5
  <1> QED
    BY <1>3, <1>4

\* A download that begins or ends keeps what the dump relies on.
LEMMA DownloadsFollow ==
    ASSUME TypeInv, StoreInv, DumpInv, FetchDayInv, FetchNewest \/ Fetched
    PROVE  DumpInv' /\ FetchDayInv' /\ FetchOldInv'
  <1> PICK F \in Folder : F = FolderOf[rst.entry]
    BY FolderOfEntry DEF FetchNewest, Fetched, TypeInv, TypeOK, Restore
  <1>f. /\ files \in Store /\ objects \in Store /\ rst \in Restore
        /\ {"none", "partial", "whole"} = File
        /\ \A t \in todo : FolderOf[t[2]] \in Folder
        /\ todo # {} => day \in Day /\ stage \in {"open", "dump", "prune", "upload", "pruneS3"}
    BY FolderOfEntry DEF FetchNewest, Fetched, TypeInv, TypeOK, Store, File, Restore
  <1>n. UNCHANGED <<day, objects, todo, stage>>
    BY DEF FetchNewest, Fetched
  <1>i. \A u : IsNext(u)' <=> IsNext(u)
    BY <1>n DEF IsNext
  <1>1. CASE rst' = NoRestore /\ UNCHANGED files
    BY <1>1, <1>n, <1>i DEF DumpInv, FetchDayInv, FetchOldInv, Fetching
  <1>2. CASE FetchNewest /\ ~ (rst' = NoRestore /\ UNCHANGED files)
    <2>1. /\ Page(objects[F]) # {}
          /\ files' = Put(files, F, Newest(Page(objects[F])), "partial")
          /\ rst' = [rst EXCEPT !.at = "fetch", !.day = Newest(Page(objects[F])),
                                !.body = objects[F][Newest(Page(objects[F]))]]
      BY <1>2 DEF FetchNewest
    <2>2. Page(objects[F]) \in SUBSET Day
      BY DEF Page, Present
    <2>3. PICK e \in Page(objects[F]) : e = Newest(Page(objects[F]))
      BY <2>1, <2>2, NewestFacts
    <2>4. e \in Wholes(objects[F]) /\ e \in Day /\ objects[F][e] # "none"
      BY <2>3 DEF Page, Present, StoreInv, ObjectsWhole
    <2>5. \A f \in Folder, d \in Day :
             files'[f][d] = IF f = F /\ d = e THEN "partial" ELSE files[f][d]
      BY <1>f, <2>1, <2>3, PutFacts
    <2>6. DumpInv'
      BY <1>f, <1>n, <1>i, <2>5 DEF DumpInv
    <2>7. rst'.day = e /\ rst'.entry = rst.entry
      BY <1>f, <2>1, <2>3 DEF Restore
    <2>8. e <= day
      BY <2>4, NightsAssumption DEF StoreInv, FutureInv, TypeInv, TypeOK, Day
    <2>9. ASSUME e = day, NEW t \in todo, FolderOf[t[2]] = F
          PROVE  IsNext(t) /\ stage = "pruneS3"
      <3>1. IsNext(t) /\ stage # "open"
        BY <2>4, <2>9 DEF StoreInv, AheadInv
      <3>2. stage \notin {"dump", "prune", "upload"}
        BY <2>4, <2>9, <3>1 DEF StoreInv, TurnInv
      <3> QED
        BY <1>f, <3>1, <3>2
    <2>10. FetchDayInv'
      BY <1>n, <1>i, <2>7, <2>8, <2>9 DEF FetchDayInv
    <2>11. FetchOldInv'
      <3>1. Wholes(files'[F]) \cup Wholes(objects'[F]) \in SUBSET Day
        BY DEF Wholes
      <3>2. e \in Wholes(files'[F]) \cup Wholes(objects'[F])
        BY <1>n, <2>4
      <3>3. e <= Newest(Wholes(files'[F]) \cup Wholes(objects'[F]))
        BY <3>1, <3>2, NewestFacts
      <3> QED
        BY <2>7, <3>3 DEF FetchOldInv, NewestOf
    <2> QED
      BY <2>6, <2>10, <2>11
  <1>3. CASE Fetched /\ ~ (rst' = NoRestore /\ UNCHANGED files)
    <2>1. /\ rst' = [rst EXCEPT !.at = "load"] /\ Fetching /\ rst.day \in Day
          /\ \/ UNCHANGED files
             \/ files' = Put(files, F, rst.day, rst.body) /\ rst.body \in File
      BY <1>3 DEF Fetched, StoreInv, FetchInv, Fetching, File
    <2>2. ~ Fetching'
      BY <1>f, <2>1 DEF Fetching, Restore
    <2>3. \A f \in Folder, d \in Day :
             f # F \/ d # rst.day => files'[f][d] = files[f][d]
      BY <1>f, <2>1, PutFacts
    <2>4. ASSUME NEW t \in todo, IsNext(t), stage = "dump"
          PROVE  files'[FolderOf[t[2]]][day] # "whole"
      <3>1. FolderOf[t[2]] # F \/ day # rst.day
        BY <2>1, <2>4 DEF FetchDayInv
      <3> QED
        BY <1>f, <2>3, <2>4, <3>1 DEF DumpInv
    <2>5. DumpInv'
      BY <1>n, <1>i, <2>4 DEF DumpInv
    <2> QED
      BY <2>2, <2>5 DEF FetchDayInv, FetchOldInv
  <1> QED
    BY <1>1, <1>2, <1>3

\* As nothing ever becomes older, what is fetched stays as old as it was.
LEMMA FetchStaysOld ==
    ASSUME TypeInv, StoreInv, TypeInv', DumpInv, FetchOldInv, [Next]_vars,
           UNCHANGED rst, ~ CrashAndRestart
    PROVE  FetchOldInv'
  <1> SUFFICES ASSUME Fetching
               PROVE  rst.day <= NewestOf'[FolderOf[rst.entry]]
    BY DEF FetchOldInv, Fetching
  <1> PICK F \in Folder : F = FolderOf[rst.entry]
    BY FolderOfEntry DEF Fetching, TypeInv, TypeOK, Restore
  <1>1. /\ NewestOf \in [Folder -> 0..MaxDay] /\ rst.day \in Int /\ day \in Int
        /\ rst.day <= NewestOf[F]
    BY ArcTypes, NightsAssumption DEF TypeInv, TypeOK, Fetching, FetchOldInv, Restore
  <1>2. CASE UNCHANGED NewestOf
    BY <1>1, <1>2
  <1>3. CASE \E f \in Folder : Arc!BackUp(f)
    <2>1. PICK f \in Folder : /\ NewestOf[f] < day
                              /\ NewestOf' = [NewestOf EXCEPT ![f] = day]
      BY <1>3 DEF Arc!BackUp
    <2> QED
      BY <1>1, <2>1, NightsAssumption
  <1> QED
    BY <1>2, <1>3, ArcNext DEF Arc!archiveVars, Arc!CopyOut

\* The invariant of the refinement holds through every step.
LEMMA ArcInvNext ==
    ASSUME TypeInv, StoreInv, TypeInv', ArcInv, [Next]_vars
    PROVE  ArcInv'
  <1> USE DEF ArcInv
  <1>1. ASSUME NEW t \in todo,
               OpenFile(t) \/ Dump(t) \/ Prune(t) \/ Upload(t) \/ PruneS3(t)
        PROVE  ArcInv'
    <2>1. UNCHANGED rst /\ ~ CrashAndRestart
      <3>1. UNCHANGED rst /\ UNCHANGED crashes
        BY <1>1 DEF OpenFile, Dump, Prune, Upload, PruneS3
      <3> QED
        BY <3>1 DEF CrashAndRestart, TypeInv, TypeOK
    <2> QED
      BY <1>1, <2>1, TurnsFollow, FetchStaysOld
  <1>2. CASE FetchNewest \/ Fetched
    BY <1>2, DownloadsFollow
  <1>3. CASE (\E i \in Entry : StartRestore(i)) \/ Load
    <2>1. UNCHANGED <<day, files, objects, todo, stage>> /\ ~ Fetching'
      <3>1. CASE Load
        BY <3>1 DEF Load, Fetching
      <3>2. ASSUME NEW i \in Entry, StartRestore(i)
            PROVE  UNCHANGED <<day, files, objects, todo, stage>> /\ ~ Fetching'
        <4>1. rst'.at # "fetch" /\ UNCHANGED <<day, files, objects, todo, stage>>
          BY <3>2 DEF StartRestore
        <4> QED
          BY <4>1 DEF Fetching
      <3> QED
        BY <1>3, <3>1, <3>2
    <2> QED
      BY <2>1 DEF DumpInv, FetchDayInv, FetchOldInv, IsNext
  <1>4. ASSUME NEW D \in SUBSET Entry, StartNight(D)
        PROVE  ArcInv'
    <2>1. /\ UNCHANGED <<files, objects, rst>> /\ stage' \in {"sleep", "open"}
          /\ day' = day + 1 /\ day \in Int
      BY <1>4, NightsAssumption DEF StartNight, TypeInv, TypeOK
    <2>2. Fetching => rst.day \in Int
      BY NightsAssumption DEF Fetching, TypeInv, TypeOK, Restore
    <2> QED
      BY <2>1, <2>2 DEF DumpInv, FetchDayInv, FetchOldInv, Fetching, NewestOf
  <1>5. CASE CrashAndRestart
    BY <1>5 DEF CrashAndRestart, DumpInv, FetchDayInv, FetchOldInv, Fetching
  <1>6. CASE UNCHANGED vars
    BY <1>6 DEF vars, DumpInv, FetchDayInv, FetchOldInv, Fetching, IsNext, NewestOf
  <1> QED
    BY <1>1, <1>2, <1>3, <1>4, <1>5, <1>6 DEF Next, Scheduler, Restorer

\* When no folder is dumped twice in one night, the scheduler, retention, uploads,
\* downloads and crashes make an Archive of the files and objects: the newest whole
\* backup of a folder never becomes older, but for a volume that is lost, and then
\* the newest of its objects is left.
THEOREM BackupsImplementArchive ==
    ASSUME OneDumpPerNight
    PROVE  Spec => ImplementsArchive
  <1> DEFINE Inv == TypeInv /\ StoreInv /\ ArcInv
  <1>1. Init => Inv /\ Arc!ArchiveInit
    <2> SUFFICES ASSUME Init
                 PROVE  ArcInv /\ Arc!ArchiveInit
      BY TypeInit, StoreInit
    <2>1. ArcInv
      BY DEF Init, ArcInv, DumpInv, FetchDayInv, FetchOldInv, Fetching
    <2>2. \A f \in Folder : Wholes(files[f]) = {} /\ Wholes(objects[f]) = {}
      BY DEF Init, Wholes
    <2>3. Arc!ArchiveInit
      BY <2>2 DEF Init, Arc!ArchiveInit, NewestOf, CopiedOf, Newest
    <2> QED
      BY <2>1, <2>3
  <1>2. Inv /\ [Next]_vars => Inv' /\ [Arc!ArchiveNext]_(Arc!archiveVars)
    <2> SUFFICES ASSUME TypeInv, StoreInv, ArcInv, [Next]_vars
                 PROVE  Inv' /\ [Arc!ArchiveNext]_(Arc!archiveVars)
      OBVIOUS
    <2>1. TypeInv' /\ StoreInv'
      BY TypeNext, StoreNext
    <2>2. ArcInv'
      BY <2>1, ArcInvNext
    <2>3. [Arc!ArchiveNext]_(Arc!archiveVars)
      BY ArcNext DEF ArcInv, Arc!ArchiveNext
    <2> QED
      BY <2>1, <2>2, <2>3
  <1> QED
    BY <1>1, <1>2, PTL DEF Spec, ImplementsArchive, Arc!ArchiveSpec

================================================================================
