--------------------------- MODULE MigrationProofs ---------------------------
(***************************************************************************)
(* Proofs about Migration, for every number of entries, servers, tables,   *)
(* rows, faults and bounds.                                                *)
(***************************************************************************)
EXTENDS Migration, FiniteSetTheorems, TLAPS

-----------------------------------------------------------------------------
(***************************************************************************)
(* Contents                                                                *)
(***************************************************************************)
LEMMA EmptyDbContent == EmptyDb \in Content /\ EmptyDb # NoDb
  <1>1. EmptyDb \in [{} -> SUBSET Record]
    BY DEF EmptyDb
  <1>2. {} \in SUBSET Table
    OBVIOUS
  <1>3. EmptyDb \in Content
    BY <1>1, <1>2 DEF Content
  <1> QED
    BY <1>3, NoDbIsNoContent

LEMMA ContentShape ==
    ASSUME NEW c
    PROVE  c \in Content <=>
              /\ DOMAIN c \subseteq Table
              /\ c = [t \in DOMAIN c |-> c[t]]
              /\ \A t \in DOMAIN c : c[t] \subseteq Record
  <1>1. ASSUME c \in Content
        PROVE  /\ DOMAIN c \subseteq Table
               /\ c = [t \in DOMAIN c |-> c[t]]
               /\ \A t \in DOMAIN c : c[t] \subseteq Record
    <2>1. PICK T \in SUBSET Table : c \in [T -> SUBSET Record]
      BY <1>1 DEF Content
    <2> QED
      BY <2>1
  <1>2. ASSUME DOMAIN c \subseteq Table,
               c = [t \in DOMAIN c |-> c[t]],
               \A t \in DOMAIN c : c[t] \subseteq Record
        PROVE  c \in Content
    <2>1. c \in [DOMAIN c -> SUBSET Record]
      BY <1>2
    <2> QED
      BY <2>1, <1>2 DEF Content
  <1> QED
    BY <1>1, <1>2

\* A complete replay is one of the partial ones, so whatever psql leaves of a
\* dump is a partial replay.
LEMMA LoadedIsPartial ==
    ASSUME NEW old \in Content, NEW dump \in Content
    PROVE  Loaded(old, dump) \subseteq PartlyReplayed(old, dump)
  <1> DEFINE r == Replayed(old, dump)
  <1>1. DOMAIN r = DOMAIN old \cup DOMAIN dump
    BY DEF Replayed
  <1>2. \A t \in DOMAIN r : r[t] = Rows(old, t) \cup Rows(dump, t)
    BY DEF Replayed
  <1>3. r = [t \in DOMAIN r |-> r[t]]
    BY DEF Replayed
  <1>4. \A t : Rows(old, t) \subseteq Record /\ Rows(dump, t) \subseteq Record
    BY ContentShape DEF Rows
  <1>5. DOMAIN r \subseteq Table
    BY <1>1, ContentShape
  <1>6. r \in Content
    <2> HIDE DEF r
    <2>1. \A t \in DOMAIN r : r[t] \subseteq Record
      BY <1>2, <1>4
    <2> QED
      BY <1>3, <1>5, <2>1, ContentShape
  <1>7. r \in PartlyReplayed(old, dump)
    <2> HIDE DEF r
    <2> QED
      BY <1>1, <1>2, <1>6 DEF PartlyReplayed
  <1> QED
    BY <1>7 DEF Loaded

LEMMA PartialIsContent ==
    ASSUME NEW old, NEW dump, NEW c \in PartlyReplayed(old, dump)
    PROVE  c \in Content /\ c # NoDb
  BY NoDbIsNoContent DEF PartlyReplayed

\* The verification is sound for a partial replay into an empty database: with
\* the same tables and as many rows in each, nothing was left out.
LEMMA CountsSuffice ==
    ASSUME NEW source \in Content, NEW target \in PartlyReplayed(EmptyDb, source),
           SameCounts(source, target)
    PROVE  target = source
  <1>1. target \in Content
    BY PartialIsContent
  <1>2. DOMAIN source = DOMAIN target
    BY DEF SameCounts
  <1>3. ASSUME NEW t \in DOMAIN source
        PROVE  target[t] = source[t]
    <2>1. Rows(EmptyDb, t) = {} /\ Rows(source, t) = source[t]
      BY DEF Rows, EmptyDb
    <2>2. target[t] \in {{}, source[t]}
      BY <1>2, <2>1 DEF PartlyReplayed
    <2>3. source[t] \subseteq Record
      BY ContentShape
    <2>4. IsFiniteSet(source[t])
      BY <2>3, RecordFinite, FS_Subset
    <2>5. Cardinality(source[t]) = Cardinality(target[t])
      BY DEF SameCounts
    <2>6. CASE target[t] = {}
      <3>1. Cardinality(target[t]) = 0
        BY <2>6, FS_EmptySet
      <3> QED
        BY <2>4, <2>5, <2>6, <3>1, FS_EmptySet
    <2> QED
      BY <2>2, <2>6
  <1>4. source = [t \in DOMAIN source |-> source[t]]
    BY ContentShape
  <1>5. target = [t \in DOMAIN target |-> target[t]]
    BY <1>1, ContentShape
  <1> QED
    BY <1>2, <1>3, <1>4, <1>5

-----------------------------------------------------------------------------
(***************************************************************************)
(* One database changes                                                    *)
(***************************************************************************)
LEMMA WithDbFacts ==
    ASSUME dbs \in Dbs,
           NEW s \in Server, NEW i \in Row, NEW c \in Content \cup {NoDb}
    PROVE  /\ WithDb(s, i, c) \in Dbs
           /\ WithDb(s, i, c)[s][Name[i]] = c
           /\ \A s2 \in Server, d2 \in DbName :
                 s2 # s \/ d2 # Name[i] => WithDb(s, i, c)[s2][d2] = dbs[s2][d2]
  <1>1. Name[i] \in DbName
    BY RowsAssumption
  <1> QED
    BY <1>1 DEF WithDb, Dbs

LEMMA EnsureDbFacts ==
    ASSUME dbs \in Dbs, NEW s \in Server, NEW i \in Row
    PROVE  /\ EnsureDb(s, i) \in Dbs
           /\ EnsureDb(s, i)[s][Name[i]] =
                 IF On(s, i) = NoDb THEN EmptyDb ELSE On(s, i)
           /\ \A s2 \in Server, d2 \in DbName :
                 s2 # s \/ d2 # Name[i] => EnsureDb(s, i)[s2][d2] = dbs[s2][d2]
  <1>1. Name[i] \in DbName
    BY RowsAssumption
  <1> QED
    BY <1>1, WithDbFacts, EmptyDbContent DEF EnsureDb, On, Dbs

-----------------------------------------------------------------------------
(***************************************************************************)
(* Types, and where the run is                                             *)
(***************************************************************************)
LEMMA BlockFacts ==
    /\ \A t \in Server \cup {Unlisted}, d \in BOOLEAN : Scheduled(t, d) \in Block
    /\ \A b \in Block : /\ Failed(b) \in Block
                        /\ Failed(b).target = b.target
                        /\ Failed(b).drop = b.drop
                        /\ Failed(b).completed = FALSE
    /\ NoMigrate \notin Block
  BY NoMigrateAssumption DEF Block, Scheduled, Failed

LEMMA TypeInit == Init => TypeOK /\ RunInv
  <1> SUFFICES ASSUME Init PROVE TypeOK /\ RunInv
    OBVIOUS
  <1>1. disk \in [Row -> MigrateField]
    BY BlockFacts DEF Init, MigrateField
  <1>2. FirstRow \in Row /\ FirstRow \in 1..(NRows + 1)
    BY RowsAssumption DEF FirstRow, Row
  <1>3. backup \in Dbs
    BY DEF Init, Dbs
  <1>4. ordered \subseteq Row \X (Server \cup {Unlisted})
    <2>1. \A j \in Row : disk[j] # NoMigrate => disk[j] \in Block
      BY <1>1 DEF MigrateField
    <2>2. \A b \in Block : b.target \in Server \cup {Unlisted}
      BY DEF Block
    <2> QED
      BY <2>1, <2>2 DEF Init
  <1>5. TypeOK
    <2>1. cfg \in [Row -> MigrateField] /\ blk \in MigrateField
      BY DEF Init, MigrateField
    <2>2. edits \in 0..MaxEdits /\ rotations \in 0..MaxRotations /\ crashes \in 0..MaxCrashes
      BY BoundsAssumption DEF Init
    <2>3. dbs \in Dbs /\ pc \in Step /\ rot \in Rotation \cup {NoRotation}
      BY DEF Init, Step
    <2>4. changed \in BOOLEAN /\ quiet \in BOOLEAN /\ fromBackup \in BOOLEAN
      BY DEF Init
    <2>5. /\ moved \subseteq Row \X Server /\ due \subseteq BackupRow
          /\ row \in 1..(NRows + 1)
      BY <1>2 DEF Init
    <2> QED
      BY <1>1, <1>3, <1>4, <2>1, <2>2, <2>3, <2>4, <2>5 DEF TypeOK
  <1>6. RunInv
    BY DEF Init, RunInv, RunStep
  <1> QED
    BY <1>5, <1>6

\* The provisioner's steps that leave the databases alone.
LEMMA TypeControl ==
    ASSUME TypeOK, RunInv,
           \/ StatConfig \/ LoadConfig \/ SkipMigration \/ EndMigrationPass
           \/ SkipServer \/ ServeSkip \/ EndPass
    PROVE  TypeOK' /\ RunInv'
  <1> USE RowsAssumption
      DEF TypeOK, RunInv, RunStep, Step, Row, FirstRow, fileVars, backupVars,
          historyVars, boundVars
  <1>1. CASE StatConfig
    BY <1>1 DEF StatConfig, runVars
  <1>2. CASE LoadConfig
    BY <1>2 DEF LoadConfig
  <1>3. CASE SkipMigration
    BY <1>3 DEF SkipMigration
  <1>4. CASE EndMigrationPass
    BY <1>4 DEF EndMigrationPass
  <1>5. CASE SkipServer
    BY <1>5 DEF SkipServer
  <1>6. CASE ServeSkip
    BY <1>6 DEF ServeSkip
  <1>7. CASE EndPass
    BY <1>7 DEF EndPass, MigrateField
  <1> QED
    BY <1>1, <1>2, <1>3, <1>4, <1>5, <1>6, <1>7

\* In a run the source, the target and the block have their types.
LEMMA RunFacts ==
    ASSUME TypeOK, RunInv, pc \in RunStep \ {"persist"}
    PROVE  /\ row \in Row /\ blk \in Block
           /\ Host[row] \in Server /\ Name[row] \in DbName
           /\ blk.target \in Server /\ blk.target # Host[row]
           /\ Source \in Content \cup {NoDb} /\ Target \in Content \cup {NoDb}
  <1>1. row \in Row /\ blk \in Block /\ ResolveTarget(blk.target, Host[row])
    BY DEF RunInv
  <1>2. blk.target \in Server /\ blk.target # Host[row]
    BY <1>1, ServerAssumption DEF ResolveTarget
  <1>3. Host[row] \in Server /\ Name[row] \in DbName
    BY <1>1, RowsAssumption
  <1> QED
    BY <1>1, <1>2, <1>3 DEF TypeOK, Dbs, Source, Target, On

\* A run's step that writes to the target: what the target holds then.
LEMMA TargetWrite ==
    ASSUME TypeOK, RunInv, pc \in RunStep \ {"persist"},
           NEW c \in Content \cup {NoDb}
    PROVE  /\ WithDb(blk.target, row, c) \in Dbs
           /\ WithDb(blk.target, row, c)[blk.target][Name[row]] = c
           /\ WithDb(blk.target, row, c)[Host[row]][Name[row]] = Source
  BY RunFacts, WithDbFacts DEF TypeOK, Source, On

\* What half a dump leaves exists, and nothing of it is foreign to the source.
LEMMA BrokenOffFacts ==
    ASSUME TypeOK, RunInv, pc = "copy", NEW c \in BrokenOff
    PROVE  /\ Target \in Content
           /\ c \in Content /\ c # NoDb
           /\ c \in IF Source = NoDb THEN {Target} ELSE PartlyReplayed(Target, Source)
  <1>1. pc \in RunStep \ {"persist"}
    BY DEF RunStep
  <1>2. Target \in Content
    BY <1>1, RunFacts DEF RunInv
  <1> QED
    BY <1>2, PartialIsContent, NoDbIsNoContent DEF BrokenOff

LEMMA TypeRun ==
    ASSUME TypeOK, RunInv,
           \/ StartMigration \/ CheckTarget \/ ProvisionTarget \/ MigrateData
           \/ RestoreFallback \/ Verify \/ DropSource \/ Persist
    PROVE  TypeOK' /\ RunInv'
  <1> USE RowsAssumption DEF fileVars, backupVars, runVars, historyVars, boundVars
  <1>1. CASE StartMigration
    <2>1. row \in Row /\ cfg[row] \in Block
      BY <1>1 DEF StartMigration, Migrates, Pending, TypeOK, MigrateField
    <2>2. blk' \in Block /\ pc' \in {"check", "persist"}
      BY <1>1, <2>1, BlockFacts DEF StartMigration, Fail
    <2>3. pc' = "check" => ResolveTarget(blk'.target, Host[row])
      BY <1>1 DEF StartMigration, Fail
    <2> QED
      BY <1>1, <2>1, <2>2, <2>3
         DEF StartMigration, TypeOK, RunInv, RunStep, Step, MigrateField
  <1>2. CASE CheckTarget
    <2>1. pc = "check" /\ pc \in RunStep \ {"persist"}
      BY <1>2 DEF CheckTarget, RunStep
    <2>2. blk' \in Block /\ pc' \in {"provision", "persist"}
      BY <1>2, <2>1, RunFacts, BlockFacts DEF CheckTarget, Fail
    <2>3. pc' = "provision" => blk' = blk
      BY <1>2 DEF CheckTarget, Fail
    <2> QED
      BY <1>2, <2>1, <2>2, <2>3, RunFacts
         DEF CheckTarget, TypeOK, RunInv, RunStep, Step, MigrateField
  <1>3. CASE ProvisionTarget
    <2>1. pc = "provision" /\ pc \in RunStep \ {"persist"}
      BY <1>3 DEF ProvisionTarget, RunStep
    <2> DEFINE e == EnsureDb(blk.target, row)
    <2>2. e \in Dbs /\ e[blk.target][Name[row]] # NoDb
      <3>1. dbs \in Dbs /\ row \in Row /\ blk.target \in Server
        BY <2>1, RunFacts DEF TypeOK
      <3> QED
        BY <3>1, EnsureDbFacts, EmptyDbContent
    <2> HIDE DEF e
    <2>3. dbs' \in Dbs /\ blk' \in Block /\ pc' \in {"copy", "persist"}
      BY <1>3, <2>1, <2>2, RunFacts, BlockFacts
         DEF ProvisionTarget, Fail, e, TypeOK
    <2>4. pc' = "copy" => blk' = blk /\ dbs' = e
      BY <1>3 DEF ProvisionTarget, Fail, e
    <2>5. pc' = "copy" => Target' # NoDb
      BY <1>3, <2>2, <2>4 DEF Target, On, ProvisionTarget
    <2> QED
      BY <1>3, <2>1, <2>3, <2>4, <2>5, RunFacts
         DEF ProvisionTarget, TypeOK, RunInv, RunStep, Step, MigrateField
  <1>4. CASE MigrateData
    <2>1. pc = "copy" /\ pc \in RunStep \ {"persist"}
      BY <1>4 DEF MigrateData, RunStep
    <2>2. Target \in Content
      BY <2>1, RunFacts DEF RunInv
    <2>3. PICK c \in Content : c # NoDb /\ dbs' = WithDb(blk.target, row, c)
      <3>1. CASE \E x \in BrokenOff : dbs' = WithDb(blk.target, row, x)
        BY <2>1, <3>1, BrokenOffFacts
      <3>2. CASE /\ Source # NoDb
                 /\ \E x \in Loaded(Target, Source) : dbs' = WithDb(blk.target, row, x)
        BY <2>1, <2>2, <3>2, RunFacts, LoadedIsPartial, PartialIsContent
      <3> QED
        BY <1>4, <3>1, <3>2 DEF MigrateData
    <2>5. dbs' \in Dbs /\ dbs'[blk.target][Name[row]] # NoDb
      BY <2>1, <2>3, TargetWrite
    <2>6. blk' \in Block /\ pc' \in {"verify", "fallback", "persist"}
      BY <1>4, <2>1, RunFacts, BlockFacts DEF MigrateData, Fail
    <2>7. pc' # "persist" => blk' = blk
      BY <1>4 DEF MigrateData, Fail
    <2>8. pc' # "persist" => Target' # NoDb
      BY <1>4, <2>5, <2>7 DEF Target, On, MigrateData
    <2> QED
      BY <1>4, <2>1, <2>5, <2>6, <2>7, <2>8, RunFacts
         DEF MigrateData, TypeOK, RunInv, RunStep, Step, MigrateField
  <1>5. CASE RestoreFallback
    <2> DEFINE newest == backup[Host[row]][Name[row]]
    <2>1. pc = "fallback" /\ pc \in RunStep \ {"persist"}
      BY <1>5 DEF RestoreFallback, RunStep
    <2>2. Target \in Content /\ newest \in Content \cup {NoDb}
      BY <2>1, RunFacts DEF RunInv, TypeOK, Dbs
    <2>3. ASSUME NEW c \in PartlyReplayed(Target, newest)
          PROVE  /\ WithDb(blk.target, row, c) \in Dbs
                 /\ WithDb(blk.target, row, c)[blk.target][Name[row]] # NoDb
      BY <2>1, <2>3, PartialIsContent, TargetWrite
    <2>4. newest # NoDb => Loaded(Target, newest) \subseteq PartlyReplayed(Target, newest)
      BY <2>1, <2>2, LoadedIsPartial
    <2>5. /\ dbs' \in Dbs
          /\ pc' # "persist" => dbs'[blk.target][Name[row]] # NoDb
      BY <1>5, <2>1, <2>2, <2>3, <2>4, NoDbIsNoContent
         DEF RestoreFallback, Fail, TypeOK, Target, On
    <2>6. blk' \in Block /\ pc' \in {"verify", "persist"} /\ fromBackup' \in BOOLEAN
      BY <1>5, <2>1, RunFacts, BlockFacts DEF RestoreFallback, Fail, TypeOK
    <2>7. pc' # "persist" => blk' = blk
      BY <1>5 DEF RestoreFallback, Fail
    <2>8. pc' # "persist" => Target' # NoDb
      BY <1>5, <2>5, <2>7 DEF Target, On, RestoreFallback
    <2> QED
      BY <1>5, <2>1, <2>5, <2>6, <2>7, <2>8, RunFacts
         DEF RestoreFallback, TypeOK, RunInv, RunStep, Step, MigrateField
  <1>6. CASE Verify
    <2>1. pc = "verify" /\ pc \in RunStep \ {"persist"}
      BY <1>6 DEF Verify, RunStep
    <2>2. blk' \in Block /\ pc' \in {"drop", "persist"} /\ blk'.target = blk.target
      BY <1>6, <2>1, RunFacts, BlockFacts DEF Verify, AfterVerify, Fail, Block
    <2>3. moved' \subseteq Row \X Server
      BY <1>6, <2>1, RunFacts DEF Verify, TypeOK
    <2>4. Target' = Target
      BY <1>6, <2>2 DEF Verify, Target, On
    <2> QED
      BY <1>6, <2>1, <2>2, <2>3, <2>4, RunFacts
         DEF Verify, TypeOK, RunInv, RunStep, Step, MigrateField
  <1>7. CASE DropSource
    <2>1. pc = "drop" /\ pc \in RunStep \ {"persist"}
      BY <1>7 DEF DropSource, RunStep
    <2>2. blk' \in Block
      BY <1>7, <2>1, RunFacts DEF DropSource, Block
    <2>3. dbs' \in Dbs
      BY <1>7, <2>1, RunFacts, WithDbFacts DEF DropSource, TypeOK
    <2> QED
      BY <1>7, <2>2, <2>3, <2>1, RunFacts
         DEF DropSource, TypeOK, RunInv, RunStep, Step, MigrateField
  <1>8. CASE Persist
    <2>1. row \in Row /\ blk \in MigrateField
      BY <1>8 DEF Persist, RunInv, RunStep, TypeOK
    <2>2. disk' \in [Row -> MigrateField] /\ changed' \in BOOLEAN
      BY <1>8, <2>1 DEF Persist, PersistMigrate, TypeOK
    <2>3. row + 1 \in 1..(NRows + 1)
      BY <2>1 DEF Row
    <2> QED
      BY <1>8, <2>2, <2>3
         DEF Persist, TypeOK, RunInv, RunStep, Step, MigrateField
  <1> QED
    BY <1>1, <1>2, <1>3, <1>4, <1>5, <1>6, <1>7, <1>8

\* Restoring into an entry's own database leaves a database, or none as before.
LEMMA RestoredFacts ==
    ASSUME TypeOK, NEW i \in Row, NEW c \in Restored(i)
    PROVE  c \in Content \cup {NoDb} /\ WithDb(Host[i], i, c) \in Dbs
  <1> DEFINE newest == backup[Host[i]][Name[i]]
             now == On(Host[i], i)
  <1>1. Host[i] \in Server /\ Name[i] \in DbName
    BY RowsAssumption
  <1>2. newest \in Content \cup {NoDb} /\ now \in Content \cup {NoDb}
    BY <1>1 DEF TypeOK, Dbs, On
  <1>3. CASE newest = NoDb \/ now = NoDb
    <2>1. c = now
      BY <1>3 DEF Restored
    <2> QED
      BY <2>1, <1>1, <1>2, WithDbFacts DEF TypeOK
  <1>4. CASE newest # NoDb /\ now # NoDb
    <2>1. c \in PartlyReplayed(now, newest)
      BY <1>2, <1>4, LoadedIsPartial DEF Restored
    <2> QED
      BY <2>1, <1>1, PartialIsContent, WithDbFacts DEF TypeOK
  <1> QED
    BY <1>3, <1>4

LEMMA RestoredKeeps ==
    ASSUME TypeOK, NEW i \in Row, NEW c \in Restored(i), On(Host[i], i) # NoDb
    PROVE  c # NoDb
  <1> DEFINE newest == backup[Host[i]][Name[i]]
             now == On(Host[i], i)
  <1>1. newest \in Content \cup {NoDb} /\ now \in Content
    BY RowsAssumption DEF TypeOK, Dbs, On
  <1>2. CASE newest = NoDb
    BY <1>2 DEF Restored
  <1>3. CASE newest # NoDb
    <2>1. c \in PartlyReplayed(now, newest)
      BY <1>1, <1>3, LoadedIsPartial DEF Restored
    <2> QED
      BY <2>1, PartialIsContent
  <1> QED
    BY <1>2, <1>3

LEMMA TypeServe ==
    ASSUME TypeOK, RunInv, ServeDatabase \/ ServeRestore
    PROVE  TypeOK' /\ RunInv'
  <1>1. row \in Row /\ Host[row] \in Server
    BY RowsAssumption DEF ServeDatabase, ServeRestore, RunInv
  <1>2. EnsureDb(Host[row], row) \in Dbs
    BY <1>1, EnsureDbFacts DEF TypeOK
  <1>3. row + 1 \in 1..(NRows + 1)
    BY <1>1, RowsAssumption DEF Row
  <1>4. CASE ServeDatabase
    <2>1. dbs' \in Dbs
      BY <1>4, <1>2 DEF ServeDatabase, TypeOK
    <2>2. row' \in 1..(NRows + 1) /\ pc' \in {"serve", "restore"}
      BY <1>4, <1>3 DEF ServeDatabase, TypeOK
    <2>3. pc' = "restore" => row' \in Row
      BY <1>4, <1>1 DEF ServeDatabase
    <2> QED
      BY <1>4, <2>1, <2>2, <2>3
         DEF ServeDatabase, TypeOK, RunInv, RunStep, Step, fileVars,
             backupVars, historyVars, boundVars
  <1>5. CASE ServeRestore
    <2>1. dbs' \in Dbs
      BY <1>5, <1>1, RestoredFacts DEF ServeRestore
    <2> QED
      BY <1>5, <1>3, <2>1
         DEF ServeRestore, TypeOK, RunInv, RunStep, Step, fileVars,
             backupVars, historyVars, boundVars
  <1> QED
    BY <1>4, <1>5

\* The database under a run's target stays, whoever else changes databases.
LEMMA TypeRotation ==
    ASSUME TypeOK, RunInv, (\E i \in Row : RotateSecret(i)) \/ Rotator
    PROVE  TypeOK' /\ RunInv'
  <1> USE DEF fileVars, backupVars, runVars, historyVars, boundVars
  <1>1. ASSUME NEW i \in Row, RotateSecret(i)
        PROVE  TypeOK' /\ RunInv'
    <2>1. rot' \in Rotation
      BY <1>1 DEF RotateSecret, Rotation, TypeOK
    <2>2. rotations' \in 0..MaxRotations
      BY <1>1, BoundsAssumption DEF RotateSecret, TypeOK
    <2>3. TypeOK'
      BY <1>1, <2>1, <2>2 DEF RotateSecret, TypeOK
    <2>4. RunInv'
      BY <1>1 DEF RotateSecret, RunInv, Target, On
    <2> QED
      BY <2>3, <2>4
  <1>2. ASSUME Rotator, rot # NoRotation
        PROVE  /\ rot \in Rotation /\ rot.row \in Row
               /\ rot.blk \in MigrateField
               /\ Host[rot.row] \in Server /\ Name[rot.row] \in DbName
    <2>1. rot \in Rotation
      BY <1>2 DEF TypeOK
    <2>2. rot.row \in Row /\ rot.blk \in MigrateField
      BY <2>1 DEF Rotation
    <2> QED
      BY <2>1, <2>2, RowsAssumption
  <1>3. CASE RotationMigrates
    <2>1. rot # NoRotation
      BY <1>3 DEF RotationMigrates
    <2>2. rot \in Rotation /\ rot.blk \in MigrateField
      BY <1>2, <1>3, <2>1 DEF Rotator
    <2>3. rot' \in Rotation
      BY <1>3, <2>2 DEF RotationMigrates, Rotation
    <2>4. FirstRow \in Row
      BY RowsAssumption DEF FirstRow, Row
    <2>5. Pending(rot.blk) => Failed(rot.blk) \in Block
      BY <2>2, BlockFacts DEF Pending, MigrateField
    <2>6. disk' \in [Row -> MigrateField] /\ changed' \in BOOLEAN
      <3>1. CASE UNCHANGED fileVars
        BY <3>1 DEF TypeOK
      <3>2. CASE /\ Pending(rot.blk)
                 /\ PersistMigrate(FirstRow, Failed(rot.blk))
        BY <3>2, <2>4, <2>5 DEF PersistMigrate, TypeOK, MigrateField
      <3> QED
        BY <1>3, <3>1, <3>2 DEF RotationMigrates
    <2>7. TypeOK'
      BY <1>3, <2>3, <2>6 DEF RotationMigrates, TypeOK
    <2>8. RunInv'
      BY <1>3 DEF RotationMigrates, RunInv, Target, On
    <2> QED
      BY <2>7, <2>8
  <1>4. CASE RotationServes \/ RotationRestores
    <2> DEFINE i == rot.row
    <2>1. /\ rot \in Rotation /\ i \in Row
          /\ Host[i] \in Server /\ Name[i] \in DbName
      BY <1>2, <1>4 DEF Rotator, RotationServes, RotationRestores
    <2>2. EnsureDb(Host[i], i) \in Dbs
      BY <2>1, EnsureDbFacts DEF TypeOK
    <2>3. dbs' \in Dbs
      BY <1>4, <2>1, <2>2, RestoredFacts
         DEF RotationServes, RotationRestores, TypeOK
    <2>4. rot' \in Rotation \cup {NoRotation}
      BY <1>4, <2>1 DEF RotationServes, RotationRestores, Rotation
    <2>5. quiet' \in BOOLEAN
      BY <1>4 DEF RotationServes, RotationRestores, TypeOK
    <2>6. TypeOK'
      BY <1>4, <2>3, <2>4, <2>5 DEF RotationServes, RotationRestores, TypeOK
    <2>7. \A s \in Server, d \in DbName : dbs[s][d] # NoDb => dbs'[s][d] # NoDb
      <3>1. CASE dbs' = dbs
        BY <3>1
      <3>2. CASE dbs' = EnsureDb(Host[i], i)
        BY <3>2, <2>1, EnsureDbFacts, EmptyDbContent DEF TypeOK, On
      <3>3. ASSUME NEW c \in Restored(i), dbs' = WithDb(Host[i], i, c)
            PROVE  \A s \in Server, d \in DbName :
                      dbs[s][d] # NoDb => dbs'[s][d] # NoDb
        <4>1. On(Host[i], i) # NoDb => c # NoDb
          BY <2>1, <3>3, RestoredKeeps
        <4>2. c \in Content \cup {NoDb}
          BY <2>1, <3>3, RestoredFacts
        <4> QED
          BY <2>1, <3>3, <4>1, <4>2, WithDbFacts DEF TypeOK, On
      <3> QED
        BY <1>4, <3>1, <3>2, <3>3 DEF RotationServes, RotationRestores
    <2>8. RunInv'
      <3>1. ASSUME pc \in {"copy", "fallback", "verify", "drop"}
            PROVE  Target' # NoDb
        <4>1. blk.target \in Server /\ Name[row] \in DbName /\ Target # NoDb
          BY <3>1, RunFacts DEF RunInv, RunStep
        <4> QED
          BY <1>4, <4>1, <2>7 DEF Target, On, RotationServes, RotationRestores
      <3> QED
        BY <1>4, <3>1 DEF RunInv, RotationServes, RotationRestores
    <2> QED
      BY <2>6, <2>8
  <1> QED
    BY <1>1, <1>3, <1>4 DEF Rotator

LEMMA TypeEnvironment ==
    ASSUME TypeOK, RunInv,
           \/ \E i \in Row, t \in Server, d \in BOOLEAN : ScheduleMigration(i, t, d)
           \/ \E i \in Row : ClearMigration(i)
           \/ Scheduler
           \/ \E s \in Server, d \in DbName : AppWrites(s, d)
           \/ CrashAndRestart
    PROVE  TypeOK' /\ RunInv'
  <1> USE DEF fileVars, backupVars, runVars, historyVars, boundVars
  <1>1. ASSUME NEW i \in Row, NEW t \in Server, NEW d \in BOOLEAN,
               ScheduleMigration(i, t, d)
        PROVE  TypeOK' /\ RunInv'
    <2>1. disk' \in [Row -> MigrateField]
      BY <1>1, BlockFacts DEF ScheduleMigration, TypeOK, MigrateField
    <2>2. ordered' \subseteq Row \X (Server \cup {Unlisted})
      BY <1>1 DEF ScheduleMigration, TypeOK
    <2>3. edits' \in 0..MaxEdits
      BY <1>1, BoundsAssumption DEF ScheduleMigration, TypeOK
    <2>4. TypeOK'
      BY <1>1, <2>1, <2>2, <2>3 DEF ScheduleMigration, TypeOK
    <2>5. RunInv'
      BY <1>1 DEF ScheduleMigration, RunInv, Target, On
    <2> QED
      BY <2>4, <2>5
  <1>2. ASSUME NEW i \in Row, ClearMigration(i)
        PROVE  TypeOK' /\ RunInv'
    <2>1. disk' \in [Row -> MigrateField]
      BY <1>2 DEF ClearMigration, TypeOK, MigrateField
    <2>2. edits' \in 0..MaxEdits
      BY <1>2, BoundsAssumption DEF ClearMigration, TypeOK
    <2>3. TypeOK'
      BY <1>2, <2>1, <2>2 DEF ClearMigration, TypeOK
    <2>4. RunInv'
      BY <1>2 DEF ClearMigration, RunInv, Target, On
    <2> QED
      BY <2>3, <2>4
  <1>3. CASE Scheduler
    <2>1. ASSUME NEW D \in SUBSET BackupRow, StartBackups(D)
          PROVE  TypeOK'
      BY <2>1 DEF StartBackups, TypeOK
    <2>2. ASSUME NEW i \in Row, BackupDatabase(i)
          PROVE  TypeOK'
      <3>1. Host[i] \in Server /\ Name[i] \in DbName
        BY RowsAssumption
      <3>2. backup' \in Dbs
        <4>1. CASE UNCHANGED backup
          BY <4>1 DEF TypeOK
        <4>2. CASE backup' = [backup EXCEPT ![Host[i]] =
                                 [@ EXCEPT ![Name[i]] = On(Host[i], i)]]
          BY <3>1, <4>2 DEF TypeOK, Dbs, On
        <4> QED
          BY <2>2, <4>1, <4>2 DEF BackupDatabase
      <3>3. due' \subseteq BackupRow
        BY <2>2 DEF BackupDatabase, TypeOK
      <3>4. UNCHANGED <<disk, changed, dbs, pc, row, cfg, blk, fromBackup, rot,
                        ordered, moved, quiet, edits, rotations, crashes>>
        BY <2>2 DEF BackupDatabase
      <3> QED
        BY <3>2, <3>3, <3>4 DEF TypeOK
    <2>3. UNCHANGED <<dbs, pc, row, blk>>
      BY <1>3 DEF Scheduler, StartBackups, BackupDatabase
    <2>4. RunInv'
      BY <2>3 DEF RunInv, Target, On
    <2>5. TypeOK'
      BY <1>3, <2>1, <2>2 DEF Scheduler
    <2> QED
      BY <2>4, <2>5
  <1>4. ASSUME NEW s \in Server, NEW d \in DbName, AppWrites(s, d)
        PROVE  TypeOK' /\ RunInv'
    <2>1. PICK c \in Content : dbs' = [dbs EXCEPT ![s] = [@ EXCEPT ![d] = c]]
      BY <1>4 DEF AppWrites
    <2>2. dbs' \in Dbs
      BY <2>1 DEF TypeOK, Dbs
    <2>3. quiet' \in BOOLEAN
      BY <1>4 DEF AppWrites, TypeOK
    <2>4. TypeOK'
      BY <1>4, <2>2, <2>3 DEF AppWrites, TypeOK
    <2>5. ASSUME pc \in {"copy", "fallback", "verify", "drop"}
          PROVE  Target' # NoDb
      <3>1. blk.target \in Server /\ Name[row] \in DbName /\ Target # NoDb
        BY <2>5, RunFacts DEF RunInv, RunStep
      <3>2. c # NoDb
        BY NoDbIsNoContent
      <3>3. dbs'[blk.target][Name[row]] # NoDb
        BY <2>1, <3>1, <3>2 DEF TypeOK, Dbs, Target, On
      <3> QED
        BY <1>4, <3>3 DEF Target, On, AppWrites
    <2>6. RunInv'
      BY <1>4, <2>5 DEF AppWrites, RunInv
    <2> QED
      BY <2>4, <2>6
  <1>5. CASE CrashAndRestart
    <2>1. FirstRow \in 1..(NRows + 1)
      BY RowsAssumption DEF FirstRow
    <2>2. crashes' \in 0..MaxCrashes
      BY <1>5, BoundsAssumption DEF CrashAndRestart, TypeOK
    <2>3. cfg' \in [Row -> MigrateField] /\ blk' \in MigrateField
      BY <1>5 DEF CrashAndRestart, MigrateField
    <2>4. TypeOK'
      BY <1>5, <2>1, <2>2, <2>3 DEF CrashAndRestart, TypeOK, Step
    <2>5. RunInv'
      BY <1>5 DEF CrashAndRestart, RunInv, RunStep
    <2> QED
      BY <2>4, <2>5
  <1> QED
    BY <1>1, <1>2, <1>3, <1>4, <1>5

LEMMA TypeNext == TypeOK /\ RunInv /\ [Next]_vars => TypeOK' /\ RunInv'
  <1> SUFFICES ASSUME TypeOK, RunInv, [Next]_vars
               PROVE  TypeOK' /\ RunInv'
    OBVIOUS
  <1>1. CASE Provisioner
    BY <1>1, TypeControl, TypeRun, TypeServe DEF Provisioner
  <1>2. CASE Rotator
    BY <1>2, TypeRotation
  <1>3. CASE Environment
    BY <1>3, TypeEnvironment, TypeRotation DEF Environment
  <1>5. CASE Scheduler
    BY <1>5, TypeEnvironment
  <1>4. CASE UNCHANGED vars
    BY <1>4 DEF vars, TypeOK, RunInv, Target, On
  <1> QED
    BY <1>1, <1>2, <1>3, <1>4, <1>5 DEF Next

\* The variables keep their types, and the run's program counter tells what
\* the run may rely on: an entry, a block, a PostgreSQL target other than the
\* source, and from the copy on a target database that exists.
LEMMA TypeAndRun == Spec => [](TypeOK /\ RunInv)
  BY TypeInit, TypeNext, PTL DEF Spec

\* Every variable keeps its type, through failures, edits, rotations and crashes.
THEOREM TypeCorrect == Spec => []TypeOK
  BY TypeAndRun, PTL

-----------------------------------------------------------------------------
(***************************************************************************)
(* What the copy holds                                                     *)
(***************************************************************************)
\* A step that others take without disturbing the run leaves its source and
\* its target as they are.
LEMMA UndisturbedKeeps ==
    ASSUME TypeOK, RunInv, pc \in RunStep \ {"persist"},
           UNCHANGED runVars,
           NEW s \in Server, NEW d \in DbName, Undisturbed(s, d),
           \A s2 \in Server, d2 \in DbName :
              s2 # s \/ d2 # d => dbs'[s2][d2] = dbs[s2][d2]
    PROVE  Source' = Source /\ Target' = Target
  <1>1. /\ Host[row] \in Server /\ Name[row] \in DbName
        /\ blk.target \in Server /\ blk # NoMigrate
    BY RunFacts, BlockFacts
  <1>2. d # Name[row] \/ s \notin {Host[row], blk.target}
    BY <1>1 DEF Undisturbed
  <1>3. /\ dbs'[Host[row]][Name[row]] = dbs[Host[row]][Name[row]]
        /\ dbs'[blk.target][Name[row]] = dbs[blk.target][Name[row]]
    BY <1>1, <1>2
  <1> QED
    BY <1>3 DEF Source, Target, On, runVars

LEMMA CopyRun ==
    ASSUME TypeOK, RunInv, CopyInv,
           \/ StartMigration \/ CheckTarget \/ ProvisionTarget \/ MigrateData
           \/ RestoreFallback \/ Verify \/ DropSource \/ Persist
    PROVE  CopyInv'
  <1> USE DEF CopyInv, LoadsOverOwnWork, DropLosesNothing
  <1>1. CASE StartMigration
    BY <1>1 DEF StartMigration, Fail
  <1>2. CASE CheckTarget
    BY <1>2 DEF CheckTarget, Fail, Target, On
  <1>3. CASE ProvisionTarget
    <2>1. pc = "provision" /\ pc \in RunStep \ {"persist"} /\ quiet' = quiet
      BY <1>3 DEF ProvisionTarget, RunStep
    <2>2. CASE pc' = "persist"
      BY <2>2
    <2>3. CASE pc' # "persist"
      <3>1. dbs' = EnsureDb(blk.target, row) /\ blk' = blk /\ pc' = "copy"
        BY <1>3, <2>3 DEF ProvisionTarget, Fail
      <3>2. row' = row
        BY <1>3 DEF ProvisionTarget
      <3>3. dbs \in Dbs /\ row \in Row /\ blk.target \in Server
        BY <2>1, RunFacts DEF TypeOK
      <3>4. quiet => On(blk.target, row) = NoDb
        BY <2>1 DEF Target
      <3>5. quiet => Target' = EmptyDb
        BY <3>1, <3>2, <3>3, <3>4, EnsureDbFacts DEF Target, On
      <3> QED
        BY <2>1, <3>1, <3>5
    <2> QED
      BY <2>2, <2>3
  <1>4. CASE MigrateData
    <2>1. /\ pc = "copy" /\ pc \in RunStep \ {"persist"}
          /\ quiet' = quiet /\ row' = row
      BY <1>4 DEF MigrateData, RunStep
    <2>2. CASE pc' = "verify" /\ quiet
      <3>1. Source # NoDb /\ blk' = blk /\ Target = EmptyDb
        BY <1>4, <2>1, <2>2 DEF MigrateData, Fail
      <3>2. PICK c \in Loaded(Target, Source) : dbs' = WithDb(blk.target, row, c)
        BY <1>4, <2>2 DEF MigrateData, Fail
      <3>3. c \in PartlyReplayed(EmptyDb, Source)
        BY <2>1, <3>1, <3>2, RunFacts, EmptyDbContent, LoadedIsPartial
      <3>4. /\ dbs'[blk.target][Name[row]] = c
            /\ dbs'[Host[row]][Name[row]] = Source
        BY <2>1, <3>2, <3>3, PartialIsContent, TargetWrite
      <3>5. Target' = c /\ Source' = Source
        BY <2>1, <3>1, <3>4 DEF Target, Source, On
      <3> QED
        BY <2>2, <3>1, <3>3, <3>5
    <2>3. CASE pc' = "fallback" /\ quiet
      <3>1. blk' = blk /\ Target = EmptyDb
        BY <1>4, <2>1, <2>3 DEF MigrateData, Fail
      <3>2. PICK c \in BrokenOff : dbs' = WithDb(blk.target, row, c)
        BY <1>4, <2>3 DEF MigrateData, Fail
      <3>3. /\ c \in Content
            /\ c \in IF Source = NoDb THEN {EmptyDb} ELSE PartlyReplayed(EmptyDb, Source)
        BY <2>1, <3>1, BrokenOffFacts
      <3>4. /\ dbs'[blk.target][Name[row]] = c
            /\ dbs'[Host[row]][Name[row]] = Source
        BY <2>1, <3>2, <3>3, TargetWrite
      <3>5. Target' = c /\ Source' = Source
        BY <2>1, <3>1, <3>4 DEF Target, Source, On
      <3> QED
        BY <2>3, <3>3, <3>5
    <2>4. pc' \in {"verify", "fallback", "persist"}
      BY <1>4 DEF MigrateData, Fail
    <2> QED
      BY <2>1, <2>2, <2>3, <2>4
  <1>5. CASE RestoreFallback
    <2>1. pc' = "persist" \/ (pc' = "verify" /\ fromBackup')
      BY <1>5 DEF RestoreFallback, Fail
    <2> QED
      BY <2>1
  <1>6. CASE Verify
    <2>1. /\ pc = "verify" /\ pc \in RunStep \ {"persist"}
          /\ quiet' = quiet /\ row' = row /\ fromBackup' = fromBackup /\ dbs' = dbs
      BY <1>6 DEF Verify, RunStep
    <2>2. CASE pc' = "drop" /\ quiet /\ ~ fromBackup
      <3>1. Verified /\ blk' = [blk EXCEPT !.completed = TRUE, !.error = FALSE]
        BY <1>6, <2>2 DEF Verify, Fail
      <3>2. blk'.target = blk.target
        BY <2>1, <3>1, RunFacts DEF Block
      <3>3. SameCounts(Source, Target) /\ Source # NoDb
        BY <2>2, <3>1 DEF Verified
      <3>4. Target \in PartlyReplayed(EmptyDb, Source) /\ Source \in Content
        BY <2>1, <2>2, <3>3, RunFacts
      <3>5. Target = Source
        BY <3>3, <3>4, CountsSuffice
      <3>6. Target' = Target /\ Source' = Source
        BY <2>1, <3>2 DEF Target, Source, On
      <3> QED
        BY <2>2, <3>3, <3>5, <3>6
    <2>3. pc' \in {"drop", "persist"}
      BY <1>6 DEF Verify, AfterVerify, Fail
    <2> QED
      BY <2>1, <2>2, <2>3
  <1>7. CASE DropSource
    BY <1>7 DEF DropSource
  <1>8. CASE Persist
    BY <1>8 DEF Persist
  <1> QED
    BY <1>1, <1>2, <1>3, <1>4, <1>5, <1>6, <1>7, <1>8

LEMMA CopyOthers ==
    ASSUME TypeOK, RunInv, CopyInv, Rotator \/ Scheduler \/ Environment
    PROVE  CopyInv'
  <1> DEFINE At == {"provision", "copy", "fallback", "verify", "drop"}
  <1>1. ASSUME pc' = pc, fromBackup' = fromBackup, quiet' => quiet,
               pc \in At /\ quiet' => Source' = Source /\ Target' = Target
        PROVE  CopyInv'
    BY <1>1 DEF CopyInv, LoadsOverOwnWork, DropLosesNothing
  <1>2. ASSUME UNCHANGED <<dbs, pc, runVars, quiet>>
        PROVE  CopyInv'
    BY <1>1, <1>2 DEF runVars, Source, Target, On
  <1>3. CASE RotationServes \/ RotationRestores
    <2> DEFINE i == rot.row
    <2>1. /\ rot \in Rotation /\ i \in Row
          /\ Host[i] \in Server /\ Name[i] \in DbName
      <3>1. rot \in Rotation
        BY <1>3 DEF RotationServes, RotationRestores, TypeOK
      <3> QED
        BY <3>1, RowsAssumption DEF Rotation
    <2>2. /\ pc' = pc /\ UNCHANGED runVars
          /\ quiet' => quiet /\ (dbs' = dbs \/ Undisturbed(Host[i], Name[i]))
      BY <1>3 DEF RotationServes, RotationRestores
    <2>3. \A s \in Server, d \in DbName :
             s # Host[i] \/ d # Name[i] => dbs'[s][d] = dbs[s][d]
      <3>1. CASE dbs' = dbs
        BY <3>1
      <3>2. CASE dbs' = EnsureDb(Host[i], i)
        BY <3>2, <2>1, EnsureDbFacts DEF TypeOK
      <3>3. ASSUME NEW c \in Restored(i), dbs' = WithDb(Host[i], i, c)
            PROVE  \A s \in Server, d \in DbName :
                      s # Host[i] \/ d # Name[i] => dbs'[s][d] = dbs[s][d]
        BY <3>3, <2>1, RestoredFacts, WithDbFacts DEF TypeOK
      <3> QED
        BY <1>3, <3>1, <3>2, <3>3 DEF RotationServes, RotationRestores
    <2>4. ASSUME pc \in At, quiet'
          PROVE  Source' = Source /\ Target' = Target
      <3>1. CASE dbs' = dbs
        BY <3>1, <2>2 DEF runVars, Source, Target, On
      <3>2. CASE Undisturbed(Host[i], Name[i])
        <4>1. pc \in RunStep \ {"persist"}
          BY <2>4 DEF RunStep
        <4> QED
          BY <3>2, <4>1, <2>1, <2>2, <2>3, UndisturbedKeeps
      <3> QED
        BY <2>2, <2>4, <3>1, <3>2
    <2> QED
      BY <1>1, <2>2, <2>4 DEF runVars
  <1>4. ASSUME NEW s \in Server, NEW d \in DbName, AppWrites(s, d)
        PROVE  CopyInv'
    <2>1. /\ pc' = pc /\ UNCHANGED runVars
          /\ quiet' => quiet /\ (dbs' = dbs \/ Undisturbed(s, d))
      BY <1>4 DEF AppWrites
    <2>2. \A s2 \in Server, d2 \in DbName :
             s2 # s \/ d2 # d => dbs'[s2][d2] = dbs[s2][d2]
      BY <1>4 DEF AppWrites, TypeOK, Dbs
    <2>3. ASSUME pc \in At, quiet'
          PROVE  Source' = Source /\ Target' = Target
      <3>1. CASE dbs' = dbs
        BY <3>1, <2>1 DEF runVars, Source, Target, On
      <3>2. CASE Undisturbed(s, d)
        <4>1. pc \in RunStep \ {"persist"}
          BY <2>3 DEF RunStep
        <4> QED
          BY <3>2, <4>1, <2>1, <2>2, UndisturbedKeeps
      <3> QED
        BY <2>1, <2>3, <3>1, <3>2
    <2> QED
      BY <1>1, <2>1, <2>3 DEF runVars
  <1>5. CASE CrashAndRestart
    BY <1>5 DEF CrashAndRestart, CopyInv, LoadsOverOwnWork, DropLosesNothing
  <1>6. CASE RotationMigrates
    BY <1>2, <1>6 DEF RotationMigrates
  <1>7. ASSUME NEW i \in Row,
               \/ RotateSecret(i) \/ ClearMigration(i)
               \/ \E t \in Server, d \in BOOLEAN : ScheduleMigration(i, t, d)
        PROVE  CopyInv'
    BY <1>2, <1>7 DEF RotateSecret, ClearMigration, ScheduleMigration
  <1>8. CASE Scheduler
    BY <1>2, <1>8 DEF Scheduler, StartBackups, BackupDatabase
  <1> QED
    BY <1>3, <1>4, <1>5, <1>6, <1>7, <1>8 DEF Rotator, Environment

LEMMA CopyNext == TypeOK /\ RunInv /\ CopyInv /\ [Next]_vars => CopyInv'
  <1> SUFFICES ASSUME TypeOK, RunInv, CopyInv, [Next]_vars
               PROVE  CopyInv'
    OBVIOUS
  <1>1. ASSUME pc' \in {"idle", "load", "migrate", "serve", "restore"}
        PROVE  CopyInv'
    BY <1>1 DEF CopyInv, LoadsOverOwnWork, DropLosesNothing
  <1>2. CASE \/ StatConfig \/ LoadConfig \/ SkipMigration \/ EndMigrationPass
             \/ SkipServer \/ ServeSkip \/ ServeDatabase \/ ServeRestore \/ EndPass
    BY <1>1, <1>2
       DEF StatConfig, LoadConfig, SkipMigration, EndMigrationPass, SkipServer,
           ServeSkip, ServeDatabase, ServeRestore, EndPass
  <1>3. CASE UNCHANGED vars
    BY <1>3 DEF vars, CopyInv, LoadsOverOwnWork, DropLosesNothing, Source,
                Target, On
  <1> QED
    BY <1>2, <1>3, CopyRun, CopyOthers DEF Next, Provisioner

LEMMA CopyCorrect == Spec => []CopyInv
  <1>1. Init => CopyInv
    BY DEF Init, CopyInv, LoadsOverOwnWork, DropLosesNothing
  <1> QED
    BY <1>1, CopyNext, TypeAndRun, PTL DEF Spec

\* Nobody wrote to source or target since the run checked the target, and the
\* copy was direct: when the source is about to be dropped the target holds the
\* very same tables and rows, although psql's errors are ignored and only row
\* counts are compared.
THEOREM DropIsSafe == Spec => []DropLosesNothing
  <1>1. CopyInv => DropLosesNothing
    BY DEF CopyInv
  <1> QED
    BY <1>1, CopyCorrect, PTL

\* A run that nobody disturbs loads over nothing but its own work: the copy into the
\* empty database it created, the fallback over what its own dump has left, wherever
\* that dump broke off.
THEOREM NeverLoadsOverOthers == Spec => []LoadsOverOwnWork
  <1>1. CopyInv => LoadsOverOwnWork
    BY DEF CopyInv
  <1> QED
    BY <1>1, CopyCorrect, PTL

-----------------------------------------------------------------------------
(***************************************************************************)
(* Tombstones                                                              *)
(***************************************************************************)
\* What a write of one entry's block does to the file.
LEMMA PersistFacts ==
    ASSUME TypeOK, NEW i \in Row, NEW b \in MigrateField, PersistMigrate(i, b)
    PROVE  /\ disk' \in [Row -> MigrateField]
           /\ \A j \in Row : disk'[j] = disk[j] \/ (j = i /\ disk'[j] = b)
  BY DEF PersistMigrate, TypeOK, fileVars

LEMMA MovedRun ==
    ASSUME TypeOK, RunInv, MovedInv,
           \/ StartMigration \/ CheckTarget \/ ProvisionTarget \/ MigrateData
           \/ RestoreFallback \/ Verify \/ DropSource \/ Persist
    PROVE  MovedInv'
  <1> USE DEF MovedInv, fileVars, backupVars, historyVars
  <1>1. ASSUME UNCHANGED <<disk, moved>>, pc' # "drop",
               pc' = "persist" => ~ blk'.completed
        PROVE  MovedInv'
    BY <1>1 DEF TombstoneVerified
  <1>2. \A b \in Block : ~ Failed(b).completed
    BY BlockFacts
  <1>3. CASE StartMigration
    <2>1. cfg[row] \in Block
      BY <1>3 DEF StartMigration, Migrates, Pending, TypeOK, MigrateField
    <2> QED
      BY <1>1, <1>2, <1>3, <2>1 DEF StartMigration, Fail
  <1>4. CASE CheckTarget \/ ProvisionTarget \/ MigrateData \/ RestoreFallback
    <2>1. blk \in Block
      BY <1>4
         DEF RunInv, RunStep, CheckTarget, ProvisionTarget, MigrateData,
             RestoreFallback
    <2>2. pc' = "persist" => blk' = Failed(blk)
      BY <1>4 DEF CheckTarget, ProvisionTarget, MigrateData, RestoreFallback, Fail
    <2>3. pc' # "drop" /\ UNCHANGED <<disk, moved>>
      BY <1>4 DEF CheckTarget, ProvisionTarget, MigrateData, RestoreFallback, Fail
    <2> QED
      BY <1>1, <1>2, <2>1, <2>2, <2>3
  <1>5. CASE Verify
    <2>1. blk \in Block /\ row' = row /\ disk' = disk /\ moved \subseteq moved'
      BY <1>5 DEF Verify, RunInv, RunStep
    <2>2. CASE blk' = Failed(blk) /\ pc' = "persist"
      BY <2>1, <2>2, <1>2 DEF TombstoneVerified
    <2>3. CASE /\ blk' = [blk EXCEPT !.completed = TRUE, !.error = FALSE]
               /\ moved' = moved \cup {<<row, blk.target>>}
      BY <2>1, <2>3 DEF TombstoneVerified, Block
    <2> QED
      BY <1>5, <2>2, <2>3 DEF Verify, Fail
  <1>6. CASE DropSource
    <2>1. blk \in Block /\ <<row, blk.target>> \in moved /\ pc' = "persist"
      BY <1>6 DEF DropSource, RunInv, RunStep
    <2>2. blk'.target = blk.target
      BY <1>6, <2>1 DEF DropSource, Block
    <2> QED
      BY <1>6, <2>1, <2>2 DEF DropSource, TombstoneVerified
  <1>7. CASE Persist
    <2>1. row \in Row /\ blk \in MigrateField /\ pc = "persist"
      BY <1>7 DEF Persist, RunInv, RunStep, TypeOK
    <2>2. \A j \in Row : disk'[j] = disk[j] \/ (j = row /\ disk'[j] = blk)
      BY <1>7, <2>1, PersistFacts DEF Persist
    <2>3. TombstoneVerified'
      BY <1>7, <2>1, <2>2 DEF TombstoneVerified, Tombstone, Persist
    <2> QED
      BY <1>7, <2>3 DEF Persist
  <1> QED
    BY <1>3, <1>4, <1>5, <1>6, <1>7

LEMMA MovedNext == TypeOK /\ RunInv /\ MovedInv /\ [Next]_vars => MovedInv'
  <1> SUFFICES ASSUME TypeOK, RunInv, MovedInv, [Next]_vars
               PROVE  MovedInv'
    OBVIOUS
  <1> USE DEF MovedInv, fileVars, backupVars, historyVars
  <1>1. ASSUME UNCHANGED <<disk, moved>>,
               UNCHANGED <<pc, row, blk>> \/ pc' \notin {"drop", "persist"}
        PROVE  MovedInv'
    BY <1>1 DEF TombstoneVerified
  <1>2. ASSUME NEW i \in Row, NEW b \in MigrateField, ~ Tombstone(b),
               \A j \in Row : disk'[j] = disk[j] \/ (j = i /\ disk'[j] = b),
               UNCHANGED <<moved, pc, row, blk>>
        PROVE  MovedInv'
    BY <1>2 DEF TombstoneVerified
  <1>3. CASE \/ StatConfig \/ LoadConfig \/ SkipMigration \/ EndMigrationPass
             \/ SkipServer \/ ServeSkip \/ ServeDatabase \/ ServeRestore \/ EndPass
    BY <1>1, <1>3
       DEF StatConfig, LoadConfig, SkipMigration, EndMigrationPass, SkipServer,
           ServeSkip, ServeDatabase, ServeRestore, EndPass
  <1>4. CASE RotationMigrates
    <2>1. rot.blk \in MigrateField
      BY <1>4 DEF RotationMigrates, TypeOK, Rotation
    <2>2. UNCHANGED <<moved, pc, row, blk>>
      BY <1>4 DEF RotationMigrates, runVars
    <2>3. CASE UNCHANGED fileVars
      BY <1>1, <2>2, <2>3
    <2>4. CASE Pending(rot.blk) /\ PersistMigrate(FirstRow, Failed(rot.blk))
      <3>1. /\ Failed(rot.blk) \in MigrateField /\ ~ Tombstone(Failed(rot.blk))
            /\ FirstRow \in Row
        BY <2>1, <2>4, BlockFacts, RowsAssumption
           DEF Pending, Tombstone, MigrateField, FirstRow, Row
      <3> QED
        BY <1>2, <2>2, <2>4, <3>1, PersistFacts
    <2> QED
      BY <1>4, <2>3, <2>4 DEF RotationMigrates
  <1>5. ASSUME NEW i \in Row, NEW t \in Server, NEW d \in BOOLEAN,
               ScheduleMigration(i, t, d)
        PROVE  MovedInv'
    <2>1. Scheduled(t, d) \in MigrateField /\ ~ Tombstone(Scheduled(t, d))
      BY BlockFacts DEF Scheduled, Tombstone, MigrateField
    <2> QED
      BY <1>2, <1>5, <2>1 DEF ScheduleMigration, runVars, TypeOK
  <1>6. ASSUME NEW i \in Row, ClearMigration(i)
        PROVE  MovedInv'
    BY <1>2, <1>6 DEF ClearMigration, runVars, TypeOK, Tombstone, MigrateField
  <1>7. ASSUME NEW i \in Row, RotateSecret(i)
        PROVE  MovedInv'
    BY <1>1, <1>7 DEF RotateSecret, runVars
  <1>11. CASE Scheduler
    BY <1>1, <1>11 DEF Scheduler, StartBackups, BackupDatabase, runVars
  <1>8. ASSUME NEW s \in Server, NEW d \in DbName, AppWrites(s, d)
        PROVE  MovedInv'
    BY <1>1, <1>8 DEF AppWrites, runVars
  <1>9. CASE RotationServes \/ RotationRestores \/ CrashAndRestart
    BY <1>1, <1>9 DEF RotationServes, RotationRestores, CrashAndRestart, runVars
  <1>10. CASE UNCHANGED vars
    BY <1>1, <1>10 DEF vars
  <1> QED
    BY <1>3, <1>4, <1>5, <1>6, <1>7, <1>8, <1>9, <1>10, <1>11, MovedRun
       DEF Next, Provisioner, Rotator, Environment

LEMMA MovedCorrect == Spec => []MovedInv
  <1>1. Init => MovedInv
    <2> SUFFICES ASSUME Init PROVE MovedInv
      OBVIOUS
    <2>1. \A i \in Row : disk[i] # NoMigrate => ~ disk[i].completed
      BY DEF Init, Scheduled
    <2> QED
      BY <2>1 DEF Init, MovedInv, TombstoneVerified, Tombstone
  <1> QED
    BY <1>1, MovedNext, TypeAndRun, PTL DEF Spec

\* No edit, clobbered write, rotation or crash puts a tombstone in the file for
\* a copy that no run verified.
THEOREM TombstonesAreVerified == Spec => []TombstoneVerified
  <1>1. MovedInv => TombstoneVerified
    BY DEF MovedInv
  <1> QED
    BY <1>1, MovedCorrect, PTL

-----------------------------------------------------------------------------
(***************************************************************************)
(* Orders.  They hold while no Secret is rotated: the goroutine of a       *)
(* rotation writes a block into an entry it was not meant for.             *)
(***************************************************************************)
LEMMA OrderNext ==
    ASSUME MaxRotations = 0
    PROVE  TypeOK /\ RunInv /\ OrderInv /\ [Next]_vars => OrderInv'
  <1> SUFFICES ASSUME TypeOK, RunInv, OrderInv, [Next]_vars
               PROVE  OrderInv'
    OBVIOUS
  <1>0. /\ \A i \in Row : disk[i] \in MigrateField /\ cfg[i] \in MigrateField
        /\ pc \in RunStep => row \in Row /\ blk \in Block
    BY DEF TypeOK, RunInv
  <1>1. ASSUME UNCHANGED <<disk, rot>>, ordered \subseteq ordered',
               cfg' = cfg \/ cfg' = disk \/ cfg' = [i \in Row |-> NoMigrate],
               pc' \notin RunStep \/ (UNCHANGED <<pc, row, blk>>)
        PROVE  OrderInv'
    BY <1>0, <1>1 DEF OrderInv, OrderedBy, RunStep
  <1>2. ASSUME UNCHANGED <<disk, rot, cfg, ordered, row>>, row \in Row,
               blk'.target = blk.target, blk'.drop = blk.drop,
               pc \in RunStep, pc' \in RunStep, pc' = "drop" => blk.drop
        PROVE  OrderInv'
    <2>1. blk # NoMigrate
      BY <1>0, <1>2, BlockFacts
    <2> QED
      BY <1>2, <2>1 DEF OrderInv, OrderedBy
  <1>3. ASSUME NEW i \in Row, NEW b \in MigrateField,
               OrderedBy(i, b)',
               \A j \in Row : disk'[j] = disk[j] \/ (j = i /\ disk'[j] = b),
               UNCHANGED <<rot, cfg>>, ordered \subseteq ordered',
               pc' \notin RunStep \/ UNCHANGED <<pc, row, blk>>
        PROVE  OrderInv'
    BY <1>3 DEF OrderInv, OrderedBy, RunStep
  <1> USE DEF fileVars, backupVars, historyVars, runVars, boundVars
  <1>4. CASE \/ StatConfig \/ LoadConfig \/ SkipMigration \/ EndMigrationPass
             \/ SkipServer \/ ServeSkip \/ ServeDatabase \/ ServeRestore \/ EndPass
    BY <1>1, <1>4
       DEF StatConfig, LoadConfig, SkipMigration, EndMigrationPass, SkipServer,
           ServeSkip, ServeDatabase, ServeRestore, EndPass, RunStep
  <1>5. CASE StartMigration
    <2>1. row \in Row /\ cfg[row] \in Block
      BY <1>5, <1>0 DEF StartMigration, Migrates, Pending, MigrateField
    <2>2. /\ blk' \in Block /\ blk'.target = cfg[row].target
          /\ blk'.drop = cfg[row].drop /\ pc' \in {"check", "persist"}
      BY <1>5, <2>1, BlockFacts DEF StartMigration, Fail
    <2>3. OrderedBy(row, cfg[row])
      BY <2>1 DEF OrderInv
    <2> QED
      BY <1>5, <2>1, <2>2, <2>3, BlockFacts
         DEF StartMigration, OrderInv, OrderedBy
  <1>6. CASE \/ CheckTarget \/ ProvisionTarget \/ MigrateData
             \/ RestoreFallback \/ Verify \/ DropSource
    <2>1. pc \in RunStep /\ row \in Row /\ blk \in Block
      BY <1>6, <1>0
         DEF CheckTarget, ProvisionTarget, MigrateData, RestoreFallback, Verify,
             DropSource, RunStep
    <2>2. blk'.target = blk.target /\ blk'.drop = blk.drop
      <3>1. CASE blk' = blk \/ blk' = Failed(blk)
        BY <2>1, <3>1, BlockFacts
      <3>2. CASE Verify \/ DropSource
        BY <2>1, <3>1, <3>2 DEF Verify, DropSource, Fail, Block
      <3> QED
        BY <1>6, <3>1, <3>2
           DEF CheckTarget, ProvisionTarget, MigrateData, RestoreFallback, Fail
    <2>3. /\ pc' \in RunStep
          /\ pc' = "drop" => blk.drop
          /\ UNCHANGED <<disk, rot, cfg, ordered, row>>
      BY <1>6
         DEF CheckTarget, ProvisionTarget, MigrateData, RestoreFallback, Verify,
             AfterVerify, DropSource, Fail, RunStep
    <2> QED
      BY <1>2, <2>1, <2>2, <2>3
  <1>7. CASE Persist
    <2>1. pc \in RunStep /\ row \in Row /\ blk \in MigrateField /\ OrderedBy(row, blk)
      BY <1>7, <1>0 DEF Persist, RunStep, OrderInv, TypeOK
    <2>2. \A j \in Row : disk'[j] = disk[j] \/ (j = row /\ disk'[j] = blk)
      BY <1>7, <2>1, PersistFacts DEF Persist
    <2>3. \A i \in Row : OrderedBy(i, disk'[i]) /\ OrderedBy(i, cfg[i])
      BY <2>1, <2>2 DEF OrderInv
    <2> QED
      BY <1>7, <2>3 DEF Persist, OrderInv, OrderedBy, RunStep
  <1>8. CASE Rotator
    BY <1>8 DEF Rotator, RotationMigrates, RotationServes, RotationRestores, OrderInv
  <1>9. ASSUME NEW i \in Row, RotateSecret(i)
        PROVE  OrderInv'
    BY <1>9 DEF RotateSecret, TypeOK
  <1>10. ASSUME NEW i \in Row, NEW t \in Server, NEW d \in BOOLEAN,
                ScheduleMigration(i, t, d)
         PROVE  OrderInv'
    <2>1. /\ Scheduled(t, d) \in MigrateField
          /\ Scheduled(t, d).target = t /\ Scheduled(t, d).drop = d
      BY BlockFacts DEF Scheduled, MigrateField
    <2>2. d => <<i, t>> \in ordered'
      BY <1>10 DEF ScheduleMigration
    <2>3. \A j \in Row : disk'[j] = disk[j] \/ (j = i /\ disk'[j] = Scheduled(t, d))
      BY <1>10 DEF ScheduleMigration, TypeOK
    <2>4. ordered \subseteq ordered' /\ UNCHANGED <<rot, cfg, pc, row, blk>>
      BY <1>10 DEF ScheduleMigration
    <2> QED
      BY <2>1, <2>2, <2>3, <2>4 DEF OrderInv, OrderedBy
  <1>11. ASSUME NEW i \in Row, ClearMigration(i)
         PROVE  OrderInv'
    <2>1. \A j \in Row : disk'[j] = disk[j] \/ (j = i /\ disk'[j] = NoMigrate)
      BY <1>11 DEF ClearMigration, TypeOK
    <2> QED
      BY <1>3, <1>11, <2>1 DEF ClearMigration, OrderedBy, MigrateField
  <1>12. CASE \/ Scheduler
              \/ \E s \in Server, d \in DbName : AppWrites(s, d)
              \/ UNCHANGED vars
    BY <1>1, <1>12 DEF Scheduler, StartBackups, BackupDatabase, AppWrites, vars
  <1>13. CASE CrashAndRestart
    BY <1>13 DEF CrashAndRestart, OrderInv, OrderedBy, RunStep
  <1> QED
    BY <1>4, <1>5, <1>6, <1>7, <1>8, <1>9, <1>10, <1>11, <1>12, <1>13
       DEF Next, Provisioner, Environment

LEMMA OrderCorrect ==
    ASSUME MaxRotations = 0
    PROVE  Spec => []OrderInv
  <1>1. Init => OrderInv
    <2> SUFFICES ASSUME Init PROVE OrderInv
      OBVIOUS
    <2>1. \A i \in Row : OrderedBy(i, disk[i])
      BY DEF Init, OrderedBy
    <2>2. rot = NoRotation /\ pc = "idle" /\ \A i \in Row : cfg[i] = NoMigrate
      BY DEF Init
    <2> QED
      BY <2>1, <2>2 DEF OrderInv, OrderedBy, RunStep
  <1> QED
    BY <1>1, OrderNext, TypeAndRun, PTL DEF Spec

\* Without rotations, a run that reaches the drop was ordered by the operator
\* for that entry and that target, whatever was rescheduled meanwhile.
THEOREM DropsAreOrdered ==
    ASSUME MaxRotations = 0
    PROVE  Spec => []DropTakesTypedName
  <1>1. RunInv /\ OrderInv => DropTakesTypedName
    BY BlockFacts DEF RunInv, OrderInv, OrderedBy, DropTakesTypedName, RunStep
  <1> QED
    BY <1>1, OrderCorrect, TypeAndRun, PTL

-----------------------------------------------------------------------------
(***************************************************************************)
(* Migration implements Cutover, while no Secret is rotated                *)
(***************************************************************************)
\* A step that keeps the file's tombstones and the set of databases is none.
LEMMA CutStutter ==
    ASSUME UNCHANGED <<ordered, moved, Standing, Rests>>
    PROVE  UNCHANGED Cut!cutoverVars
  BY DEF Cut!cutoverVars

\* Writing a block that is no tombstone reopens an entry; a tombstone rests it.
LEMMA CutWrite ==
    ASSUME disk \in [Row -> MigrateField],
           NEW i \in Row, NEW b \in MigrateField,
           disk' = [disk EXCEPT ![i] = b]
    PROVE  Rests' = [Rests EXCEPT ![i] = IF Tombstone(b) THEN b.target ELSE NoMigrate]
  BY DEF Rests

LEMMA StandingWrite ==
    ASSUME dbs \in Dbs, NEW s \in Server, NEW d \in DbName,
           \A s2 \in Server, d2 \in DbName :
              s2 # s \/ d2 # d => dbs'[s2][d2] = dbs[s2][d2]
    PROVE  Standing' = IF dbs'[s][d] = NoDb THEN Standing \ {<<s, d>>}
                                            ELSE Standing \cup {<<s, d>>}
  BY DEF Standing

\* Ensuring a database either creates it or changes nothing.
LEMMA CutEnsure ==
    ASSUME TypeOK, NEW s \in Server, NEW i \in Row,
           dbs' \in {dbs, EnsureDb(s, i)}, UNCHANGED <<disk, ordered, moved>>
    PROVE  [Cut!CutoverNext]_(Cut!cutoverVars)
  <1>1. Name[i] \in DbName
    BY RowsAssumption
  <1>2. Rests' = Rests
    BY DEF Rests
  <1>3. CASE dbs' = dbs
    BY <1>2, <1>3, CutStutter DEF Standing
  <1>4. CASE dbs' = EnsureDb(s, i)
    <2>1. Standing' = Standing \cup {<<s, Name[i]>>}
      BY <1>1, <1>4, EnsureDbFacts, EmptyDbContent, StandingWrite DEF TypeOK
    <2>2. Cut!Appear(s, i)
      BY <1>2, <2>1 DEF Cut!Appear, Cut!Copy
    <2> QED
      BY <2>2 DEF Cut!CutoverNext
  <1> QED
    BY <1>3, <1>4

\* Rewriting a database that exists keeps the set of databases.
LEMMA CutRewrite ==
    ASSUME TypeOK, NEW s \in Server, NEW d \in DbName, dbs[s][d] # NoDb,
           dbs'[s][d] # NoDb,
           \A s2 \in Server, d2 \in DbName :
              s2 # s \/ d2 # d => dbs'[s2][d2] = dbs[s2][d2],
           UNCHANGED <<disk, ordered, moved>>
    PROVE  [Cut!CutoverNext]_(Cut!cutoverVars)
  <1>1. Standing' = Standing
    <2>1. Standing' = Standing \cup {<<s, d>>}
      BY StandingWrite DEF TypeOK
    <2>2. <<s, d>> \in Standing
      BY DEF Standing
    <2> QED
      BY <2>1, <2>2
  <1> QED
    BY <1>1, CutStutter DEF Rests

LEMMA CutRun ==
    ASSUME TypeOK, RunInv, MovedInv, OrderInv,
           \/ StartMigration \/ CheckTarget \/ ProvisionTarget \/ MigrateData
           \/ RestoreFallback \/ Verify \/ DropSource \/ Persist
    PROVE  [Cut!CutoverNext]_(Cut!cutoverVars)
  <1> USE DEF fileVars, backupVars, historyVars
  <1>1. CASE StartMigration \/ CheckTarget
    BY <1>1, CutStutter DEF StartMigration, CheckTarget, Standing, Rests
  <1>2. CASE ProvisionTarget
    <2>1. row \in Row /\ blk.target \in Server
      BY <1>2, RunFacts DEF ProvisionTarget, RunStep
    <2>2. /\ dbs' \in {dbs, EnsureDb(blk.target, row)}
          /\ UNCHANGED <<disk, ordered, moved>>
      BY <1>2 DEF ProvisionTarget
    <2> QED
      BY <2>1, <2>2, CutEnsure
  <1>3. CASE MigrateData \/ RestoreFallback
    <2> DEFINE newest == backup[Host[row]][Name[row]]
    <2>1. pc \in {"copy", "fallback"} /\ pc \in RunStep \ {"persist"}
      BY <1>3 DEF MigrateData, RestoreFallback, RunStep
    <2>2. /\ row \in Row /\ Name[row] \in DbName /\ blk.target \in Server
          /\ Target \in Content /\ Target # NoDb
          /\ Source \in Content \cup {NoDb} /\ newest \in Content \cup {NoDb}
      BY <2>1, RunFacts DEF RunInv, TypeOK, Dbs
    <2>3. UNCHANGED <<disk, ordered, moved>>
      BY <1>3 DEF MigrateData, RestoreFallback
    <2>4. CASE dbs' = dbs
      BY <2>3, <2>4, CutStutter DEF Standing, Rests
    <2>5. ASSUME NEW c \in Content, dbs' = WithDb(blk.target, row, c)
          PROVE  [Cut!CutoverNext]_(Cut!cutoverVars)
      <3>1. c # NoDb
        BY NoDbIsNoContent
      <3>2. dbs[blk.target][Name[row]] # NoDb
        BY <2>2 DEF Target, On
      <3>3. /\ dbs'[blk.target][Name[row]] # NoDb
            /\ \A s2 \in Server, d2 \in DbName :
                  s2 # blk.target \/ d2 # Name[row] => dbs'[s2][d2] = dbs[s2][d2]
        <4>1. dbs \in Dbs
          BY DEF TypeOK
        <4> QED
          BY <2>2, <2>5, <3>1, <4>1, WithDbFacts
      <3> QED
        BY <2>2, <2>3, <3>2, <3>3, CutRewrite
    <2>6. \/ dbs' = dbs
          \/ \E c \in Content : dbs' = WithDb(blk.target, row, c)
      <3>1. CASE MigrateData
        <4>1. CASE \E c \in BrokenOff : dbs' = WithDb(blk.target, row, c)
          BY <3>1, <4>1, BrokenOffFacts DEF MigrateData
        <4>2. CASE /\ Source # NoDb
                   /\ \E c \in Loaded(Target, Source) : dbs' = WithDb(blk.target, row, c)
          BY <2>2, <4>2, LoadedIsPartial, PartialIsContent
        <4> QED
          BY <3>1, <4>1, <4>2 DEF MigrateData
      <3>2. CASE RestoreFallback
        <4>1. newest # NoDb => /\ newest \in Content
                               /\ Loaded(Target, newest) \subseteq PartlyReplayed(Target, newest)
          BY <2>2, LoadedIsPartial
        <4>2. \/ dbs' = dbs
              \/ \E c \in PartlyReplayed(Target, newest) :
                    dbs' = WithDb(blk.target, row, c)
          BY <3>2, <4>1 DEF RestoreFallback
        <4> QED
          BY <4>2, PartialIsContent
      <3> QED
        BY <1>3, <3>1, <3>2
    <2> QED
      BY <2>4, <2>5, <2>6
  <1>4. CASE Verify
    <2>1. /\ row \in Row /\ Name[row] \in DbName /\ blk.target \in Server
          /\ blk.target # Host[row] /\ Target # NoDb
      BY <1>4, RunFacts DEF Verify, RunStep, RunInv
    <2>2. UNCHANGED <<dbs, disk, ordered>>
      BY <1>4 DEF Verify
    <2>3. CASE moved' = moved
      BY <2>2, <2>3, CutStutter DEF Standing, Rests
    <2>4. CASE moved' = moved \cup {<<row, blk.target>>}
      <3>1. <<blk.target, Name[row]>> \in Standing
        BY <2>1 DEF Standing, Target, On
      <3>2. Cut!Prove(row, blk.target)
        BY <2>1, <2>2, <2>4, <3>1 DEF Cut!Prove, Cut!Copy, Standing, Rests
      <3> QED
        BY <2>1, <3>2 DEF Cut!CutoverNext
    <2> QED
      BY <1>4, <2>3, <2>4 DEF Verify
  <1>5. CASE DropSource
    <2>1. /\ row \in Row /\ Name[row] \in DbName /\ Host[row] \in Server
          /\ blk.target \in Server /\ blk.target # Host[row]
          /\ Target # NoDb /\ blk \in Block
      BY <1>5, RunFacts DEF DropSource, RunStep, RunInv
    <2>2. UNCHANGED <<disk, ordered, moved>>
      BY <1>5 DEF DropSource
    <2>3. CASE dbs' = dbs
      BY <2>2, <2>3, CutStutter DEF Standing, Rests
    <2>4. CASE dbs' = WithDb(Host[row], row, NoDb)
      <3>1. Standing' = Standing \ {<<Host[row], Name[row]>>}
        BY <2>1, <2>4, WithDbFacts, StandingWrite DEF TypeOK
      <3>2. <<blk.target, Name[row]>> \in Standing
        BY <2>1 DEF Standing, Target, On
      <3>3. <<row, blk.target>> \in ordered \cap moved
        BY <1>5, <2>1, BlockFacts
           DEF DropSource, MovedInv, OrderInv, OrderedBy, RunStep
      <3>4. Rests' = Rests
        BY <2>2 DEF Rests
      <3>5. Cut!Vanish(row, blk.target)
        BY <2>1, <2>2, <3>1, <3>2, <3>3, <3>4
           DEF Cut!Vanish, Cut!Copy, Cut!Original
      <3> QED
        BY <2>1, <3>5 DEF Cut!CutoverNext
    <2> QED
      BY <1>5, <2>3, <2>4 DEF DropSource
  <1>6. CASE Persist
    <2>1. /\ row \in Row /\ blk \in Block /\ blk \in MigrateField
          /\ pc = "persist" /\ blk # NoMigrate
      BY <1>6, BlockFacts DEF Persist, RunInv, RunStep, TypeOK
    <2>2. UNCHANGED <<dbs, ordered, moved>> /\ Standing' = Standing
      BY <1>6 DEF Persist, Standing
    <2>3. CASE UNCHANGED disk
      BY <2>2, <2>3, CutStutter DEF Rests
    <2>4. CASE disk' = [disk EXCEPT ![row] = blk]
      <3>1. CASE Tombstone(blk)
        <4>1. <<row, blk.target>> \in moved
          BY <2>1, <3>1 DEF MovedInv, Tombstone
        <4>2. Rests' = [Rests EXCEPT ![row] = blk.target]
          BY <2>1, <2>4, <3>1, CutWrite DEF TypeOK
        <4>3. Cut!Rest(row, blk.target)
          BY <2>2, <4>1, <4>2 DEF Cut!Rest
        <4>4. blk.target \in Server
          BY <4>1 DEF TypeOK
        <4> QED
          BY <2>1, <4>3, <4>4 DEF Cut!CutoverNext
      <3>2. CASE ~ Tombstone(blk)
        <4>1. Rests' = [Rests EXCEPT ![row] = NoMigrate]
          BY <2>1, <2>4, <3>2, CutWrite DEF TypeOK
        <4>2. Cut!Reopen(row)
          BY <2>2, <4>1 DEF Cut!Reopen
        <4> QED
          BY <2>1, <4>2 DEF Cut!CutoverNext
      <3> QED
        BY <3>1, <3>2
    <2> QED
      BY <1>6, <2>3, <2>4 DEF Persist, PersistMigrate
  <1> QED
    BY <1>1, <1>2, <1>3, <1>4, <1>5, <1>6

LEMMA CutEnvironment ==
    ASSUME TypeOK, RunInv, OrderInv, Rotator \/ Scheduler \/ Environment
    PROVE  [Cut!CutoverNext]_(Cut!cutoverVars)
  <1> USE DEF fileVars, backupVars, historyVars
  <1>1. CASE Rotator
    BY <1>1
       DEF Rotator, RotationMigrates, RotationServes, RotationRestores, OrderInv
  <1>2. ASSUME NEW i \in Row, NEW t \in Server, NEW d \in BOOLEAN,
               ScheduleMigration(i, t, d)
        PROVE  [Cut!CutoverNext]_(Cut!cutoverVars)
    <2>1. /\ Scheduled(t, d) \in MigrateField /\ ~ Tombstone(Scheduled(t, d))
          /\ disk' = [disk EXCEPT ![i] = Scheduled(t, d)]
      BY <1>2, BlockFacts DEF ScheduleMigration, Scheduled, Tombstone, MigrateField
    <2>2. Rests' = [Rests EXCEPT ![i] = NoMigrate]
      BY <2>1, CutWrite DEF TypeOK
    <2>3. Standing' = Standing /\ UNCHANGED moved
      BY <1>2 DEF ScheduleMigration, Standing
    <2>4. \/ Cut!Order(i, t)
          \/ Cut!Reopen(i)
      BY <1>2, <2>2, <2>3 DEF ScheduleMigration, Cut!Order, Cut!Reopen
    <2> QED
      BY <2>4 DEF Cut!CutoverNext
  <1>3. ASSUME NEW i \in Row, ClearMigration(i)
        PROVE  [Cut!CutoverNext]_(Cut!cutoverVars)
    <2>1. Rests' = [Rests EXCEPT ![i] = NoMigrate]
      <3>1. disk' = [disk EXCEPT ![i] = NoMigrate] /\ ~ Tombstone(NoMigrate)
        BY <1>3 DEF ClearMigration, Tombstone
      <3> QED
        BY <3>1, CutWrite DEF TypeOK, MigrateField
    <2>2. Cut!Reopen(i)
      BY <1>3, <2>1 DEF ClearMigration, Cut!Reopen, Standing
    <2> QED
      BY <2>2 DEF Cut!CutoverNext
  <1>4. ASSUME NEW s \in Server, NEW d \in DbName, AppWrites(s, d)
        PROVE  [Cut!CutoverNext]_(Cut!cutoverVars)
    <2>1. PICK c \in Content : dbs' = [dbs EXCEPT ![s] = [@ EXCEPT ![d] = c]]
      BY <1>4 DEF AppWrites
    <2>2. c # NoDb
      BY NoDbIsNoContent
    <2>3. /\ dbs'[s][d] # NoDb
          /\ \A s2 \in Server, d2 \in DbName :
                s2 # s \/ d2 # d => dbs'[s2][d2] = dbs[s2][d2]
      BY <2>1, <2>2 DEF TypeOK, Dbs
    <2>4. dbs[s][d] # NoDb /\ UNCHANGED <<disk, ordered, moved>>
      BY <1>4 DEF AppWrites
    <2> QED
      BY <2>3, <2>4, CutRewrite
  <1>5. CASE (\E i \in Row : RotateSecret(i)) \/ CrashAndRestart
    BY <1>5, CutStutter
       DEF RotateSecret, CrashAndRestart, Standing, Rests
  <1>6. CASE Scheduler
    BY <1>6, CutStutter
       DEF Scheduler, StartBackups, BackupDatabase, Standing, Rests
  <1> QED
    BY <1>1, <1>2, <1>3, <1>4, <1>5, <1>6 DEF Environment

LEMMA CutNext ==
    TypeOK /\ RunInv /\ MovedInv /\ OrderInv /\ [Next]_vars
       => [Cut!CutoverNext]_(Cut!cutoverVars)
  <1> SUFFICES ASSUME TypeOK, RunInv, MovedInv, OrderInv, [Next]_vars
               PROVE  [Cut!CutoverNext]_(Cut!cutoverVars)
    OBVIOUS
  <1> USE DEF fileVars, backupVars, historyVars
  <1>1. CASE \/ StatConfig \/ LoadConfig \/ SkipMigration \/ EndMigrationPass
             \/ SkipServer \/ ServeSkip \/ EndPass
    BY <1>1, CutStutter
       DEF StatConfig, LoadConfig, SkipMigration, EndMigrationPass, SkipServer,
           ServeSkip, EndPass, Standing, Rests
  <1>2. CASE ServeDatabase
    <2>1. /\ row \in Row /\ Host[row] \in Server
          /\ dbs' \in {dbs, EnsureDb(Host[row], row)}
          /\ UNCHANGED <<disk, ordered, moved>>
      BY <1>2, RowsAssumption DEF ServeDatabase
    <2> QED
      BY <2>1, CutEnsure
  <1>3. CASE ServeRestore
    <2>1. /\ row \in Row /\ Host[row] \in Server /\ Name[row] \in DbName
          /\ UNCHANGED <<disk, ordered, moved>>
      BY <1>3, RowsAssumption DEF ServeRestore, RunInv
    <2>2. PICK c \in Restored(row) : dbs' = WithDb(Host[row], row, c)
      BY <1>3 DEF ServeRestore
    <2>3. c \in Content \cup {NoDb} /\ dbs \in Dbs
      BY <2>1, RestoredFacts DEF TypeOK
    <2>4. /\ dbs'[Host[row]][Name[row]] = c
          /\ \A s \in Server, d \in DbName :
                s # Host[row] \/ d # Name[row] => dbs'[s][d] = dbs[s][d]
      BY <2>1, <2>2, <2>3, WithDbFacts
    <2>5. CASE On(Host[row], row) # NoDb
      <3>1. c # NoDb
        BY <2>1, <2>5, RestoredKeeps
      <3> QED
        BY <2>1, <2>4, <2>5, <3>1, CutRewrite DEF On
    <2>6. CASE On(Host[row], row) = NoDb
      <3>1. c = NoDb
        BY <2>6 DEF Restored
      <3>2. Standing' = Standing
        BY <2>1, <2>3, <2>4, <2>6, <3>1 DEF Standing, On
      <3> QED
        BY <2>1, <3>2, CutStutter DEF Rests
    <2> QED
      BY <2>5, <2>6
  <1>4. CASE UNCHANGED vars
    BY <1>4, CutStutter DEF vars, Standing, Rests
  <1> QED
    BY <1>1, <1>2, <1>3, <1>4, CutRun, CutEnvironment DEF Next, Provisioner

\* Without rotations the provisioner implements Cutover: whatever fails, is
\* edited or crashes, a database goes away only by a cutover that was ordered
\* and proven and whose copy stands at that moment, and an entry rests only on
\* a proven copy.
THEOREM MigrationImplementsCutover ==
    ASSUME MaxRotations = 0
    PROVE  Spec => ImplementsCutover
  <1>1. Init => Cut!CutoverInit
    <2> SUFFICES ASSUME Init PROVE Cut!CutoverInit
      OBVIOUS
    <2>1. \A i \in Row : ~ Tombstone(disk[i])
      BY DEF Init, Tombstone, Scheduled
    <2> QED
      BY <2>1 DEF Init, Cut!CutoverInit, Rests
  <1> QED
    BY <1>1, CutNext, TypeAndRun, MovedCorrect, OrderCorrect, PTL
       DEF Spec, ImplementsCutover, Cut!CutoverSpec

\* A step of Cutover takes a database away only by an ordered, proven cutover
\* whose copy stands before and after.
LEMMA CutVanish ==
    ASSUME [Cut!CutoverNext]_(Cut!cutoverVars), NEW x \in Standing, x \notin Standing'
    PROVE  \E i \in Row, t \in Server :
              /\ x = <<Host[i], Name[i]>> /\ t # Host[i]
              /\ <<i, t>> \in ordered \cap moved
              /\ <<t, Name[i]>> \in Standing'
  <1>1. PICK i \in Row, t \in Server : Cut!Vanish(i, t)
    BY DEF Cut!CutoverNext, Cut!cutoverVars, Cut!Reopen, Cut!Appear, Cut!Prove,
           Cut!Rest, Cut!Order
  <1>2. Standing' = Standing \ {<<Host[i], Name[i]>>}
    BY <1>1 DEF Cut!Vanish, Cut!Original
  <1>3. <<t, Name[i]>> \in Standing'
    BY <1>1, <1>2 DEF Cut!Vanish, Cut!Copy
  <1> QED
    BY <1>1, <1>2, <1>3 DEF Cut!Vanish

\* Without rotations, a database goes away only when the operator asked for the
\* drop of that entry with that target, a run verified the copy there, and the
\* copy exists when the source is gone.
THEOREM DropsOnOrderOnly ==
    ASSUME MaxRotations = 0
    PROVE  Spec => DropsOnlyOnOrder
  <1> DEFINE Lawful(s, d) ==
        dbs[s][d] # NoDb /\ dbs'[s][d] = NoDb =>
           \E i \in Row, t \in Server :
              /\ Host[i] = s /\ Name[i] = d /\ t # s
              /\ <<i, t>> \in ordered \cap moved
              /\ dbs'[t][d] # NoDb
  <1>1. [Cut!CutoverNext]_(Cut!cutoverVars) =>
           \A s \in Server, d \in DbName : Lawful(s, d)
    <2> SUFFICES ASSUME [Cut!CutoverNext]_(Cut!cutoverVars),
                        NEW s \in Server, NEW d \in DbName,
                        dbs[s][d] # NoDb, dbs'[s][d] = NoDb
                 PROVE  \E i \in Row, t \in Server :
                           /\ Host[i] = s /\ Name[i] = d /\ t # s
                           /\ <<i, t>> \in ordered \cap moved
                           /\ dbs'[t][d] # NoDb
      OBVIOUS
    <2>1. <<s, d>> \in Standing /\ <<s, d>> \notin Standing'
      BY DEF Standing
    <2>2. PICK i \in Row, t \in Server :
             /\ <<s, d>> = <<Host[i], Name[i]>> /\ t # Host[i]
             /\ <<i, t>> \in ordered \cap moved
             /\ <<t, Name[i]>> \in Standing'
      BY <2>1, CutVanish
    <2>3. dbs'[t][d] # NoDb
      BY <2>2 DEF Standing
    <2> QED
      BY <2>2, <2>3
  <1>2. TypeOK /\ RunInv /\ MovedInv /\ OrderInv /\ [Next]_vars =>
           [\A s \in Server, d \in DbName : Lawful(s, d)]_vars
    BY <1>1, CutNext
  <1> QED
    BY <1>2, TypeAndRun, MovedCorrect, OrderCorrect, PTL DEF Spec, DropsOnlyOnOrder

=============================================================================
