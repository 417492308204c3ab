--------------------------- MODULE ProvisionProofs ---------------------------
(***************************************************************************)
(* Theorems about Provision, for any servers, entries and bounds.          *)
(***************************************************************************)
EXTENDS Provision, TLAPS

USE EntriesAssumption, NullsAssumption, BoundsAssumption, NoDbAssumption

-----------------------------------------------------------------------------
(***************************************************************************)
(* The order of the statements                                             *)
(***************************************************************************)
LEMMA KindsOfEntries ==
    ASSUME NEW e \in Entry
    PROVE  KindOf(e) \in {"postgres", "mariadb", "mongodb"}
  BY DEF KindOf

LEMMA PostgresOrder ==
    ASSUME NEW e \in Entry, KindOf(e) = "postgres"
    PROVE  /\ Head(Script(e)) = "checkUser"
           /\ Following(e, "checkUser") = "setUser"
           /\ Following(e, "setUser") = "checkDb"
           /\ Following(e, "checkDb") = "setDb"
           /\ Following(e, "setDb") = "grant"
           /\ Following(e, "grant") \in {"extend", "restore"}
           /\ e \in WithExtensions => Following(e, "extend") = "restore"
           /\ Following(e, "grant") = "extend" => e \in WithExtensions
  <1>1. CASE e \in WithExtensions
    <2>1. Script(e) = <<"checkUser", "setUser", "checkDb", "setDb", "grant", "extend", "restore">>
      BY <1>1 DEF Script
    <2> QED
      BY <1>1, <2>1 DEF Following
  <1>2. CASE e \notin WithExtensions
    <2>1. Script(e) = <<"checkUser", "setUser", "checkDb", "setDb", "grant", "restore">>
      BY <1>2 DEF Script
    <2> QED
      BY <1>2, <2>1 DEF Following
  <1> QED
    BY <1>1, <1>2

LEMMA MariaOrder ==
    ASSUME NEW e \in Entry, KindOf(e) = "mariadb"
    PROVE  /\ Head(Script(e)) = "checkDb"
           /\ Following(e, "checkDb") = "setDb"
           /\ Following(e, "setDb") = "checkUser"
           /\ Following(e, "checkUser") = "setUser"
           /\ Following(e, "setUser") = "grant"
           /\ Following(e, "grant") = "restore"
  <1>1. Script(e) = <<"checkDb", "setDb", "checkUser", "setUser", "grant", "restore">>
    BY DEF Script
  <1> QED
    BY <1>1 DEF Following

LEMMA MongoOrder ==
    ASSUME NEW e \in Entry, KindOf(e) = "mongodb"
    PROVE  /\ Head(Script(e)) = "checkDb"
           /\ Following(e, "checkDb") = "dropUser"
           /\ Following(e, "dropUser") = "setUser"
           /\ Following(e, "setUser") = "setDb"
           /\ Following(e, "setDb") = "restore"
  <1>1. Script(e) = <<"checkDb", "dropUser", "setUser", "setDb", "restore">>
    BY DEF Script
  <1> QED
    BY <1>1 DEF Following

-----------------------------------------------------------------------------
(***************************************************************************)
(* The invariant                                                           *)
(***************************************************************************)
\* x is at a statement of its entry's script.
Stands(x) ==
    x.at \in Statement =>
        \/ /\ KindOf(x.entry) = "postgres"
           /\ x.at # "dropUser"
           /\ x.at = "extend" => x.entry \in WithExtensions
        \/ /\ KindOf(x.entry) = "mariadb"
           /\ x.at \notin {"dropUser", "extend", "refresh"}
        \/ /\ KindOf(x.entry) = "mongodb"
           /\ x.at \notin {"checkUser", "grant", "extend", "refresh"}

\* It is past the statement that sets the database.
PastSetDb(x) ==
    \/ KindOf(x.entry) = "postgres" /\ x.at \in {"grant", "extend", "restore"}
    \/ KindOf(x.entry) = "mariadb" /\ x.at \in {"checkUser", "setUser", "grant", "restore"}
    \/ KindOf(x.entry) = "mongodb" /\ x.at = "restore"

\* What x did and saw agrees with the databases db after rot rotations: a
\* database that it set is there, and one that it did not see was made by it,
\* or will not be taken for its own.
Rooted(x, db, rot) ==
    LET k == KindOf(x.entry)
        d == db[Host[x.entry]][DbOf[x.entry]]
    IN  /\ PastSetDb(x) => d # NoDb
        /\ PastSetDb(x) /\ ~ x.sawDb /\ (k = "mariadb" => rot = 0) => x.made
        /\ k = "mongodb" /\ x.at \in {"dropUser", "setUser", "setDb"} /\ ~ x.sawDb
           => d = NoDb \/ d.marked
        /\ k = "mariadb" /\ x.at = "setDb" /\ ~ x.sawDb /\ rot = 0 => d = NoDb

IInv ==
    /\ TypeOK
    /\ \A a \in Actor : Stands(act[a]) /\ Rooted(act[a], dbs, rotations)
    /\ rotations = 0 => act["rotator"].at = "idle"

ServersTyped ==
    /\ role \in [Server -> [User -> Password \cup {NoRole}]]
    /\ dbs \in [Server -> [Db -> Database \cup {NoDb}]]
    /\ access \in [Server -> SUBSET (Db \X User)]
    /\ skewed \subseteq Server

\* An activity that may be started or gone on with.
Sound(x, db, rot) ==
    /\ x \in Activity
    /\ Stands(x)
    /\ x.at \in Statement => Host[x.entry] \notin DryRun
    /\ Rooted(x, db, rot)

\* No database goes away, and one of MongoDB that a pass made stays marked.
Grows ==
    \A s \in Server, n \in Db :
        /\ dbs[s][n] # NoDb => dbs'[s][n] # NoDb
        /\ Kind[s] = "mongodb" /\ (dbs[s][n] = NoDb \/ dbs[s][n].marked)
           => dbs'[s][n] = NoDb \/ dbs'[s][n].marked

LEMMA Places ==
    ASSUME IInv, NEW a \in Actor
    PROVE  /\ act[a] \in Activity /\ act[a].entry \in Entry
           /\ S(a) \in Server /\ D(a) \in Db /\ U(a) \in User
           /\ Sound(act[a], dbs, rotations)
  BY DEF IInv, TypeOK, Activity, S, D, U, Db, User, Range, Sound

\* Whoever is not at a statement is sound.
LEMMA VisitsAreSound ==
    ASSUME NEW e \in Entry, NEW pw \in Password, NEW db, NEW rot
    PROVE  Sound(Visit(e, pw), db, rot) /\ Sound(Resting, db, rot)
  <1>1. Visit(e, pw) \in Activity /\ Visit(e, pw).at = "begin"
    BY DEF Visit, Activity
  <1>2. Resting \in Activity /\ Resting.at = "idle"
    <2>1. 1 \in Entry /\ 0 \in Password
      BY DEF Entry, Password
    <2> QED
      BY <2>1 DEF Resting, Visit, Activity
  <1> QED
    BY <1>1, <1>2 DEF Sound, Stands, Rooted, PastSetDb, Statement

LEMMA AfterIsSound ==
    ASSUME IInv, NEW a \in Actor, NEW e \in Entry, NEW db, NEW rot
    PROVE  Sound(After(a, e), db, rot)
  <1>1. CASE a = "rotator" \/ e = NEntries
    <2>1. 1 \in Entry /\ 0 \in Password
      BY DEF Entry, Password
    <2> QED
      BY <1>1, <2>1, VisitsAreSound DEF After
  <1>2. CASE ~ (a = "rotator" \/ e = NEntries)
    <2>1. e + 1 \in Entry
      BY <1>2 DEF Entry
    <2>2. cfg[e + 1] \in Password
      BY <2>1 DEF IInv, TypeOK
    <2> QED
      BY <1>2, <2>1, <2>2, VisitsAreSound DEF After
  <1> QED
    BY <1>1, <1>2

LEMMA GivesUpIsSound ==
    ASSUME IInv, NEW a \in Actor, NEW db, NEW rot
    PROVE  Sound(GivesUp(a), db, rot)
  BY AfterIsSound, Places DEF GivesUp

-----------------------------------------------------------------------------
(***************************************************************************)
(* Steps                                                                   *)
(***************************************************************************)
\* An actor goes on as x, and the servers change as they do.
LEMMA StepKeeps ==
    ASSUME IInv, NEW a \in Actor, NEW x,
           act[a].at # "idle",
           Goes(a, x), Sound(x, dbs', rotations),
           ServersTyped', Grows,
           faults' \in 0..MaxFaults, UNCHANGED outside
    PROVE  IInv'
  <1>1. /\ act \in [Actor -> Activity]
        /\ act' = [act EXCEPT ![a] = x]
        /\ x \in Activity
        /\ UNCHANGED <<config, changed, cfg, edits, rotations>>
    BY DEF IInv, TypeOK, Goes, Sound, outside
  <1>2. act' \in [Actor -> Activity] /\ act'[a] = x
        /\ \A b \in Actor : b # a => act'[b] = act[b]
    BY <1>1
  <1>3. \A b \in Actor : act'[b].at \in Statement => Host[act'[b].entry] \notin DryRun
    BY <1>2 DEF IInv, TypeOK, Sound
  <1>4. TypeOK'
    BY <1>1, <1>2, <1>3 DEF IInv, TypeOK, ServersTyped
  <1>5. ASSUME NEW b \in Actor, b # a
        PROVE  Rooted(act[b], dbs', rotations)
    <2>1. Rooted(act[b], dbs, rotations)
      BY DEF IInv
    <2>2. ~ (rotations = 0 /\ act[b].at = "setDb")
      BY <1>5 DEF IInv, Actor
    <2>3. S(b) \in Server /\ D(b) \in Db
      BY Places
    <2> QED
      BY <2>1, <2>2, <2>3 DEF Rooted, Grows, S, D, KindOf
  <1>6. \A b \in Actor : Stands(act'[b]) /\ Rooted(act'[b], dbs', rotations')
    BY <1>1, <1>2, <1>5 DEF IInv, Sound
  <1>7. rotations' = 0 => act'["rotator"].at = "idle"
    BY <1>1, <1>2 DEF IInv, Actor
  <1> QED
    BY <1>4, <1>6, <1>7 DEF IInv

\* It gives up the entry.
LEMMA GivesUpKeeps ==
    ASSUME IInv, NEW a \in Actor, act[a].at # "idle",
           Goes(a, GivesUp(a)), ServersTyped', Grows,
           faults' \in 0..MaxFaults, UNCHANGED outside
    PROVE  IInv'
  BY GivesUpIsSound, StepKeeps

LEMMA SameServers ==
    ASSUME IInv, UNCHANGED servers
    PROVE  ServersTyped' /\ Grows
  BY DEF IInv, TypeOK, servers, ServersTyped, Grows

LEMMA FaultsTyped ==
    ASSUME IInv, NEW a \in Actor, MayFail(a) \/ UNCHANGED faults
    PROVE  faults' \in 0..MaxFaults
  BY DEF IInv, TypeOK, MayFail

LEMMA ExecutedKeeps ==
    ASSUME IInv, NEW a \in Actor, NEW x, act[a].at # "idle",
           Executed(a, x), Sound(x, dbs', rotations), ServersTyped', Grows
    PROVE  IInv'
  <1>1. UNCHANGED outside /\ faults' \in 0..MaxFaults
    BY FaultsTyped DEF Executed
  <1>2. CASE Goes(a, x)
    BY <1>1, <1>2, StepKeeps
  <1>3. CASE Goes(a, GivesUp(a))
    BY <1>1, <1>3, GivesUpKeeps
  <1> QED
    BY <1>2, <1>3 DEF Executed

LEMMA RefusedKeeps ==
    ASSUME IInv, NEW a \in Actor, act[a].at # "idle", Refused(a)
    PROVE  IInv'
  BY GivesUpKeeps, SameServers, FaultsTyped DEF Refused

\* The next statement is one of the script.
LEMMA NextStatement ==
    ASSUME IInv, NEW a \in Actor, act[a].at \in Statement \ {"restore", "refresh"}
    PROVE  /\ Advanced(a) \in Activity /\ Stands(Advanced(a))
           /\ Advanced(a).at = Following(act[a].entry, act[a].at)
           /\ Advanced(a).at \in Statement
           /\ Advanced(a).entry = act[a].entry
           /\ Advanced(a).sawDb = act[a].sawDb /\ Advanced(a).made = act[a].made
           /\ Host[act[a].entry] \notin DryRun
  <1> DEFINE e == act[a].entry
             x == Advanced(a)
  <1>1. /\ act[a] \in Activity /\ e \in Entry /\ Stands(act[a])
        /\ Host[e] \notin DryRun
    BY Places DEF Sound
  <1>2. /\ x.entry = e /\ x.at = Following(e, act[a].at)
        /\ x.sawDb = act[a].sawDb /\ x.made = act[a].made
        /\ x.at \in Statement => x \in Activity
    BY <1>1 DEF Advanced, Activity
  <1> HIDE DEF x
  <1>3. x.at \in Statement /\ Stands(x)
    <2>1. CASE KindOf(e) = "postgres"
      BY <1>1, <1>2, <2>1, PostgresOrder DEF Stands, Statement
    <2>2. CASE KindOf(e) = "mariadb"
      BY <1>1, <1>2, <2>2, MariaOrder DEF Stands, Statement
    <2>3. CASE KindOf(e) = "mongodb"
      BY <1>1, <1>2, <2>3, MongoOrder DEF Stands, Statement
    <2> QED
      BY <1>1, <2>1, <2>2, <2>3, KindsOfEntries
  <1> QED
    BY <1>1, <1>2, <1>3 DEF x

\* It stays rooted if it is not the statement for the database.
LEMMA StaysRooted ==
    ASSUME IInv, NEW a \in Actor,
           act[a].at \in {"checkUser", "dropUser", "setUser", "grant", "extend"},
           NEW x, x.entry = act[a].entry,
           x.at = Following(act[a].entry, act[a].at),
           x.sawDb = act[a].sawDb, x.made = act[a].made
    PROVE  Rooted(x, dbs, rotations)
  <1> DEFINE e == act[a].entry
  <1>1. /\ e \in Entry /\ Stands(act[a]) /\ Rooted(act[a], dbs, rotations)
        /\ act[a].at \in Statement
    BY Places DEF Sound, Statement
  <1>2. CASE KindOf(e) = "postgres"
    BY <1>1, <1>2, PostgresOrder DEF Stands, Rooted, PastSetDb
  <1>3. CASE KindOf(e) = "mariadb"
    BY <1>1, <1>3, MariaOrder DEF Stands, Rooted, PastSetDb
  <1>4. CASE KindOf(e) = "mongodb"
    BY <1>1, <1>4, MongoOrder DEF Stands, Rooted, PastSetDb
  <1> QED
    BY <1>1, <1>2, <1>3, <1>4, KindsOfEntries

-----------------------------------------------------------------------------
(***************************************************************************)
(* The actions                                                             *)
(***************************************************************************)
LEMMA SkipDryRunKeeps ==
    ASSUME IInv, NEW a \in Actor, SkipDryRun(a)
    PROVE  IInv'
  <1>1. act[a].at # "idle" /\ UNCHANGED faults
    BY DEF SkipDryRun, At
  <1> QED
    BY <1>1, GivesUpKeeps, SameServers, FaultsTyped DEF SkipDryRun

LEMMA BeginKeeps ==
    ASSUME IInv, NEW a \in Actor, Begin(a)
    PROVE  IInv'
  <1> DEFINE e == act[a].entry
             x == [act[a] EXCEPT !.at = Head(Script(e)),
                                 !.pw = IF e \in InSecret THEN config[e] ELSE @]
  <1>1. /\ act[a].at = "begin" /\ S(a) \notin DryRun
        /\ Goes(a, x) /\ UNCHANGED <<servers, faults, outside>>
    BY DEF Begin, Starts, At
  <1>2. act[a] \in Activity /\ e \in Entry
    BY Places
  <1>3. (IF e \in InSecret THEN config[e] ELSE act[a].pw) \in Password
    BY <1>2 DEF IInv, TypeOK, Activity
  <1>4. x.entry = e /\ x.at = Head(Script(e)) /\ x.sawDb = act[a].sawDb
    BY <1>2 DEF Activity
  <1>5. x.at \in Statement => x \in Activity
    BY <1>2, <1>3 DEF Activity
  <1>6. x.at \in Statement /\ Stands(x) /\ Rooted(x, dbs', rotations)
    <2>1. CASE KindOf(e) = "postgres"
      BY <1>2, <1>4, <2>1, PostgresOrder DEF Stands, Statement, Rooted, PastSetDb
    <2>2. CASE KindOf(e) = "mariadb"
      BY <1>2, <1>4, <2>2, MariaOrder DEF Stands, Statement, Rooted, PastSetDb
    <2>3. CASE KindOf(e) = "mongodb"
      BY <1>2, <1>4, <2>3, MongoOrder DEF Stands, Statement, Rooted, PastSetDb
    <2> QED
      BY <1>2, <2>1, <2>2, <2>3, KindsOfEntries
  <1>7. Sound(x, dbs', rotations)
    BY <1>1, <1>4, <1>5, <1>6 DEF Sound, S
  <1> HIDE DEF x
  <1> QED
    BY <1>1, <1>7, StepKeeps, SameServers, FaultsTyped

LEMMA ConnectFailsKeeps ==
    ASSUME IInv, NEW a \in Actor, ConnectFails(a)
    PROVE  IInv'
  <1>1. PICK e \in Entry : Goes(a, After(a, e))
    BY DEF ConnectFails
  <1>2. act[a].at # "idle" /\ MayFail(a) /\ UNCHANGED <<servers, outside>>
    BY DEF ConnectFails, At
  <1> QED
    BY <1>1, <1>2, AfterIsSound, StepKeeps, SameServers, FaultsTyped

LEMMA FailsKeeps ==
    ASSUME IInv, NEW a \in Actor, Fails(a)
    PROVE  IInv'
  <1>1. act[a].at # "idle"
    BY DEF Fails, Statement
  <1> QED
    BY <1>1, GivesUpKeeps, SameServers, FaultsTyped DEF Fails

LEMMA CheckUserKeeps ==
    ASSUME IInv, NEW a \in Actor, CheckUser(a)
    PROVE  IInv'
  <1> DEFINE u == role[S(a)][U(a)] # NoRole
             x == [Advanced(a) EXCEPT !.sawUser = u]
             e == act[a].entry
  <1>1. /\ act[a].at = "checkUser" /\ Executed(a, x) /\ UNCHANGED servers
    BY DEF CheckUser, At
  <1>2. act[a] \in Activity /\ e \in Entry /\ Sound(act[a], dbs, rotations)
    BY Places
  <1>3. act[a].at \in Statement \ {"restore", "refresh"}
    BY <1>1 DEF Statement
  <1>4. /\ x.entry = e /\ x.at = Following(e, "checkUser")
        /\ x.sawDb = act[a].sawDb /\ x.made = act[a].made
        /\ x \in Activity /\ Stands(x) /\ Host[x.entry] \notin DryRun
    BY <1>1, <1>3, NextStatement DEF Activity, Stands
  <1> HIDE DEF x
  <1>5. Rooted(x, dbs, rotations)
    BY <1>1, <1>4, StaysRooted
  <1>6. Sound(x, dbs', rotations)
    BY <1>1, <1>4, <1>5 DEF Sound, servers
  <1> QED
    BY <1>1, <1>3, <1>6, ExecutedKeeps, SameServers DEF Statement

LEMMA CheckDbKeeps ==
    ASSUME IInv, NEW a \in Actor, CheckDb(a)
    PROVE  IInv'
  <1> DEFINE v == dbs[S(a)][D(a)] # NoDb
             x == [Advanced(a) EXCEPT !.sawDb = v]
             e == act[a].entry
  <1>1. act[a].at = "checkDb" /\ (Refused(a) \/ (Executed(a, x) /\ UNCHANGED servers))
    BY DEF CheckDb, At
  <1>2. act[a] \in Activity /\ e \in Entry
    BY Places
  <1>3. act[a].at \in Statement \ {"restore", "refresh"}
    BY <1>1 DEF Statement
  <1>4. /\ x.entry = e /\ x.at = Following(e, "checkDb") /\ x.sawDb = v
        /\ x \in Activity /\ Stands(x) /\ Host[x.entry] \notin DryRun
    BY <1>1, <1>3, NextStatement DEF Activity, Stands
  <1> HIDE DEF x
  <1>5. Rooted(x, dbs, rotations)
    <2>1. CASE KindOf(e) = "postgres"
      BY <1>2, <1>4, <2>1, PostgresOrder DEF Rooted, PastSetDb
    <2>2. CASE KindOf(e) = "mariadb"
      BY <1>2, <1>4, <2>2, MariaOrder DEF Rooted, PastSetDb, S, D
    <2>3. CASE KindOf(e) = "mongodb"
      BY <1>2, <1>4, <2>3, MongoOrder DEF Rooted, PastSetDb, S, D
    <2> QED
      BY <1>2, <2>1, <2>2, <2>3, KindsOfEntries
  <1>6. ASSUME UNCHANGED servers PROVE Sound(x, dbs', rotations)
    BY <1>4, <1>5, <1>6 DEF Sound, servers
  <1> QED
    BY <1>1, <1>3, <1>6, ExecutedKeeps, RefusedKeeps, SameServers DEF Statement

\* Statements that leave the databases alone, or change only what is in one.
LEMMA AdvancingKeeps ==
    ASSUME IInv, NEW a \in Actor,
           act[a].at \in {"checkUser", "dropUser", "setUser", "grant", "extend"},
           NEW u \in BOOLEAN, NEW x, x = [Advanced(a) EXCEPT !.sawUser = u],
           ServersTyped', Grows
    PROVE  Sound(x, dbs', rotations)
  <1>1. act[a].at \in Statement \ {"restore", "refresh"} /\ S(a) \in Server /\ D(a) \in Db
    BY Places DEF Statement
  <1>2. /\ x.entry = act[a].entry /\ x.at = Following(act[a].entry, act[a].at)
        /\ x.sawDb = act[a].sawDb /\ x.made = act[a].made
        /\ x \in Activity /\ Stands(x) /\ Host[x.entry] \notin DryRun
    BY <1>1, NextStatement DEF Activity, Stands
  <1>3. Rooted(x, dbs, rotations)
    BY <1>2, StaysRooted
  <1>4. Rooted(x, dbs', rotations)
    <2>1. ~ (KindOf(x.entry) = "mariadb" /\ x.at = "setDb")
      BY <1>1, <1>2, Places, MariaOrder DEF Sound, Stands, Statement
    <2> QED
      BY <1>1, <1>2, <1>3, <2>1 DEF Rooted, Grows, S, D, KindOf
  <1> QED
    BY <1>2, <1>4 DEF Sound

LEMMA DropUserKeeps ==
    ASSUME IInv, NEW a \in Actor, DropUser(a)
    PROVE  IInv'
  <1> DEFINE x == Advanced(a)
  <1>1. /\ act[a].at = "dropUser" /\ Goes(a, x) /\ UNCHANGED outside
        /\ MayFail(a) \/ UNCHANGED faults
        /\ UNCHANGED <<dbs, skewed>>
    BY DEF DropUser, At, servers
  <1>2. ServersTyped'
    <2>1. S(a) \in Server /\ U(a) \in User
      BY Places
    <2>2. ServersTyped
      BY DEF IInv, TypeOK, ServersTyped
    <2>3. CASE /\ role' = [role EXCEPT ![S(a)][U(a)] = NoRole]
               /\ access' = [access EXCEPT ![S(a)] = {g \in @ : g[2] # U(a)}]
      BY <1>1, <2>1, <2>2, <2>3 DEF ServersTyped
    <2>4. CASE UNCHANGED servers
      BY <2>2, <2>4 DEF ServersTyped, servers
    <2> QED
      BY <2>3, <2>4 DEF DropUser
  <1>3. Grows
    BY <1>1 DEF Grows
  <1>4. act[a] \in Activity /\ x \in Activity
    BY <1>1, Places, NextStatement DEF Statement
  <1>5. x.sawUser \in BOOLEAN /\ x = [Advanced(a) EXCEPT !.sawUser = x.sawUser]
    BY <1>4 DEF Activity
  <1> HIDE DEF x
  <1>6. Sound(x, dbs', rotations)
    BY <1>1, <1>2, <1>3, <1>5, AdvancingKeeps
  <1> QED
    BY <1>1, <1>2, <1>3, <1>6, StepKeeps, FaultsTyped

LEMMA SetUserKeeps ==
    ASSUME IInv, NEW a \in Actor, SetUser(a)
    PROVE  IInv'
  <1> DEFINE x == [Advanced(a) EXCEPT !.sawUser = FALSE]
  <1>1. act[a].at = "setUser"
    BY DEF SetUser, At
  <1>2. CASE Refused(a)
    BY <1>1, <1>2, RefusedKeeps
  <1>3. CASE /\ role' = [role EXCEPT ![S(a)][U(a)] = act[a].pw]
             /\ access' \in {Allowed(a), access}
             /\ UNCHANGED <<dbs, skewed>>
             /\ Executed(a, x)
    <2>1. ServersTyped'
      <3>1. S(a) \in Server /\ U(a) \in User /\ D(a) \in Db /\ act[a].pw \in Password
        BY Places DEF Activity
      <3>2. ServersTyped
        BY DEF IInv, TypeOK, ServersTyped
      <3>3. role' \in [Server -> [User -> Password \cup {NoRole}]]
        BY <1>3, <3>1, <3>2 DEF ServersTyped
      <3>4. access' \in [Server -> SUBSET (Db \X User)]
        BY <1>3, <3>1, <3>2 DEF ServersTyped, Allowed
      <3> QED
        BY <1>3, <3>2, <3>3, <3>4 DEF ServersTyped
    <2>2. Grows
      BY <1>3 DEF Grows
    <2>3. Sound(x, dbs', rotations)
      BY <1>1, <2>1, <2>2, AdvancingKeeps
    <2> HIDE DEF x
    <2> QED
      BY <1>1, <1>3, <2>1, <2>2, <2>3, ExecutedKeeps
  <1> QED
    BY <1>2, <1>3 DEF SetUser

LEMMA GrantKeeps ==
    ASSUME IInv, NEW a \in Actor, Grant(a)
    PROVE  IInv'
  <1> DEFINE x == Advanced(a)
  <1>1. /\ act[a].at = "grant" /\ access' = Allowed(a)
        /\ UNCHANGED <<role, dbs, skewed>> /\ Executed(a, x)
    BY DEF Grant, At
  <1>2. ServersTyped'
    <2>1. S(a) \in Server /\ U(a) \in User /\ D(a) \in Db
      BY Places
    <2>2. ServersTyped
      BY DEF IInv, TypeOK, ServersTyped
    <2> QED
      BY <1>1, <2>1, <2>2 DEF ServersTyped, Allowed
  <1>3. Grows
    BY <1>1 DEF Grows
  <1>4. x \in Activity
    BY <1>1, NextStatement DEF Statement
  <1>5. x.sawUser \in BOOLEAN /\ x = [Advanced(a) EXCEPT !.sawUser = x.sawUser]
    BY <1>4 DEF Activity
  <1> HIDE DEF x
  <1> QED
    BY <1>1, <1>2, <1>3, <1>5, AdvancingKeeps, ExecutedKeeps

\* One database changes.
LEMMA DatabaseChanges ==
    ASSUME IInv, NEW s \in Server, NEW n \in Db, NEW d \in Database,
           dbs' = [dbs EXCEPT ![s][n] = d], UNCHANGED <<role, access, skewed>>,
           Kind[s] = "mongodb" /\ (dbs[s][n] = NoDb \/ dbs[s][n].marked) => d.marked
    PROVE  ServersTyped' /\ Grows /\ dbs'[s][n] = d
  <1>1. ServersTyped
    BY DEF IInv, TypeOK, ServersTyped
  <1>2. dbs' \in [Server -> [Db -> Database \cup {NoDb}]] /\ dbs'[s][n] = d
    BY <1>1 DEF ServersTyped
  <1>3. \A t \in Server, k \in Db : dbs'[t][k] = IF t = s /\ k = n THEN d ELSE dbs[t][k]
    BY <1>1 DEF ServersTyped
  <1>4. ServersTyped'
    BY <1>1, <1>2 DEF ServersTyped
  <1>5. d # NoDb
    OBVIOUS
  <1> QED
    BY <1>2, <1>3, <1>4, <1>5 DEF Grows

LEMMA ExtendKeeps ==
    ASSUME IInv, NEW a \in Actor, Extend(a)
    PROVE  IInv'
  <1> DEFINE x == Advanced(a)
             old == dbs[S(a)][D(a)]
             d == [old EXCEPT !.extended = TRUE]
  <1>1. /\ act[a].at = "extend" /\ dbs' = [dbs EXCEPT ![S(a)][D(a)] = d]
        /\ UNCHANGED <<role, access, skewed>> /\ Executed(a, x)
    BY DEF Extend, At
  <1>2. S(a) \in Server /\ D(a) \in Db
    BY Places
  <1>3. old \in Database
    <2>1. PastSetDb(act[a])
      BY <1>1, Places DEF Sound, Stands, Statement, PastSetDb
    <2>2. old # NoDb
      BY <2>1, Places DEF Sound, Rooted, S, D
    <2> QED
      BY <1>2, <2>2 DEF IInv, TypeOK
  <1>4. d \in Database /\ d.marked = old.marked
    BY <1>3 DEF Database
  <1>5. x \in Activity
    BY <1>1, NextStatement DEF Statement
  <1>6. x.sawUser \in BOOLEAN /\ x = [Advanced(a) EXCEPT !.sawUser = x.sawUser]
    BY <1>5 DEF Activity
  <1>7. old # NoDb
    BY <1>3
  <1> HIDE DEF d, x
  <1>8. ServersTyped' /\ Grows
    BY <1>1, <1>2, <1>4, <1>7, DatabaseChanges
  <1> QED
    BY <1>1, <1>6, <1>8, AdvancingKeeps, ExecutedKeeps

LEMMA RestoreKeeps ==
    ASSUME IInv, NEW a \in Actor, Restore(a)
    PROVE  IInv'
  <1> DEFINE old == dbs[S(a)][D(a)]
             d == [old EXCEPT !.filled = TRUE]
  <1>1. /\ act[a].at = "restore" /\ Goes(a, GivesUp(a))
        /\ UNCHANGED <<role, access, skewed, faults, outside>>
        /\ dbs' = [dbs EXCEPT ![S(a)][D(a)] = d] \/ UNCHANGED dbs
    BY DEF Restore, At
  <1>2. S(a) \in Server /\ D(a) \in Db
    BY Places
  <1>3. old # NoDb /\ old \in Database
    <2>1. PastSetDb(act[a])
      BY <1>1, Places DEF Sound, Stands, Statement, PastSetDb
    <2>2. old # NoDb
      BY <2>1, Places DEF Sound, Rooted, S, D
    <2> QED
      BY <1>2, <2>2 DEF IInv, TypeOK
  <1>4. d \in Database /\ d.marked = old.marked
    BY <1>3 DEF Database
  <1> HIDE DEF d
  <1>5. ServersTyped' /\ Grows
    <2>1. CASE UNCHANGED dbs
      BY <1>1, <2>1, SameServers DEF servers
    <2>2. CASE dbs' = [dbs EXCEPT ![S(a)][D(a)] = d]
      BY <1>1, <1>2, <1>3, <1>4, <2>2, DatabaseChanges
    <2> QED
      BY <1>1, <2>1, <2>2
  <1> QED
    BY <1>1, <1>5, GivesUpKeeps, FaultsTyped

\* A statement that sets the database, as its guard lets it.
LEMMA LeavesKeeps ==
    ASSUME IInv, NEW a \in Actor, NEW d \in Database, act[a].at = "setDb",
           Leaves(a, d), KindOf(act[a].entry) = "mongodb" => d.marked,
           ~ act[a].sawDb /\ (KindOf(act[a].entry) = "mariadb" => rotations = 0)
               => dbs[S(a)][D(a)] = NoDb
    PROVE  IInv'
  <1> DEFINE e == act[a].entry
             u == dbs[S(a)][D(a)] = NoDb
             x == [Advanced(a) EXCEPT !.made = u]
  <1>1. /\ dbs' = [dbs EXCEPT ![S(a)][D(a)] = d] /\ UNCHANGED <<role, access, skewed>>
        /\ Executed(a, x)
    BY DEF Leaves
  <1>2. /\ S(a) \in Server /\ D(a) \in Db /\ S(a) = Host[e] /\ D(a) = DbOf[e]
        /\ e \in Entry
    BY Places DEF S, D
  <1>3. ServersTyped' /\ Grows /\ dbs'[S(a)][D(a)] = d /\ d # NoDb
    <2>1. Kind[S(a)] = "mongodb" => d.marked
      BY <1>2 DEF KindOf
    <2>2. /\ S(a) \in Server /\ D(a) \in Db
          /\ dbs' = [dbs EXCEPT ![S(a)][D(a)] = d] /\ UNCHANGED <<role, access, skewed>>
      BY <1>1, <1>2
    <2>3. ServersTyped' /\ Grows /\ dbs'[S(a)][D(a)] = d
      BY <2>1, <2>2, DatabaseChanges
    <2> QED
      BY <2>3
  <1>4. act[a].at \in Statement \ {"restore", "refresh"}
    BY DEF Statement
  <1>5. /\ x.entry = e /\ x.at = Following(e, "setDb") /\ x.sawDb = act[a].sawDb
        /\ x.made = u
        /\ x \in Activity /\ Stands(x) /\ Host[x.entry] \notin DryRun
    BY <1>4, NextStatement DEF Activity, Stands
  <1> HIDE DEF x
  <1>6. Rooted(x, dbs', rotations)
    <2>1. CASE KindOf(e) = "postgres"
      BY <1>2, <1>3, <1>5, <2>1, PostgresOrder DEF Rooted, PastSetDb
    <2>2. CASE KindOf(e) = "mariadb"
      BY <1>2, <1>3, <1>5, <2>2, MariaOrder DEF Rooted, PastSetDb
    <2>3. CASE KindOf(e) = "mongodb"
      BY <1>2, <1>3, <1>5, <2>3, MongoOrder DEF Rooted, PastSetDb
    <2> QED
      BY <1>2, <2>1, <2>2, <2>3, KindsOfEntries
  <1>7. Sound(x, dbs', rotations)
    BY <1>5, <1>6 DEF Sound
  <1> QED
    BY <1>1, <1>3, <1>7, ExecutedKeeps

LEMMA SetPostgreSQLDbKeeps ==
    ASSUME IInv, NEW a \in Actor, SetPostgreSQLDb(a)
    PROVE  IInv'
  <1> DEFINE e == act[a].entry
             old == dbs[S(a)][D(a)]
             d == [old EXCEPT !.owner = U(a)]
             x == [act[a] EXCEPT !.at = "refresh"]
  <1>1. act[a].at = "setDb" /\ KindOf(e) = "postgres"
    BY DEF SetPostgreSQLDb, At, S, KindOf
  <1>2. /\ S(a) \in Server /\ D(a) \in Db /\ U(a) \in User
        /\ e \in Entry /\ Sound(act[a], dbs, rotations)
        /\ act[a] \in Activity /\ act[a].sawDb \in BOOLEAN
        /\ old \in Database \cup {NoDb}
    BY Places DEF IInv, TypeOK, Activity
  <1>3. CASE Refused(a)
    BY <1>1, <1>3, RefusedKeeps
  <1>4. CASE act[a].sawDb /\ old # NoDb /\ Leaves(a, d)
    <2>1. d \in Database
      BY <1>2, <1>4 DEF Database
    <2> HIDE DEF d
    <2> QED
      BY <1>1, <1>4, <2>1, LeavesKeeps
  <1>5. CASE ~ act[a].sawDb /\ old = NoDb /\ Leaves(a, New(U(a), FALSE))
    <2>1. New(U(a), FALSE) \in Database
      BY <1>2 DEF New, Database
    <2> QED
      BY <1>1, <1>5, <2>1, LeavesKeeps
  <1>6. CASE Goes(a, x) /\ UNCHANGED <<servers, faults, outside>>
    <2>1. /\ x \in Activity /\ x.entry = e /\ x.at = "refresh"
      BY <1>2 DEF Activity, Statement
    <2> HIDE DEF x
    <2>2. Sound(x, dbs', rotations)
      BY <1>1, <1>2, <2>1 DEF Sound, Stands, Statement, Rooted, PastSetDb
    <2> QED
      BY <1>1, <1>6, <2>2, StepKeeps, SameServers, FaultsTyped
  <1>7. \/ Refused(a)
        \/ act[a].sawDb /\ old # NoDb /\ Leaves(a, d)
        \/ ~ act[a].sawDb /\ old = NoDb /\ Leaves(a, New(U(a), FALSE))
        \/ Goes(a, x) /\ UNCHANGED <<servers, faults, outside>>
    <2>1. CASE act[a].sawDb = (old = NoDb)
      BY <2>1 DEF SetPostgreSQLDb
    <2>2. CASE act[a].sawDb # (old = NoDb)
      <3>1. act[a].sawDb <=> old # NoDb
        BY <1>2, <2>2
      <3> QED
        BY <2>2, <3>1 DEF SetPostgreSQLDb
    <2> QED
      BY <2>1, <2>2
  <1> QED
    BY <1>3, <1>4, <1>5, <1>6, <1>7

LEMMA RefreshTemplateKeeps ==
    ASSUME IInv, NEW a \in Actor, RefreshTemplate(a)
    PROVE  IInv'
  <1> DEFINE e == act[a].entry
             x == [act[a] EXCEPT !.at = "setDb"]
  <1>1. /\ act[a].at = "refresh" /\ Executed(a, x)
        /\ skewed' = skewed \ {S(a)} /\ UNCHANGED <<role, dbs, access>>
    BY DEF RefreshTemplate, At
  <1>2. e \in Entry /\ Sound(act[a], dbs, rotations) /\ act[a] \in Activity
    BY Places
  <1>3. KindOf(e) = "postgres"
    BY <1>1, <1>2 DEF Sound, Stands, Statement
  <1>4. x \in Activity /\ x.entry = e /\ x.at = "setDb"
    BY <1>2 DEF Activity, Statement
  <1> HIDE DEF x
  <1>5. Sound(x, dbs', rotations)
    BY <1>1, <1>2, <1>3, <1>4 DEF Sound, Stands, Statement, Rooted, PastSetDb
  <1>6. ServersTyped' /\ Grows
    BY <1>1 DEF IInv, TypeOK, ServersTyped, Grows
  <1> QED
    BY <1>1, <1>5, <1>6, ExecutedKeeps

LEMMA SetMariaDbKeeps ==
    ASSUME IInv, NEW a \in Actor, SetMariaDb(a)
    PROVE  IInv'
  <1> DEFINE e == act[a].entry
             old == dbs[S(a)][D(a)]
             d == IF old = NoDb THEN New(NoUser, FALSE) ELSE old
  <1>1. act[a].at = "setDb" /\ KindOf(e) = "mariadb" /\ Leaves(a, d)
    BY DEF SetMariaDb, At, S, KindOf
  <1>2. old \in Database \cup {NoDb} /\ Rooted(act[a], dbs, rotations)
    BY Places DEF IInv, TypeOK, Sound
  <1>3. d \in Database
    <2>1. New(NoUser, FALSE) \in Database
      BY DEF New, Database
    <2> QED
      BY <1>2, <2>1
  <1>4. ~ act[a].sawDb /\ rotations = 0 => old = NoDb
    BY <1>1, <1>2 DEF Rooted, S, D
  <1> HIDE DEF d
  <1> QED
    BY <1>1, <1>3, <1>4, LeavesKeeps

LEMMA SetMongoDbKeeps ==
    ASSUME IInv, NEW a \in Actor, SetMongoDb(a)
    PROVE  IInv'
  <1> DEFINE e == act[a].entry
             old == dbs[S(a)][D(a)]
             d == [old EXCEPT !.marked = TRUE]
  <1>1. act[a].at = "setDb" /\ KindOf(e) = "mongodb"
    BY DEF SetMongoDb, At, S, KindOf
  <1>2. old \in Database \cup {NoDb} /\ Rooted(act[a], dbs, rotations)
    BY Places DEF IInv, TypeOK, Sound
  <1>3. ~ act[a].sawDb => old = NoDb \/ old.marked
    BY <1>1, <1>2 DEF Rooted, S, D
  <1>4. CASE old = NoDb /\ Leaves(a, New(NoUser, TRUE))
    <2>1. New(NoUser, TRUE) \in Database /\ New(NoUser, TRUE).marked
      BY DEF New, Database
    <2> QED
      BY <1>1, <1>4, <2>1, LeavesKeeps
  <1>5. CASE Refused(a)
    BY <1>1, <1>5, RefusedKeeps
  <1>6. CASE old # NoDb /\ ~ old.marked /\ Leaves(a, d)
    <2>1. d \in Database /\ d.marked
      BY <1>2, <1>6 DEF Database
    <2> HIDE DEF d
    <2> QED
      BY <1>1, <1>3, <1>6, <2>1, LeavesKeeps
  <1> QED
    BY <1>4, <1>5, <1>6 DEF SetMongoDb

LEMMA FileTyped ==
    ASSUME IInv
    PROVE  InFile \in [Entry -> Password] /\ NothingLoaded \in [Entry -> Password]
  <1>1. 0 \in Password
    BY DEF Password
  <1> QED
    BY <1>1 DEF IInv, TypeOK, InFile, NothingLoaded

LEMMA LoadConfigKeeps ==
    ASSUME IInv, LoadConfig
    PROVE  IInv'
  <1> DEFINE x == Visit(1, InFile[1])
  <1>1. /\ cfg' = InFile /\ changed' = FALSE /\ act' = [act EXCEPT !["loop"] = x]
        /\ UNCHANGED <<role, dbs, access, skewed, config, faults, edits, rotations>>
    BY DEF LoadConfig, Goes, servers
  <1>2. InFile \in [Entry -> Password] /\ 1 \in Entry
    BY FileTyped DEF Entry
  <1>3. Sound(x, dbs, rotations)
    BY <1>2, VisitsAreSound
  <1> HIDE DEF x
  <1>4. /\ act' \in [Actor -> Activity] /\ act'["loop"] = x
        /\ act'["rotator"] = act["rotator"]
    BY <1>1, <1>3 DEF IInv, TypeOK, Actor, Sound
  <1>5. TypeOK'
    BY <1>1, <1>2, <1>3, <1>4 DEF IInv, TypeOK, Actor, Sound
  <1> QED
    BY <1>1, <1>3, <1>4, <1>5 DEF IInv, Actor, Sound

LEMMA NextPasswordTyped ==
    ASSUME IInv, edits < MaxEdits \/ rotations < MaxRotations
    PROVE  NextPassword \in Password
  <1>1. MaxEdits \in Nat /\ MaxRotations \in Nat /\ edits \in 0..MaxEdits
        /\ rotations \in 0..MaxRotations
    BY DEF IInv, TypeOK
  <1> QED
    BY <1>1 DEF NextPassword, Password

LEMMA RotateSecretKeeps ==
    ASSUME IInv, RotateSecret
    PROVE  IInv'
  <1>1. PICK e \in InSecret :
            /\ config' = [config EXCEPT ![e] = NextPassword]
            /\ act' = [act EXCEPT !["rotator"] = Visit(e, 0)]
    BY DEF RotateSecret, Goes
  <1> DEFINE x == Visit(e, 0)
  <1>2. /\ rotations < MaxRotations /\ rotations' = rotations + 1
        /\ UNCHANGED <<role, dbs, access, skewed, changed, cfg, faults, edits>>
    BY DEF RotateSecret, servers
  <1>3. e \in Entry /\ 0 \in Password /\ NextPassword \in Password
    BY <1>2, NextPasswordTyped DEF Password
  <1>4. Sound(x, dbs, rotations')
    BY <1>3, VisitsAreSound
  <1>5. rotations' \in 1..MaxRotations
    BY <1>2 DEF IInv, TypeOK
  <1> HIDE DEF x
  <1>6. /\ act' \in [Actor -> Activity] /\ act'["rotator"] = x
        /\ act'["loop"] = act["loop"]
    BY <1>1, <1>4 DEF IInv, TypeOK, Actor, Sound, x
  <1>7. TypeOK'
    <2>1. config' \in [Entry -> Password]
      BY <1>1, <1>3 DEF IInv, TypeOK
    <2> QED
      BY <1>2, <1>4, <1>5, <1>6, <2>1 DEF IInv, TypeOK, Actor, Sound
  <1>8. Rooted(act["loop"], dbs, rotations')
    <2>1. Rooted(act["loop"], dbs, rotations) /\ rotations' # 0
      BY <1>5 DEF IInv, Actor
    <2> QED
      BY <2>1, KindsOfEntries DEF Rooted
  <1> QED
    BY <1>2, <1>4, <1>5, <1>6, <1>7, <1>8 DEF IInv, Actor, Sound

LEMMA EditPasswordKeeps ==
    ASSUME IInv, EditPassword
    PROVE  IInv'
  <1>1. PICK e \in Entry : config' = [config EXCEPT ![e] = NextPassword]
    BY DEF EditPassword
  <1>2. /\ edits < MaxEdits /\ edits' = edits + 1 /\ changed' = TRUE
        /\ UNCHANGED <<role, dbs, access, skewed, cfg, act, faults, rotations>>
    BY DEF EditPassword, servers
  <1>3. NextPassword \in Password
    BY <1>2, NextPasswordTyped
  <1>4. config' \in [Entry -> Password] /\ edits' \in 0..MaxEdits
    BY <1>1, <1>2, <1>3 DEF IInv, TypeOK
  <1> QED
    BY <1>2, <1>4 DEF IInv, TypeOK

LEMMA CrashAndRestartKeeps ==
    ASSUME IInv, CrashAndRestart
    PROVE  IInv'
  <1>1. /\ faults < MaxFaults /\ faults' = faults + 1 /\ changed' = TRUE
        /\ act' = [a \in Actor |-> Resting] /\ cfg' = NothingLoaded
        /\ UNCHANGED <<role, dbs, access, skewed, config, edits, rotations>>
    BY DEF CrashAndRestart, servers
  <1>2. Sound(Resting, dbs, rotations) /\ Resting.at = "idle"
    <2>1. 1 \in Entry /\ 0 \in Password
      BY DEF Entry, Password
    <2> QED
      BY <2>1, VisitsAreSound DEF Resting, Visit
  <1>3. faults' \in 0..MaxFaults /\ NothingLoaded \in [Entry -> Password]
    BY <1>1, FileTyped DEF IInv, TypeOK
  <1>4. TypeOK'
    BY <1>1, <1>2, <1>3 DEF IInv, TypeOK, Sound
  <1> QED
    BY <1>1, <1>2, <1>4 DEF IInv, Actor, Sound

LEMMA InitIsSound ==
    ASSUME Init
    PROVE  IInv
  <1>1. Sound(Resting, dbs, rotations) /\ Resting.at = "idle"
    <2>1. 1 \in Entry /\ 0 \in Password
      BY DEF Entry, Password
    <2> QED
      BY <2>1, VisitsAreSound DEF Resting, Visit
  <1>2. config \in [Entry -> Password] /\ cfg \in [Entry -> Password]
    <2>1. 0 \in Password /\ 1 \in Password
      BY DEF Password
    <2> QED
      BY <2>1 DEF Init, NothingLoaded
  <1>3. ServersTyped
    <2>1. 0 \in Password /\ New(NoUser, FALSE) \in Database
      BY DEF Password, New, Database
    <2> DEFINE d == [New(NoUser, FALSE) EXCEPT !.made = FALSE]
    <2> HIDE DEF d
    <2>2. PICK old \in Standing :
            /\ role = [s \in Server |-> [u \in User |->
                   IF \E e \in old : Host[e] = s /\ UserOf[e] = u THEN 0 ELSE NoRole]]
            /\ dbs = [s \in Server |-> [n \in Db |->
                   IF \E e \in old : Host[e] = s /\ DbOf[e] = n THEN d ELSE NoDb]]
      BY DEF Init, d
    <2>3. d \in Database
      BY <2>1 DEF d, Database
    <2>4. access = [s \in Server |-> {}] /\ skewed \subseteq Server
      BY DEF Init
    <2> QED
      BY <2>1, <2>2, <2>3, <2>4 DEF ServersTyped
  <1>4. /\ act \in [Actor -> Activity]
        /\ \A a \in Actor : act[a] = Resting /\ act[a].at \notin Statement
    BY <1>1 DEF Init, Sound, Statement
  <1>5. faults \in 0..MaxFaults /\ edits \in 0..MaxEdits /\ rotations \in 0..MaxRotations
    BY DEF Init
  <1>6. TypeOK
    BY <1>2, <1>3, <1>4, <1>5 DEF Init, TypeOK, ServersTyped
  <1> QED
    BY <1>1, <1>4, <1>6 DEF IInv, Actor, Sound

-----------------------------------------------------------------------------
(***************************************************************************)
(* The theorems                                                            *)
(***************************************************************************)
LEMMA PassKeeps ==
    ASSUME IInv, NEW a \in Actor, Pass(a)
    PROVE  IInv'
  BY SkipDryRunKeeps, BeginKeeps, ConnectFailsKeeps, FailsKeeps, CheckUserKeeps,
     CheckDbKeeps, DropUserKeeps, SetUserKeeps, SetPostgreSQLDbKeeps,
     RefreshTemplateKeeps, SetMariaDbKeeps, SetMongoDbKeeps, GrantKeeps,
     ExtendKeeps, RestoreKeeps DEF Pass

\* What every actor did and saw agrees with the databases that are there, for
\* any servers, entries and passes of provisionPostgreSQL, provisionMariaDB and
\* provisionMongoDB.
THEOREM ActorsStayRooted == Spec => []IInv
  <1>1. Init => IInv
    BY InitIsSound
  <1>2. IInv /\ [Next]_vars => IInv'
    <2> SUFFICES ASSUME IInv, [Next]_vars
                 PROVE  IInv'
      OBVIOUS
    <2>1. CASE LoadConfig
      BY <2>1, LoadConfigKeeps
    <2>2. CASE \E a \in Actor : Pass(a)
      BY <2>2, PassKeeps
    <2>3. CASE RotateSecret
      BY <2>3, RotateSecretKeeps
    <2>4. CASE EditPassword
      BY <2>4, EditPasswordKeeps
    <2>5. CASE CrashAndRestart
      BY <2>5, CrashAndRestartKeeps
    <2>6. CASE UNCHANGED vars
      BY <2>6 DEF vars, IInv, TypeOK
    <2> QED
      BY <2>1, <2>2, <2>3, <2>4, <2>5, <2>6 DEF Next
  <1> QED
    BY <1>1, <1>2, PTL DEF Spec

\* Every variable has its type, and no actor executes a statement on a dry-run
\* server.
THEOREM TypeCorrect == Spec => []TypeOK
  <1>1. IInv => TypeOK
    BY DEF IInv
  <1> QED
    BY <1>1, ActorsStayRooted, PTL

\* A backup is only loaded into a database that the very same visit created,
\* whatever came between its statements: with two processConfig passes at work,
\* failed statements, crashes and databases that were there before.
THEOREM OnlyOwnCreationsAreRestored == Spec => []RestoresOwnCreation
  <1>1. IInv => RestoresOwnCreation
    <2> SUFFICES ASSUME IInv, NEW a \in Actor, Loads(a),
                        Kind[S(a)] = "mariadb" => rotations = 0
                 PROVE  act[a].made
      BY DEF RestoresOwnCreation
    <2>1. act[a].at = "restore" /\ ~ act[a].sawDb
      BY DEF Loads, At
    <2>2. PastSetDb(act[a]) /\ Rooted(act[a], dbs, rotations)
      BY <2>1, Places DEF Sound, Stands, Statement, PastSetDb
    <2> QED
      BY <2>1, <2>2 DEF Rooted, S, KindOf
  <1> QED
    BY <1>1, ActorsStayRooted, PTL

=============================================================================
