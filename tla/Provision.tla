------------------------------ MODULE Provision ------------------------------
(***************************************************************************)
(* The provisioning pass of processConfig, statement by statement, on the  *)
(* three kinds of servers.  It runs in the watch loop, over all entries,   *)
(* and in the goroutine of a Secret rotation, over one.  Nothing keeps the *)
(* two apart, what they check may be stale when they act on it, and any    *)
(* statement may fail, or succeed without its answer being heard.          *)
(*                                                                         *)
(* A password is the number it was made as.  Lists of permissions and      *)
(* extensions are one grant and one statement.  All entries are live.      *)
(***************************************************************************)
EXTENDS Integers, SequencesExt

CONSTANTS
    NEntries,       \* number of entries, those of a server one after another
    Server,
    Kind,           \* of each server: "postgres", "mariadb" or "mongodb"
    Host,           \* the server of each entry
    DbOf, UserOf,   \* its database and its user
    WithExtensions, \* the PostgreSQL entries with extensions
    Restores,       \* the entries with restore_on_create
    InSecret,       \* the entries whose password is in a Secret
    DryRun,         \* the servers on which nothing may change
    Faulty,         \* the servers on which anything may fail at any time
    Decodes,        \* the MongoDB driver decodes an array to an []interface{}
    Standing,       \* sets of entries whose databases and users may be there before
    Outdated,       \* the servers whose template1 has an old collation version
    NoRole, NoDb, NoUser,
    MaxFaults,      \* bound: crashes, and statements that fail on the other servers
    MaxEdits, MaxRotations

Entry == 1..NEntries
Db == Range(DbOf)
User == Range(UserOf)
Actor == {"loop", "rotator"}
\* 0 is no password, or that of roles that were there before, 1 the first.
Password == 0..(MaxEdits + MaxRotations + 1)

ASSUME EntriesAssumption ==
    /\ NEntries \in Nat \ {0}
    /\ Host \in [Entry -> Server]
    /\ DOMAIN DbOf = Entry /\ DOMAIN UserOf = Entry
    /\ Kind \in [Server -> {"postgres", "mariadb", "mongodb"}]
    /\ WithExtensions \cup Restores \cup InSecret \subseteq Entry
    /\ DryRun \cup Faulty \cup Outdated \subseteq Server
    /\ Standing \subseteq SUBSET Entry
    /\ Decodes \in BOOLEAN
ASSUME NullsAssumption == NoRole \notin Password /\ NoUser \notin User
ASSUME BoundsAssumption == {MaxFaults, MaxEdits, MaxRotations} \subseteq Nat

Statement == {"checkUser", "setUser", "dropUser", "checkDb", "setDb", "refresh",
              "grant", "extend", "restore"}
Database == [owner : User \cup {NoUser}, extended : BOOLEAN,
             marked : BOOLEAN,      \* it holds the document "provisioned"
             made : BOOLEAN,        \* history: the provisioner created it,
             filled : BOOLEAN]      \* history: and came to its restore
ASSUME NoDbAssumption == NoDb \notin Database

\* sawUser and sawDb are what the checks found; made is history: this visit
\* created the database.
Activity == [at : Statement \cup {"idle", "begin"}, entry : Entry, pw : Password,
             sawUser : BOOLEAN, sawDb : BOOLEAN, made : BOOLEAN]

VARIABLES
    config,     \* the password of each entry, in the file or in its Secret
    changed,    \* the file's mtime is after lastModTime
    cfg,        \* the passwords that the watch loop has loaded
    act,        \* what each actor is doing
    role,       \* the password of each user of each server
    dbs,        \* the databases of each server
    access,     \* which users may use which databases of each server
    skewed,     \* the servers whose template1 still has an old collation version
    faults, edits, rotations

servers == <<role, dbs, access, skewed>>
outside == <<config, changed, cfg, edits, rotations>>
vars == <<config, changed, cfg, act, role, dbs, access, skewed,
          faults, edits, rotations>>

TypeOK ==
    /\ config \in [Entry -> Password] /\ cfg \in [Entry -> Password]
    /\ changed \in BOOLEAN
    /\ act \in [Actor -> Activity]
    /\ role \in [Server -> [User -> Password \cup {NoRole}]]
    /\ dbs \in [Server -> [Db -> Database \cup {NoDb}]]
    /\ access \in [Server -> SUBSET (Db \X User)]
    /\ skewed \subseteq Server
    /\ \A a \in Actor : act[a].at \in Statement => Host[act[a].entry] \notin DryRun
    /\ faults \in 0..MaxFaults /\ edits \in 0..MaxEdits
    /\ rotations \in 0..MaxRotations

-----------------------------------------------------------------------------
(***************************************************************************)
(* Actors: the order of their statements                                   *)
(***************************************************************************)
KindOf(e) == Kind[Host[e]]
At(a, st) == act[a].at = st
S(a) == Host[act[a].entry]
D(a) == DbOf[act[a].entry]
U(a) == UserOf[act[a].entry]

\* provisionPostgreSQL, provisionMariaDB and provisionMongoDB, and the restore.
Script(e) ==
    CASE KindOf(e) = "postgres" ->
            IF e \in WithExtensions
            THEN <<"checkUser", "setUser", "checkDb", "setDb", "grant", "extend", "restore">>
            ELSE <<"checkUser", "setUser", "checkDb", "setDb", "grant", "restore">>
      [] KindOf(e) = "mariadb" ->
            <<"checkDb", "setDb", "checkUser", "setUser", "grant", "restore">>
      [] KindOf(e) = "mongodb" ->
            <<"checkDb", "dropUser", "setUser", "setDb", "restore">>

Following(e, st) ==
    LET script == Script(e)
    IN  script[1 + (CHOOSE i \in DOMAIN script : script[i] = st)]

Visit(e, pw) == [at |-> "begin", entry |-> e, pw |-> pw,
                 sawUser |-> FALSE, sawDb |-> FALSE, made |-> FALSE]
Resting == [Visit(1, 0) EXCEPT !.at = "idle"]

\* What a does after the entry e of its configuration.
After(a, e) ==
    IF a = "rotator" \/ e = NEntries THEN Resting ELSE Visit(e + 1, cfg[e + 1])

\* Mutant: an entry that fails ends the pass.
GivesUp_EndsPass(a) == Resting

\* continue: whoever fails on an entry goes on with the next.
GivesUp(a) == After(a, act[a].entry)

\* The next statement for the entry.
Advanced(a) == [act[a] EXCEPT !.at = Following(act[a].entry, act[a].at)]

Goes(a, x) == act' = [act EXCEPT ![a] = x]
MayFail(a) ==
    IF S(a) \in Faulty THEN UNCHANGED faults
    ELSE faults < MaxFaults /\ faults' = faults + 1

\* A statement was executed: a goes on as x, or takes it for a failure.
Executed(a, x) ==
    /\ \/ Goes(a, x) /\ UNCHANGED faults
       \/ Goes(a, GivesUp(a)) /\ MayFail(a)
    /\ UNCHANGED outside

\* A statement that the server refuses as things are.
Refused(a) ==
    /\ Goes(a, GivesUp(a))
    /\ UNCHANGED <<servers, faults, outside>>

-----------------------------------------------------------------------------
(***************************************************************************)
(* Before the statements                                                   *)
(***************************************************************************)
\* On a dry-run server everything is only logged, but for the checks.
SkipDryRun(a) ==
    /\ At(a, "begin") /\ S(a) \in DryRun
    /\ Goes(a, GivesUp(a))
    /\ UNCHANGED <<servers, faults, outside>>

\* applyK8sPassword: the password of a Secret is read now, another came with the
\* configuration.
Starts(a) ==
    LET e == act[a].entry
    IN  Goes(a, [act[a] EXCEPT !.at = Head(Script(e)),
                               !.pw = IF e \in InSecret THEN config[e] ELSE @])

\* Mutant: the goroutine of a rotation has lost the flag.
Begin_IgnoresDryRun(a) ==
    /\ At(a, "begin")
    /\ Starts(a)
    /\ UNCHANGED <<servers, faults, outside>>

\* Connected, and with the password known.
Begin(a) ==
    /\ At(a, "begin") /\ S(a) \notin DryRun
    /\ Starts(a)
    /\ UNCHANGED <<servers, faults, outside>>

\* connectWithRetry gives up: the entries of the server are passed over.
ConnectFails(a) ==
    /\ At(a, "begin") /\ S(a) \notin DryRun /\ Kind[S(a)] # "mongodb"
    /\ a = "loop" => \A e \in 1..(act[a].entry - 1) : Host[e] # S(a)
    /\ \E last \in Entry :
          /\ Host[last] = S(a) /\ \A e \in Entry : Host[e] = S(a) => e <= last
          /\ Goes(a, After(a, last))
    /\ MayFail(a)
    /\ UNCHANGED <<servers, outside>>

\* The Secret cannot be read, or a statement fails without effect.
Fails(a) ==
    /\ act[a].at \in (Statement \ {"restore"}) \cup {"begin"}
    /\ S(a) \notin DryRun
    /\ Goes(a, GivesUp(a))
    /\ MayFail(a)
    /\ UNCHANGED <<servers, outside>>

-----------------------------------------------------------------------------
(***************************************************************************)
(* The statements                                                          *)
(***************************************************************************)
CheckUser(a) ==
    /\ At(a, "checkUser")
    /\ Executed(a, [Advanced(a) EXCEPT !.sawUser = role[S(a)][U(a)] # NoRole])
    /\ UNCHANGED servers

\* The answer of MongoDB has to decode to the type that is asked for.
CheckDb(a) ==
    /\ At(a, "checkDb")
    /\ IF Kind[S(a)] = "mongodb" /\ ~ Decodes THEN Refused(a)
       ELSE /\ Executed(a, [Advanced(a) EXCEPT !.sawDb = dbs[S(a)][D(a)] # NoDb])
            /\ UNCHANGED servers

\* dropUser, whatever it answers; the user's roles on other databases go too.
DropUser(a) ==
    /\ At(a, "dropUser")
    /\ Goes(a, Advanced(a))
    /\ \/ /\ role' = [role EXCEPT ![S(a)][U(a)] = NoRole]
          /\ access' = [access EXCEPT ![S(a)] = {g \in @ : g[2] # U(a)}]
          /\ UNCHANGED <<dbs, skewed, faults>>
       \/ MayFail(a) /\ UNCHANGED servers
    /\ UNCHANGED outside

Allowed(a) == [access EXCEPT ![S(a)] = @ \cup {<<D(a), U(a)>>}]

\* CREATE USER or ALTER USER, as the check said; createUser with its role.
SetUser(a) ==
    /\ At(a, "setUser")
    /\ LET mongo == Kind[S(a)] = "mongodb"
           creates == mongo \/ ~ act[a].sawUser
       IN  IF creates = (role[S(a)][U(a)] # NoRole)
           THEN Refused(a)
           ELSE /\ role' = [role EXCEPT ![S(a)][U(a)] = act[a].pw]
                /\ access' = IF mongo THEN Allowed(a) ELSE access
                /\ UNCHANGED <<dbs, skewed>>
                /\ Executed(a, [Advanced(a) EXCEPT !.sawUser = FALSE])

\* The statement leaves the database as d.
Leaves(a, d) ==
    /\ dbs' = [dbs EXCEPT ![S(a)][D(a)] = d]
    /\ UNCHANGED <<role, access, skewed>>
    /\ Executed(a, [Advanced(a) EXCEPT !.made = dbs[S(a)][D(a)] = NoDb])

New(owner, marked) ==
    [owner |-> owner, extended |-> FALSE, marked |-> marked,
     made |-> TRUE, filled |-> FALSE]

\* CREATE DATABASE, or ALTER DATABASE OWNER TO; creating needs a template1 whose
\* collation version is up to date.
SetPostgreSQLDb(a) ==
    /\ At(a, "setDb") /\ Kind[S(a)] = "postgres"
    /\ LET old == dbs[S(a)][D(a)]
       IN  IF act[a].sawDb = (old = NoDb) THEN Refused(a)
           ELSE IF act[a].sawDb THEN Leaves(a, [old EXCEPT !.owner = U(a)])
           ELSE IF S(a) \in skewed
           THEN Goes(a, [act[a] EXCEPT !.at = "refresh"])
                /\ UNCHANGED <<servers, faults, outside>>
           ELSE Leaves(a, New(U(a), FALSE))

\* ALTER DATABASE template1 REFRESH COLLATION VERSION, before CREATE DATABASE
\* is tried again.
RefreshTemplate(a) ==
    /\ At(a, "refresh")
    /\ skewed' = skewed \ {S(a)}
    /\ Executed(a, [act[a] EXCEPT !.at = "setDb"])
    /\ UNCHANGED <<role, dbs, access>>

\* CREATE DATABASE IF NOT EXISTS
SetMariaDb(a) ==
    /\ At(a, "setDb") /\ Kind[S(a)] = "mariadb"
    /\ LET old == dbs[S(a)][D(a)]
       IN  Leaves(a, IF old = NoDb THEN New(NoUser, FALSE) ELSE old)

\* Mutant: a duplicate key counts as "already exists".
SetMongoDb_TakesDuplicate(a) ==
    /\ At(a, "setDb") /\ Kind[S(a)] = "mongodb"
    /\ LET old == dbs[S(a)][D(a)]
       IN  Leaves(a, IF old = NoDb THEN New(NoUser, TRUE) ELSE [old EXCEPT !.marked = TRUE])

\* The document "provisioned" is inserted, and the database made by it; a
\* second one is a duplicate key, which is no "already exists" and fails.
SetMongoDb(a) ==
    /\ At(a, "setDb") /\ Kind[S(a)] = "mongodb"
    /\ LET old == dbs[S(a)][D(a)]
       IN  IF old = NoDb THEN Leaves(a, New(NoUser, TRUE))
           ELSE IF old.marked THEN Refused(a)
           ELSE Leaves(a, [old EXCEPT !.marked = TRUE])

\* GRANT, with FLUSH PRIVILEGES for MariaDB.
Grant(a) ==
    /\ At(a, "grant")
    /\ access' = Allowed(a)
    /\ UNCHANGED <<role, dbs, skewed>>
    /\ Executed(a, Advanced(a))

\* CREATE EXTENSION IF NOT EXISTS, over a connection to the database.
Extend(a) ==
    /\ At(a, "extend")
    /\ dbs' = [dbs EXCEPT ![S(a)][D(a)].extended = TRUE]
    /\ UNCHANGED <<role, access, skewed>>
    /\ Executed(a, Advanced(a))

\* A backup is looked for and loaded if the database was created; how it went is
\* only logged.
Loads(a) == At(a, "restore") /\ ~ act[a].sawDb /\ act[a].entry \in Restores
Restore(a) ==
    /\ At(a, "restore")
    /\ dbs' = IF Loads(a) THEN [dbs EXCEPT ![S(a)][D(a)].filled = TRUE] ELSE dbs
    /\ Goes(a, GivesUp(a))
    /\ UNCHANGED <<role, access, skewed, faults, outside>>

-----------------------------------------------------------------------------
(***************************************************************************)
(* The watch loop, rotations, edits and crashes                            *)
(***************************************************************************)
NothingLoaded == [e \in Entry |-> 0]
\* A password in a Secret is not in the file.
InFile == [e \in Entry |-> IF e \in InSecret THEN 0 ELSE config[e]]

LoadConfig ==
    /\ act["loop"].at = "idle" /\ changed
    /\ changed' = FALSE
    /\ cfg' = InFile
    /\ Goes("loop", Visit(1, InFile[1]))
    /\ UNCHANGED <<servers, config, faults, edits, rotations>>

\* The next password that is typed or generated.
NextPassword == edits + rotations + 2

\* handleRotateSecret: the Secret has a new password, and a goroutine provisions
\* the one entry.  The file does not change.
RotateSecret ==
    /\ act["rotator"].at = "idle" /\ rotations < MaxRotations
    /\ rotations' = rotations + 1
    /\ \E e \in InSecret :
          /\ config' = [config EXCEPT ![e] = NextPassword]
          /\ Goes("rotator", Visit(e, 0))
    /\ UNCHANGED <<servers, changed, cfg, faults, edits>>

\* A password is typed, in the UI or the file.
EditPassword ==
    /\ edits < MaxEdits
    /\ edits' = edits + 1
    /\ \E e \in Entry \ InSecret : config' = [config EXCEPT ![e] = NextPassword]
    /\ changed' = TRUE
    /\ UNCHANGED <<servers, cfg, act, faults, rotations>>

\* The new process has seen no mtime and has loaded nothing.
CrashAndRestart ==
    /\ faults < MaxFaults
    /\ faults' = faults + 1
    /\ act' = [a \in Actor |-> Resting]
    /\ changed' = TRUE
    /\ cfg' = NothingLoaded
    /\ UNCHANGED <<servers, config, edits, rotations>>

-----------------------------------------------------------------------------
Init ==
    /\ config = [e \in Entry |-> 1] /\ cfg = NothingLoaded
    /\ changed = TRUE
    /\ act = [a \in Actor |-> Resting]
    /\ \E old \in Standing :
          /\ role = [s \in Server |-> [u \in User |->
                 IF \E e \in old : Host[e] = s /\ UserOf[e] = u THEN 0 ELSE NoRole]]
          /\ dbs = [s \in Server |-> [d \in Db |->
                 IF \E e \in old : Host[e] = s /\ DbOf[e] = d
                 THEN [New(NoUser, FALSE) EXCEPT !.made = FALSE] ELSE NoDb]]
    /\ access = [s \in Server |-> {}]
    /\ skewed = Outdated
    /\ faults = 0 /\ edits = 0 /\ rotations = 0

Pass(a) ==
    \/ SkipDryRun(a) \/ Begin(a) \/ ConnectFails(a) \/ Fails(a)
    \/ CheckUser(a) \/ CheckDb(a) \/ DropUser(a) \/ SetUser(a)
    \/ SetPostgreSQLDb(a) \/ RefreshTemplate(a) \/ SetMariaDb(a) \/ SetMongoDb(a)
    \/ Grant(a) \/ Extend(a) \/ Restore(a)

Next ==
    \/ LoadConfig
    \/ \E a \in Actor : Pass(a)
    \/ RotateSecret
    \/ EditPassword
    \/ CrashAndRestart

Spec == Init /\ [][Next]_vars

\* The watch loop and the goroutine go on: every statement answers or fails.
FairSpec == Spec /\ WF_vars(LoadConfig \/ Pass("loop")) /\ WF_vars(Pass("rotator"))

-----------------------------------------------------------------------------
(***************************************************************************)
(* Properties                                                              *)
(***************************************************************************)
\* What the entry asks for is there.
Provisioned(e) ==
    LET s == Host[e] IN
    /\ role[s][UserOf[e]] = config[e]
    /\ <<DbOf[e], UserOf[e]>> \in access[s]
    /\ dbs[s][DbOf[e]] # NoDb
    /\ Kind[s] = "postgres" => dbs[s][DbOf[e]].owner = UserOf[e]
    /\ e \in WithExtensions => dbs[s][DbOf[e]].extended

\* A pass that begins when rotations are done and its servers answer brings
\* every entry to what the file asks and to its Secret's password, from wherever
\* failed statements, crashes and earlier passes left it, and however often
\* other servers fail.  It is claimed for entries that do not share a user
\* (dropUser takes the roles of another entry with it).
Converges ==
    \A e \in Entry : Host[e] \notin DryRun \cup Faulty /\ (KindOf(e) = "mongodb" => Decodes) =>
        (changed /\ act["rotator"].at = "idle"
         /\ rotations = MaxRotations /\ faults = MaxFaults)
        ~> Provisioned(e)

\* A backup is only loaded into a database that this very visit has created, so
\* never over what somebody else put there, although the check and the creation
\* are two statements and another pass may come between.  CREATE DATABASE IF
\* NOT EXISTS does not tell, so for MariaDB this needs that nothing is rotated.
RestoresOwnCreation ==
    \A a \in Actor :
        Loads(a) /\ (Kind[S(a)] = "mariadb" => rotations = 0) => act[a].made

\* "the provisioner will automatically restore the newest available backup into
\* a database the first time it is created" (README.md:649): at rest, every
\* database that the provisioner created for such an entry has come to its
\* restore.
RestoredWhenCreated ==
    (~ changed /\ \A a \in Actor : act[a].at = "idle") =>
        \A e \in Restores :
            LET d == dbs[Host[e]][DbOf[e]]
            IN  d # NoDb => (d.made => d.filled)

=============================================================================
