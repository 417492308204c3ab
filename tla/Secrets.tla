------------------------------- MODULE Secrets -------------------------------
(***************************************************************************)
(* Passwords in Kubernetes Secrets.  Three kinds of actors share a Secret: *)
(* the watch loop, which reads or creates it before it sets the role's     *)
(* password; a rotation, whose handler writes a new password into it and   *)
(* whose goroutine then provisions the entry; and the handler that moves a *)
(* password from the file into a Secret.  Everybody else in the namespace  *)
(* may create and delete Secrets.                                          *)
(*                                                                         *)
(* An update carries the version that was read, and the API server refuses *)
(* it when the Secret has changed since.  A password is the number it was  *)
(* generated as.  Entries stay as they are, but for where their password   *)
(* is.                                                                     *)
(***************************************************************************)
EXTENDS Integers, FiniteSets

CONSTANTS
    NEntries,       \* number of database entries, all of them live
    Wants,          \* the entries with requires_connect_string
    Name,           \* names of Secrets
    NoName,         \* the entry's password is in the file
    NoSecret,       \* there is no Secret of that name
    Rotation,       \* the rotations that are ordered, each once
    MaxPasswords,   \* bound: passwords generated or typed
    MaxEdits,       \* bound: passwords typed
    MaxFaults,      \* bound: calls that fail or whose answer is lost
    MaxKubectl,     \* bound: Secrets created or deleted by others
    MaxCrashes      \* bound: crashes

Entry == 1..NEntries
Password == 0..MaxPasswords     \* 0: empty
Actor == {"loop", "mover"} \cup Rotation

ASSUME EntriesAssumption == NEntries \in Nat \ {0} /\ Wants \subseteq Entry
ASSUME BoundsAssumption ==
    /\ MaxPasswords \in Nat /\ NEntries <= MaxPasswords
    /\ {MaxEdits, MaxFaults, MaxKubectl, MaxCrashes} \subseteq Nat
ASSUME NamesAssumption == NoName \notin Name /\ {"loop", "mover"} \cap Rotation = {}

Row == [secret : Name \cup {NoName}, password : Password]
\* conn is the password in the connection string, 0 when there is no such key.
Secret == [managed : BOOLEAN, pw : Password, conn : Password, version : Nat]
ASSUME NoSecretAssumption == NoSecret \notin Secret

Step == {"idle", "get", "create", "backfill", "alter", "write",
         "rget", "rcreate", "rupdate", "done"}
Activity == [at : Step, entry : Entry, row : Row,
             copy : Secret \cup {NoSecret}, pw : Password]

VARIABLES
    config,     \* the rows in the file
    changed,    \* the file's mtime is after lastModTime
    cfg,        \* the rows that the watch loop has loaded
    store,      \* the Secrets in the namespace
    version,    \* how many writes the API server has seen
    role,       \* the password of each entry's role, 0 when there is no role
    act,        \* what each actor is doing
    issued,     \* how many passwords there have been
    edits, faults, kubectl, crashes

vars == <<config, changed, cfg, store, version, role, act, issued,
          edits, faults, kubectl, crashes>>
file == <<config, changed, cfg>>
others == <<edits, kubectl, crashes>>

Managed(s) == s # NoSecret /\ s.managed
Foreign(s) == s # NoSecret /\ ~ s.managed

TypeOK ==
    /\ config \in [Entry -> Row] /\ cfg \in [Entry -> Row]
    /\ changed \in BOOLEAN
    /\ store \in [Name -> Secret \cup {NoSecret}]
    /\ version \in Nat
    /\ role \in [Entry -> Password]
    /\ act \in [Actor -> Activity]
    /\ act["loop"].at \in {"idle", "get", "create", "backfill", "alter"}
    /\ act["mover"].at \in {"idle", "get", "create", "backfill", "write"}
    /\ \A r \in Rotation : act[r].at # "write"
    /\ \A a \in Actor :
          act[a].at \in Step \ {"idle", "alter", "done"} => act[a].row.secret # NoName
    /\ issued \in 0..MaxPasswords
    /\ edits \in 0..MaxEdits /\ faults \in 0..MaxFaults
    /\ kubectl \in 0..MaxKubectl /\ crashes \in 0..MaxCrashes

-----------------------------------------------------------------------------
(***************************************************************************)
(* Actors                                                                  *)
(***************************************************************************)
\* configMu: the mover holds it while it talks to the API server.
Unlocked == act["mover"].at = "idle"

Fresh == issued + 1

\* applyK8sPassword: an entry without a Secret has its password in the row.
Begin(i, row) ==
    [at |-> IF row.secret = NoName THEN "alter" ELSE "get", entry |-> i,
     row |-> row, copy |-> NoSecret, pw |-> row.password]

\* Whoever is done with an entry, or gives it up.
Leave(a) ==
    IF a = "loop" /\ act[a].entry < NEntries
    THEN Begin(act[a].entry + 1, cfg[act[a].entry + 1])
    ELSE [Begin(1, config[1]) EXCEPT
            !.at = IF a \in Rotation THEN "done" ELSE "idle"]

\* Mutant: moving a password into a Secret provisions the role.
Applied_Provisions(a, x) == [x EXCEPT !.at = "alter", !.copy = NoSecret]

\* With the password known: provision the role, or write the file.
Applied(a, x) ==
    [x EXCEPT !.at = IF a = "mover" THEN "write" ELSE "alter", !.copy = NoSecret]

\* The actor a goes on as x.
GoesOn(a, x) ==
    /\ act' = [act EXCEPT ![a] = x]
    /\ UNCHANGED faults

\* The call of a fails, or it takes it for a failure.
Fails(a) ==
    /\ faults < MaxFaults
    /\ faults' = faults + 1
    /\ act' = [act EXCEPT ![a] = Leave(a)]

\* Some entries are in Secrets; of these the old ones are provisioned, and their
\* Secrets were created before they asked for connection strings.
Init ==
    /\ \E S \in SUBSET Entry : \E old \in SUBSET S, f \in [Entry -> Name] :
          /\ \A i, j \in S : f[i] = f[j] => i = j
          /\ config = [i \in Entry |->
                          IF i \in S THEN [secret |-> f[i], password |-> 0]
                                     ELSE [secret |-> NoName, password |-> i]]
          /\ store = [n \in Name |->
                         IF \E i \in old : f[i] = n
                         THEN [managed |-> TRUE, conn |-> 0, version |-> 0,
                               pw |-> CHOOSE i \in old : f[i] = n]
                         ELSE NoSecret]
          /\ role = [i \in Entry |-> IF i \in old THEN i ELSE 0]
    /\ changed = TRUE
    /\ cfg = config
    /\ version = 0
    /\ act = [a \in Actor |-> [Begin(1, config[1]) EXCEPT !.at = "idle"]]
    /\ issued = NEntries
    /\ edits = 0 /\ faults = 0 /\ kubectl = 0 /\ crashes = 0

-----------------------------------------------------------------------------
(***************************************************************************)
(* reconcilePassword, in whatever actor calls it                           *)
(***************************************************************************)
\* Mutant: a Secret of somebody else is taken for a managed one.
Mine_Any(s) == s # NoSecret

\* managedSecret refuses what this provisioner has not created.
Mine(s) == Managed(s)

\* Read the Secret.  None: seed one from the row, or generate a password.
Get(a) ==
    LET x == act[a]
        s == store[x.row.secret]
    IN /\ x.at = "get"
       /\ \/ /\ s = NoSecret
             /\ x.row.password # 0
             /\ GoesOn(a, [x EXCEPT !.at = "create", !.pw = x.row.password])
             /\ UNCHANGED issued
          \/ /\ s = NoSecret
             /\ x.row.password = 0
             /\ issued < MaxPasswords
             /\ issued' = Fresh
             /\ GoesOn(a, [x EXCEPT !.at = "create", !.pw = Fresh])
          \/ /\ Mine(s)
             /\ x.entry \in Wants /\ s.conn = 0
             /\ GoesOn(a, [x EXCEPT !.at = "backfill", !.copy = s, !.pw = s.pw])
             /\ UNCHANGED issued
          \/ /\ Mine(s)
             /\ ~ (x.entry \in Wants /\ s.conn = 0)
             /\ GoesOn(a, Applied(a, [x EXCEPT !.pw = s.pw]))
             /\ UNCHANGED issued
          \/ /\ s # NoSecret /\ ~ Mine(s)
             /\ GoesOn(a, Leave(a))
             /\ UNCHANGED issued
          \/ Fails(a) /\ UNCHANGED issued
       /\ UNCHANGED <<file, store, version, role, others>>

\* Mutant: a rotation leaves the connection string as it is.
Content_OldString(a) ==
    [managed |-> TRUE, pw |-> act[a].pw, version |-> version + 1,
     conn |-> IF act[a].copy # NoSecret /\ act[a].copy.conn # 0
              THEN act[a].copy.conn
              ELSE IF act[a].entry \in Wants THEN act[a].pw ELSE 0]

\* secretData, over what was read: the password, and the string it belongs to.
Content(a) ==
    [managed |-> TRUE, pw |-> act[a].pw, version |-> version + 1,
     conn |-> IF act[a].entry \in Wants THEN act[a].pw
              ELSE IF act[a].copy = NoSecret THEN 0 ELSE act[a].copy.conn]

\* Mutant: an update does not carry the version that was read.
Accepted_Blind(a) == store[act[a].row.secret] # NoSecret \/ act[a].copy = NoSecret

\* Whether the API server takes the write: a Secret is created where there is
\* none, and updated when it is still what was read.
Accepted(a) == store[act[a].row.secret] = act[a].copy

\* The write is taken or refused, or no answer comes; the actor goes on as x.
Write(a, x) ==
    /\ \/ /\ Accepted(a)
          /\ store' = [store EXCEPT ![act[a].row.secret] = Content(a)]
          /\ version' = version + 1
          /\ GoesOn(a, x) \/ Fails(a)
       \/ /\ UNCHANGED <<store, version>>
          /\ Fails(a) \/ (~ Accepted(a) /\ GoesOn(a, Leave(a)))
    /\ UNCHANGED <<file, role, issued, others>>

\* Create the Secret, or add a connection string to the one that was read.
Create(a) ==
    /\ act[a].at \in {"create", "backfill"}
    /\ Write(a, Applied(a, act[a]))

\* Mutant: the password of a role that exists is left alone.
Alter_OnlyCreates(a) ==
    /\ act[a].at = "alter"
    /\ LET i == act[a].entry
       IN  role' = [role EXCEPT ![i] = IF @ = 0 THEN act[a].pw ELSE @]
    /\ GoesOn(a, Leave(a))
    /\ UNCHANGED <<file, store, version, issued, others>>

\* CREATE USER or ALTER USER with the password; the statement may fail.
Alter(a) ==
    /\ act[a].at = "alter"
    /\ \/ /\ role' = [role EXCEPT ![act[a].entry] = act[a].pw]
          /\ GoesOn(a, Leave(a))
       \/ Fails(a) /\ UNCHANGED role
    /\ UNCHANGED <<file, store, version, issued, others>>

-----------------------------------------------------------------------------
(***************************************************************************)
(* The watch loop                                                          *)
(***************************************************************************)
LoadConfig ==
    /\ act["loop"].at = "idle"
    /\ changed /\ Unlocked
    /\ cfg' = config /\ changed' = FALSE
    /\ act' = [act EXCEPT !["loop"] = Begin(1, config[1])]
    /\ UNCHANGED <<config, store, version, role, issued, faults, others>>

Loop == LoadConfig \/ Get("loop") \/ Create("loop") \/ Alter("loop")

-----------------------------------------------------------------------------
(***************************************************************************)
(* handleRotateSecret and its goroutine                                    *)
(***************************************************************************)
\* Read the row, generate a password.
StartRotation(r, i) ==
    /\ act[r].at = "idle" /\ Unlocked
    /\ config[i].secret # NoName
    /\ issued < MaxPasswords
    /\ issued' = Fresh
    /\ act' = [act EXCEPT ![r] = [Begin(i, config[i]) EXCEPT !.at = "rget", !.pw = Fresh]]
    /\ UNCHANGED <<file, store, version, role, faults, others>>

\* Read the Secret, to create or to update it.
ReadForRotation(r) ==
    LET s == store[act[r].row.secret]
    IN /\ act[r].at = "rget"
       /\ \/ s = NoSecret /\ GoesOn(r, [act[r] EXCEPT !.at = "rcreate"])
          \/ Mine(s) /\ GoesOn(r, [act[r] EXCEPT !.at = "rupdate", !.copy = s])
          \/ s # NoSecret /\ ~ Mine(s) /\ GoesOn(r, Leave(r))
          \/ Fails(r)
       /\ UNCHANGED <<file, store, version, role, issued, others>>

\* Write the password; then the goroutine provisions the row as it was read.
WriteRotation(r) ==
    /\ act[r].at \in {"rcreate", "rupdate"}
    /\ Write(r, Begin(act[r].entry, act[r].row))

Rotator(r) ==
    \/ ReadForRotation(r) \/ WriteRotation(r)
    \/ Get(r) \/ Create(r) \/ Alter(r)

-----------------------------------------------------------------------------
(***************************************************************************)
(* handleMoveToSecret                                                      *)
(***************************************************************************)
\* claimSecretName: no live entry has the name.
Claimed(n) == \E i \in Entry : config[i].secret = n

StartMove(i, n) ==
    /\ act["mover"].at = "idle"
    /\ config[i].secret = NoName
    /\ ~ Claimed(n)
    /\ act' = [act EXCEPT !["mover"] = Begin(i, [config[i] EXCEPT !.secret = n])]
    /\ UNCHANGED <<file, store, version, role, issued, faults, others>>

\* Secret first, config second: the row now names it and has no password.
WriteConfig ==
    LET x == act["mover"] IN
    /\ x.at = "write"
    /\ \/ /\ config' = [config EXCEPT ![x.entry] = [x.row EXCEPT !.password = 0]]
          /\ changed' = TRUE
          /\ GoesOn("mover", Leave("mover"))
       \/ Fails("mover") /\ UNCHANGED <<config, changed>>
    /\ UNCHANGED <<cfg, store, version, role, issued, others>>

Mover == Get("mover") \/ Create("mover") \/ WriteConfig

-----------------------------------------------------------------------------
(***************************************************************************)
(* The operator, other users of the namespace, crashes                     *)
(***************************************************************************)
\* handleUpdatePassword.
SetPassword(i) ==
    /\ Unlocked
    /\ edits < MaxEdits /\ issued < MaxPasswords
    /\ edits' = edits + 1 /\ issued' = Fresh
    /\ config' = [config EXCEPT ![i].password = Fresh]
    /\ changed' = TRUE
    /\ UNCHANGED <<cfg, store, version, role, act, faults, kubectl, crashes>>

\* Somebody deletes a Secret or creates one of his own.
Kubectl(n) ==
    /\ kubectl < MaxKubectl
    /\ kubectl' = kubectl + 1
    /\ store' = [store EXCEPT ![n] =
                    IF @ # NoSecret THEN NoSecret
                    ELSE [managed |-> FALSE, pw |-> 0, conn |-> 0,
                          version |-> version + 1]]
    /\ version' = version + 1
    /\ UNCHANGED <<file, role, act, issued, edits, faults, crashes>>

\* The loop starts with a pass; what the handlers were doing is lost.
CrashAndRestart ==
    /\ crashes < MaxCrashes
    /\ crashes' = crashes + 1
    /\ act' = [a \in Actor |->
                  [Begin(1, config[1]) EXCEPT
                     !.at = IF a \in Rotation /\ act[a].at # "idle" THEN "done"
                            ELSE "idle"]]
    /\ changed' = TRUE
    /\ UNCHANGED <<config, cfg, store, version, role, issued, edits, faults, kubectl>>

Next ==
    \/ Loop
    \/ \E r \in Rotation : Rotator(r) \/ \E i \in Entry : StartRotation(r, i)
    \/ Mover \/ \E i \in Entry, n \in Name : StartMove(i, n)
    \/ \E i \in Entry : SetPassword(i)
    \/ \E n \in Name : Kubectl(n)
    \/ CrashAndRestart

Spec == Init /\ [][Next]_vars

\* Every goroutine that runs gets on.
FairSpec ==
    /\ Spec
    /\ WF_vars(Loop) /\ WF_vars(Mover)
    /\ \A r \in Rotation : WF_vars(Rotator(r))

-----------------------------------------------------------------------------
(***************************************************************************)
(* Properties                                                              *)
(***************************************************************************)
\* secretData and the backfill of reconcilePassword: the connection string in the
\* Secret of an entry that wants one holds the password of that Secret, however
\* rotations, backfills and moves interleave.
StringMatches ==
    \A i \in Wants :
        LET n == config[i].secret IN
        n # NoName /\ Managed(store[n]) /\ store[n].conn # 0
        => store[n].conn = store[n].pw

\* Only rotateSecret changes the password of a Secret that stands, and to the one
\* it generated: a backfill that raced it does not bring the old one back.
OnlyRotationsChange ==
    [][\A n \in Name :
          Managed(store[n]) /\ Managed(store'[n]) /\ store'[n].pw # store[n].pw =>
             \E r \in Rotation :
                /\ act[r].at = "rupdate" /\ act[r].row.secret = n
                /\ store'[n].pw = act[r].pw]_vars

\* managedSecret and createSecret: a Secret that somebody else created is never
\* written to, also when it appears between reading and writing.
ForeignUntouched ==
    [][\A n \in Name :
          Foreign(store[n]) /\ store'[n] # store[n] => kubectl' # kubectl]_vars

InSync(i) ==
    config[i].secret # NoName /\ Managed(store[config[i].secret]) =>
        role[i] = store[config[i].secret].pw

\* Nothing disturbs the actors any more.
Undisturbed ==
    /\ \A r \in Rotation : act[r].at = "done"
    /\ act["mover"].at = "idle"
    /\ (\A i \in Entry : config[i].secret # NoName) \/ (\A n \in Name : Claimed(n))
    /\ faults = MaxFaults /\ kubectl = MaxKubectl

\* runWatchMode: once nothing else happens, a pass over a file that has changed
\* brings every role to the password in its Secret, whatever happened before.
PassPicksUp == changed /\ Undisturbed ~> (\A i \in Entry : InSync(i))

\* "the provisioner picks up the new password on its next reconcile pass": when
\* nothing failed and everybody is at rest, every role has the password of its
\* Secret.
RotatedAtRest ==
    /\ \A a \in Actor : act[a].at \in {"idle", "done"}
    /\ ~ changed /\ faults = 0 /\ kubectl = 0 /\ crashes = 0
    => \A i \in Entry : InSync(i)

=============================================================================
