---------------------------- MODULE SecretsProofs ----------------------------
(***************************************************************************)
(* Theorems about Secrets: types, the connection strings, and who writes a *)
(* password into a Secret, for any entries, names, rotations and faults.   *)
(***************************************************************************)
EXTENDS Secrets, TLAPS

\* What an actor holds: the name of a Secret that is still its entry's, or, when
\* the password is being moved there, nobody's; and a copy that fits its step.
Names(a, x) ==
    /\ a # "mover" => x.row.secret \in {NoName, config[x.entry].secret}
    /\ a = "mover" /\ x.at # "idle" =>
          ~ Claimed(x.row.secret) /\ config[x.entry].secret = NoName
    /\ x.at \in Step \ {"idle", "alter", "done"} => x.row.secret # NoName

Copies(x) ==
    /\ x.at \in {"get", "rget", "create", "rcreate"} => x.copy = NoSecret
    /\ x.at = "rupdate" => Managed(x.copy)
    /\ x.at = "backfill" =>
          Managed(x.copy) /\ x.pw = x.copy.pw /\ x.entry \in Wants

Steps(a, x) ==
    /\ a = "loop" => x.at \in {"idle", "get", "create", "backfill", "alter"}
    /\ a = "mover" => x.at \in {"idle", "get", "create", "backfill", "write"}
    /\ a \in Rotation => x.at # "write"

Ready(a, x) == x \in Activity /\ Names(a, x) /\ Copies(x) /\ Steps(a, x)

ActInv == act \in [Actor -> Activity] /\ \A a \in Actor : Ready(a, act[a])

\* The names in the file are never shared, and never change once given.
FileInv ==
    /\ config \in [Entry -> Row] /\ cfg \in [Entry -> Row] /\ changed \in BOOLEAN
    /\ \A i \in Entry : cfg[i].secret \in {NoName, config[i].secret}
    /\ \A i, j \in Entry :
          config[i].secret = config[j].secret => i = j \/ config[i].secret = NoName

\* A string may be out of date only in the Secret of an entry that wants none.
StringInv ==
    \A n \in Name :
       /\ Managed(store[n]) /\ store[n].conn # 0
       /\ \A i \in Entry : config[i].secret = n => i \in Wants
       => store[n].conn = store[n].pw

StoreInv == store \in [Name -> Secret \cup {NoSecret}] /\ StringInv

CountInv ==
    /\ version \in Nat
    /\ role \in [Entry -> Password]
    /\ issued \in 0..MaxPasswords
    /\ edits \in 0..MaxEdits /\ faults \in 0..MaxFaults
    /\ kubectl \in 0..MaxKubectl /\ crashes \in 0..MaxCrashes

IInv == ActInv /\ FileInv /\ StoreInv /\ CountInv

-----------------------------------------------------------------------------
(***************************************************************************)
(* Actors                                                                  *)
(***************************************************************************)
\* An entry is begun with its row as it is, or was before it had a Secret.
LEMMA BeginIsReady ==
    ASSUME NEW a \in Actor \ {"mover"}, NEW i \in Entry, NEW row \in Row,
           row.secret \in {NoName, config[i].secret}
    PROVE  Ready(a, Begin(i, row))
BY EntriesAssumption, NamesAssumption
   DEF Ready, Names, Copies, Steps, Begin, Actor, Activity, Step, Row

\* Leaving an entry, by giving it up or by finishing it, leaves one ready.
LEMMA LeaveIsReady ==
    ASSUME NEW a \in Actor, IInv
    PROVE  Ready(a, Leave(a))
<1> DEFINE x == act[a]
<1>1. CASE a = "loop" /\ x.entry < NEntries
    <2>1. x.entry \in Entry /\ x.entry + 1 \in Entry
        BY <1>1, EntriesAssumption DEF IInv, ActInv, Activity, Entry
    <2>2. /\ cfg[x.entry + 1] \in Row
          /\ cfg[x.entry + 1].secret \in {NoName, config[x.entry + 1].secret}
        BY <2>1 DEF IInv, FileInv
    <2>3. Ready(a, Begin(x.entry + 1, cfg[x.entry + 1]))
        BY <1>1, <2>1, <2>2, BeginIsReady
    <2> QED BY <1>1, <2>3 DEF Leave
<1>2. CASE ~ (a = "loop" /\ x.entry < NEntries)
    <2>1. 1 \in Entry /\ config[1] \in Row
        BY EntriesAssumption DEF Entry, IInv, FileInv
    <2>2. Leave(a) = [Begin(1, config[1]) EXCEPT
                        !.at = IF a \in Rotation THEN "done" ELSE "idle"]
        BY <1>2 DEF Leave
    <2>3. 0 \in Nat /\ config[1].password \in Password
        BY <2>1 DEF Row
    <2> QED BY <2>1, <2>2, <2>3, NamesAssumption
            DEF Ready, Names, Copies, Steps, Begin, Actor, Activity, Step
<1> QED BY <1>1, <1>2

\* One actor goes on, the others stay, and the names in the file with them.
LEMMA OneGoesOn ==
    ASSUME IInv, NEW a \in Actor, NEW x, Ready(a, x),
           act' = [act EXCEPT ![a] = x],
           \A i \in Entry : config'[i].secret = config[i].secret
    PROVE  ActInv'
<1>1. x \in Activity /\ x.entry \in Entry
    BY DEF Ready, Activity
<1>2. act' \in [Actor -> Activity]
    BY <1>1 DEF IInv, ActInv
<1>3. ASSUME NEW b \in Actor PROVE Ready(b, act'[b]) /\ act'[b].entry \in Entry
    BY <1>1 DEF IInv, ActInv, Activity, Ready
<1>4. ASSUME NEW n PROVE Claimed(n)' <=> Claimed(n)
    BY DEF Claimed
<1> QED BY <1>2, <1>3, <1>4 DEF ActInv, Ready, Names, Copies, Steps

\* The same, when the actor reports a failure.
LEMMA FailureIsReady ==
    ASSUME IInv, NEW a \in Actor, Fails(a),
           \A i \in Entry : config'[i].secret = config[i].secret
    PROVE  ActInv' /\ faults' \in 0..MaxFaults
<1>1. ActInv'
    BY LeaveIsReady, OneGoesOn DEF Fails
<1>2. faults' \in 0..MaxFaults
    BY BoundsAssumption DEF Fails, IInv, CountInv
<1> QED BY <1>1, <1>2

\* With the password known, an actor is ready for what comes next.
LEMMA AppliedIsReady ==
    ASSUME NEW a \in Actor, NEW x, Ready(a, x), x.at \in {"get", "create", "backfill"}
    PROVE  Ready(a, Applied(a, x))
BY NamesAssumption DEF Ready, Names, Copies, Steps, Applied, Actor, Activity, Step

-----------------------------------------------------------------------------
(***************************************************************************)
(* Calls of the API server                                                 *)
(***************************************************************************)
LEMMA FreshFacts ==
    ASSUME IInv, issued < MaxPasswords
    PROVE  Fresh \in Password /\ Fresh \in 0..MaxPasswords
BY BoundsAssumption DEF IInv, CountInv, Fresh, Password

\* What a read finds is a Secret.
LEMMA ReadFacts ==
    ASSUME IInv, NEW a \in Actor, act[a].row.secret # NoName
    PROVE  /\ act[a].row.secret \in Name
           /\ store[act[a].row.secret] \in Secret \cup {NoSecret}
BY DEF IInv, ActInv, StoreInv, Activity, Row

LEMMA GetPreserves ==
    ASSUME IInv, NEW a \in Actor, Get(a)
    PROVE  IInv'
<1> DEFINE x == act[a]
           s == store[x.row.secret]
<1>0. /\ x.at = "get" /\ Ready(a, x) /\ x.copy = NoSecret /\ x.row.secret # NoName
      /\ s \in Secret \cup {NoSecret}
    BY ReadFacts, NamesAssumption
       DEF Get, IInv, ActInv, Ready, Copies, Names, Step
<1>1. StoreInv' /\ UNCHANGED file /\ UNCHANGED <<version, role, edits, kubectl, crashes>>
    BY DEF Get, IInv, StoreInv, StringInv, file, others
<1>2. FileInv'
    BY <1>1 DEF IInv, FileInv, file
<1>3. \A i \in Entry : config'[i].secret = config[i].secret
    BY <1>1 DEF file
<1>4. ASSUME NEW y, Ready(a, y), GoesOn(a, y) PROVE ActInv' /\ faults' \in 0..MaxFaults
    <2>1. ActInv'
        BY <1>3, <1>4, OneGoesOn DEF GoesOn
    <2> QED BY <2>1, <1>4 DEF GoesOn, IInv, CountInv
<1>5. ASSUME NEW p \in Password
      PROVE  Ready(a, [x EXCEPT !.at = "create", !.pw = p])
    BY <1>0, NamesAssumption DEF Ready, Names, Copies, Steps, Actor, Activity, Step
<1>6. x.row.password \in Password /\ (s # NoSecret => s.pw \in Password)
    BY <1>0 DEF Ready, Activity, Row, Secret
<1>7. CASE s = NoSecret /\ x.row.password # 0
             /\ GoesOn(a, [x EXCEPT !.at = "create", !.pw = x.row.password])
             /\ UNCHANGED issued
    <2>1. ActInv' /\ faults' \in 0..MaxFaults
        BY <1>4, <1>5, <1>6, <1>7
    <2> QED BY <2>1, <1>1, <1>2, <1>7 DEF IInv, CountInv
<1>8. CASE s = NoSecret /\ issued < MaxPasswords /\ issued' = Fresh
             /\ GoesOn(a, [x EXCEPT !.at = "create", !.pw = Fresh])
    <2>1. ActInv' /\ faults' \in 0..MaxFaults
        BY <1>4, <1>5, <1>8, FreshFacts
    <2> QED BY <2>1, <1>1, <1>2, <1>8, FreshFacts DEF IInv, CountInv
<1>9. CASE Mine(s) /\ x.entry \in Wants /\ s.conn = 0 /\ UNCHANGED issued
             /\ GoesOn(a, [x EXCEPT !.at = "backfill", !.copy = s, !.pw = s.pw])
    <2>1. Ready(a, [x EXCEPT !.at = "backfill", !.copy = s, !.pw = s.pw])
        BY <1>0, <1>6, <1>9, NamesAssumption
           DEF Ready, Names, Copies, Steps, Actor, Activity, Step, Mine, Managed
    <2>2. ActInv' /\ faults' \in 0..MaxFaults
        BY <1>4, <1>9, <2>1
    <2> QED BY <2>2, <1>1, <1>2, <1>9 DEF IInv, CountInv
<1>10. CASE Mine(s) /\ GoesOn(a, Applied(a, [x EXCEPT !.pw = s.pw])) /\ UNCHANGED issued
    <2>1. Ready(a, [x EXCEPT !.pw = s.pw]) /\ [x EXCEPT !.pw = s.pw].at = "get"
        BY <1>0, <1>6, <1>10
           DEF Ready, Names, Copies, Steps, Activity, Mine, Managed
    <2>2. ActInv' /\ faults' \in 0..MaxFaults
        BY <1>4, <1>10, <2>1, AppliedIsReady
    <2> QED BY <2>2, <1>1, <1>2, <1>10 DEF IInv, CountInv
<1>11. CASE GoesOn(a, Leave(a)) /\ UNCHANGED issued
    <2>1. ActInv' /\ faults' \in 0..MaxFaults
        BY <1>4, <1>11, LeaveIsReady
    <2> QED BY <2>1, <1>1, <1>2, <1>11 DEF IInv, CountInv
<1>12. CASE Fails(a) /\ UNCHANGED issued
    <2>1. ActInv' /\ faults' \in 0..MaxFaults
        BY <1>3, <1>12, FailureIsReady
    <2> QED BY <2>1, <1>1, <1>2, <1>12 DEF IInv, CountInv
<1> QED BY <1>7, <1>8, <1>9, <1>10, <1>11, <1>12 DEF Get

\* A write that is taken: the string belongs to the password, unless the entry
\* wants none.
LEMMA ContentFacts ==
    ASSUME IInv, NEW a \in Actor,
           act[a].at \in {"create", "backfill", "rcreate", "rupdate"}
    PROVE  /\ Content(a) \in Secret /\ Managed(Content(a))
           /\ \/ Content(a).conn \in {0, Content(a).pw}
              \/ act[a].entry \notin Wants /\ config[act[a].entry].secret = act[a].row.secret
<1> DEFINE x == act[a]
<1>1. /\ x \in Activity /\ Names(a, x) /\ Copies(x) /\ Steps(a, x)
      /\ version \in Nat
    BY DEF IInv, ActInv, Ready, CountInv
<1>2. Content(a) \in Secret
    BY <1>1, BoundsAssumption DEF Content, Secret, Activity, Password
<1>3. Managed(Content(a))
    BY <1>2, NoSecretAssumption DEF Content, Managed
<1>4. CASE x.at \in {"create", "rcreate", "backfill"}
    BY <1>1, <1>2, <1>3, <1>4 DEF Content, Copies
<1>5. CASE x.at = "rupdate"
    <2>1. a # "mover" /\ x.row.secret # NoName
        BY <1>1, <1>5 DEF Steps, Names, Step
    <2> QED BY <1>1, <1>2, <1>3, <1>5, <2>1 DEF Content, Names
<1> QED BY <1>4, <1>5

LEMMA WritePreserves ==
    ASSUME IInv, NEW a \in Actor, NEW y, Write(a, y), Ready(a, y),
           act[a].at \in {"create", "backfill", "rcreate", "rupdate"}
    PROVE  IInv'
<1> DEFINE n == act[a].row.secret
<1>1. UNCHANGED file /\ UNCHANGED <<role, issued, edits, kubectl, crashes>>
    BY DEF Write, file, others
<1>2. FileInv' /\ \A i \in Entry : config'[i].secret = config[i].secret
    BY <1>1 DEF IInv, FileInv, file
<1>3. n # NoName /\ n \in Name
    BY ReadFacts DEF IInv, ActInv, Ready, Names, Step
<1>4. ActInv' /\ faults' \in 0..MaxFaults
    <2>1. CASE GoesOn(a, y)
        BY <2>1, <1>2, OneGoesOn DEF GoesOn, IInv, CountInv
    <2>2. CASE GoesOn(a, Leave(a))
        BY <2>2, <1>2, OneGoesOn, LeaveIsReady DEF GoesOn, IInv, CountInv
    <2>3. CASE Fails(a)
        BY <2>3, <1>2, FailureIsReady
    <2> QED BY <2>1, <2>2, <2>3 DEF Write
<1>5. StoreInv' /\ version' \in Nat
    <2>1. CASE UNCHANGED <<store, version>>
        BY <2>1, <1>1 DEF IInv, StoreInv, StringInv, CountInv, file
    <2>2. CASE store' = [store EXCEPT ![n] = Content(a)] /\ version' = version + 1
        <3>1. store' \in [Name -> Secret \cup {NoSecret}]
            BY <2>2, ContentFacts DEF IInv, StoreInv
        <3>2. ASSUME NEW m \in Name, Managed(store'[m]), store'[m].conn # 0,
                     \A i \in Entry : config'[i].secret = m => i \in Wants
              PROVE  store'[m].conn = store'[m].pw
            <4>1. CASE m # n
                BY <2>2, <3>2, <4>1, <1>1 DEF IInv, StoreInv, StringInv, file
            <4>2. CASE m = n
                <5>1. store'[m] = Content(a)
                    BY <2>2, <4>2 DEF IInv, StoreInv
                <5>2. act[a].entry \in Entry
                    BY DEF IInv, ActInv, Activity
                <5> QED BY <3>2, <4>2, <5>1, <5>2, <1>2, ContentFacts
            <4> QED BY <4>1, <4>2
        <3> QED BY <2>2, <3>1, <3>2 DEF StoreInv, StringInv, IInv, CountInv
    <2> QED BY <2>1, <2>2 DEF Write
<1> QED BY <1>1, <1>2, <1>4, <1>5 DEF IInv, CountInv

LEMMA CreatePreserves ==
    ASSUME IInv, NEW a \in Actor, Create(a)
    PROVE  IInv'
<1>1. Ready(a, Applied(a, act[a]))
    BY AppliedIsReady DEF Create, IInv, ActInv
<1> QED BY <1>1, WritePreserves DEF Create

LEMMA AlterPreserves ==
    ASSUME IInv, NEW a \in Actor, Alter(a)
    PROVE  IInv'
<1>1. /\ UNCHANGED file /\ UNCHANGED <<store, version, issued, edits, kubectl, crashes>>
      /\ \A i \in Entry : config'[i].secret = config[i].secret
    BY DEF Alter, file, others
<1>2. FileInv' /\ StoreInv'
    BY <1>1 DEF IInv, FileInv, StoreInv, StringInv, file
<1>3. role' \in [Entry -> Password]
    BY DEF Alter, IInv, ActInv, CountInv, Activity
<1>4. ActInv' /\ faults' \in 0..MaxFaults
    BY <1>1, LeaveIsReady, OneGoesOn, FailureIsReady DEF Alter, GoesOn, IInv, CountInv
<1> QED BY <1>1, <1>2, <1>3, <1>4 DEF IInv, CountInv

-----------------------------------------------------------------------------
(***************************************************************************)
(* The loop, rotations and moves                                           *)
(***************************************************************************)
LEMMA LoadConfigPreserves ==
    ASSUME IInv, LoadConfig
    PROVE  IInv'
<1>1. 1 \in Entry /\ config[1] \in Row /\ "loop" \in Actor \ {"mover"}
    BY EntriesAssumption DEF Entry, IInv, FileInv, Actor
<1>2. Ready("loop", Begin(1, config[1]))
    BY <1>1, BeginIsReady
<1>3. ActInv'
    BY <1>1, <1>2, OneGoesOn DEF LoadConfig
<1>4. FileInv' /\ StoreInv'
    BY DEF LoadConfig, IInv, FileInv, StoreInv, StringInv
<1> QED BY <1>3, <1>4 DEF LoadConfig, others, IInv, CountInv

LEMMA StartRotationPreserves ==
    ASSUME IInv, NEW r \in Rotation, NEW i \in Entry, StartRotation(r, i)
    PROVE  IInv'
<1> DEFINE x == Begin(i, config[i])
           y == [x EXCEPT !.at = "rget", !.pw = Fresh]
<1>1. r \in Actor \ {"mover"} /\ r # "loop" /\ config[i] \in Row
    BY NamesAssumption DEF Actor, IInv, FileInv
<1>2. Ready(r, x) /\ x.copy = NoSecret /\ x.row = config[i]
    BY <1>1, BeginIsReady DEF Begin
<1>3. Ready(r, y)
    BY <1>1, <1>2, FreshFacts DEF StartRotation, Ready, Names, Copies, Steps, Activity, Step
<1>4. ActInv'
    BY <1>1, <1>3, OneGoesOn DEF StartRotation, file
<1>5. FileInv' /\ StoreInv'
    BY DEF StartRotation, IInv, FileInv, StoreInv, StringInv, file
<1> QED BY <1>4, <1>5, FreshFacts DEF StartRotation, others, IInv, CountInv

LEMMA ReadForRotationPreserves ==
    ASSUME IInv, NEW r \in Rotation, ReadForRotation(r)
    PROVE  IInv'
<1> DEFINE x == act[r]
           s == store[x.row.secret]
<1>1. /\ r \in Actor \ {"mover"} /\ r # "loop" /\ x.at = "rget" /\ Ready(r, x)
      /\ x.row.secret # NoName
    BY NamesAssumption DEF ReadForRotation, Actor, IInv, ActInv, Ready, Names, Step
<1>2. s \in Secret \cup {NoSecret}
    BY <1>1, ReadFacts
<1>3. /\ UNCHANGED file /\ UNCHANGED <<store, version, role, issued, edits, kubectl, crashes>>
      /\ \A i \in Entry : config'[i].secret = config[i].secret
    BY DEF ReadForRotation, file, others
<1>4. FileInv' /\ StoreInv'
    BY <1>3 DEF IInv, FileInv, StoreInv, StringInv, file
<1>5. Ready(r, [x EXCEPT !.at = "rcreate"])
    BY <1>1 DEF Ready, Names, Copies, Steps, Activity, Step
<1>6. Mine(s) => Ready(r, [x EXCEPT !.at = "rupdate", !.copy = s])
    BY <1>1, <1>2 DEF Ready, Names, Copies, Steps, Activity, Step, Mine
<1>7. ActInv' /\ faults' \in 0..MaxFaults
    <2>1. CASE GoesOn(r, [x EXCEPT !.at = "rcreate"])
        BY <2>1, <1>1, <1>3, <1>5, OneGoesOn DEF GoesOn, IInv, CountInv
    <2>2. CASE Mine(s) /\ GoesOn(r, [x EXCEPT !.at = "rupdate", !.copy = s])
        BY <2>2, <1>1, <1>3, <1>6, OneGoesOn DEF GoesOn, IInv, CountInv
    <2>3. CASE GoesOn(r, Leave(r))
        BY <2>3, <1>1, <1>3, LeaveIsReady, OneGoesOn DEF GoesOn, IInv, CountInv
    <2>4. CASE Fails(r)
        BY <2>4, <1>1, <1>3, FailureIsReady
    <2> QED BY <2>1, <2>2, <2>3, <2>4 DEF ReadForRotation
<1> QED BY <1>3, <1>4, <1>7 DEF IInv, CountInv

LEMMA WriteRotationPreserves ==
    ASSUME IInv, NEW r \in Rotation, WriteRotation(r)
    PROVE  IInv'
<1>1. /\ r \in Actor \ {"mover"} /\ Ready(r, act[r])
      /\ act[r].at \in {"rcreate", "rupdate"}
    BY NamesAssumption DEF WriteRotation, Actor, IInv, ActInv
<1>2. /\ act[r].entry \in Entry /\ act[r].row \in Row
      /\ act[r].row.secret \in {NoName, config[act[r].entry].secret}
    BY <1>1 DEF Ready, Activity, Names
<1>3. Ready(r, Begin(act[r].entry, act[r].row))
    BY <1>1, <1>2, BeginIsReady
<1> QED BY <1>1, <1>3, WritePreserves DEF WriteRotation

LEMMA StartMovePreserves ==
    ASSUME IInv, NEW i \in Entry, NEW n \in Name, StartMove(i, n)
    PROVE  IInv'
<1> DEFINE row == [config[i] EXCEPT !.secret = n]
<1>1. /\ "mover" \in Actor /\ config[i] \in Row /\ row \in Row /\ row.secret = n
      /\ n # NoName
    BY NamesAssumption DEF Actor, IInv, FileInv, Row
<1>2. Ready("mover", Begin(i, row))
    BY <1>1, NamesAssumption
       DEF StartMove, Ready, Names, Copies, Steps, Begin, Activity, Step, Row
<1>3. ActInv'
    BY <1>1, <1>2, OneGoesOn DEF StartMove, file
<1>4. FileInv' /\ StoreInv'
    BY DEF StartMove, IInv, FileInv, StoreInv, StringInv, file
<1> QED BY <1>3, <1>4 DEF StartMove, others, IInv, CountInv

\* The one step that gives an entry a name: nobody had it, and the mover is done
\* with it.
LEMMA WriteConfigPreserves ==
    ASSUME IInv, WriteConfig
    PROVE  IInv'
<1> DEFINE x == act["mover"]
           n == x.row.secret
<1>1. /\ "mover" \in Actor /\ Ready("mover", x) /\ x.at = "write"
      /\ x.entry \in Entry /\ x.row \in Row
    BY DEF WriteConfig, Actor, IInv, ActInv, Ready, Activity
<1>2. /\ n \in Name /\ n # NoName /\ config[x.entry].secret = NoName
      /\ \A i \in Entry : config[i].secret # n
    BY <1>1 DEF Ready, Names, Claimed, Step, Row
<1>3. UNCHANGED <<cfg, store, version, role, issued, edits, kubectl, crashes>>
    BY DEF WriteConfig, others
<1>4. CASE Fails("mover") /\ UNCHANGED <<config, changed>>
    <2>1. FileInv' /\ StoreInv'
        BY <1>3, <1>4 DEF IInv, FileInv, StoreInv, StringInv
    <2>2. ActInv' /\ faults' \in 0..MaxFaults
        BY <1>1, <1>4, FailureIsReady
    <2> QED BY <1>3, <2>1, <2>2 DEF IInv, CountInv
<1>5. CASE /\ config' = [config EXCEPT ![x.entry] = [x.row EXCEPT !.password = 0]]
           /\ changed' = TRUE /\ GoesOn("mover", Leave("mover"))
    <2>1. config' \in [Entry -> Row]
        BY <1>1, <1>5, BoundsAssumption DEF IInv, FileInv, Row, Password
    <2>2. \A i \in Entry :
             config'[i].secret = IF i = x.entry THEN n ELSE config[i].secret
        BY <1>1, <1>5 DEF IInv, FileInv, Row
    <2>3. FileInv'
        BY <1>2, <1>3, <1>5, <2>1, <2>2 DEF IInv, FileInv
    <2>4. ASSUME NEW m \in Name, \A i \in Entry : config'[i].secret = m => i \in Wants
          PROVE  \A i \in Entry : config[i].secret = m => i \in Wants
        BY <1>2, <2>2, <2>4, NamesAssumption
    <2>5. StoreInv'
        BY <1>3, <2>4 DEF IInv, StoreInv, StringInv
    <2>6. /\ act' \in [Actor -> Activity] /\ act'["mover"].at = "idle"
          /\ Ready("mover", Leave("mover"))
          /\ act' = [act EXCEPT !["mover"] = Leave("mover")]
        <3>1. Leave("mover").at = "idle" /\ Ready("mover", Leave("mover"))
            BY <1>1, LeaveIsReady, NamesAssumption DEF Leave, Begin
        <3> QED BY <1>1, <1>5, <3>1 DEF GoesOn, Ready, IInv, ActInv
    <2>7. ASSUME NEW a \in Actor \ {"mover"}
          PROVE  act'[a] = act[a] /\ Ready(a, act[a]) /\ act[a].entry \in Entry
        BY <2>6 DEF IInv, ActInv, Activity
    <2>8. ASSUME NEW a \in Actor PROVE Ready(a, act[a])'
        <3>1. CASE a = "mover"
            BY <3>1, <2>6 DEF Ready, Names, Copies, Steps, Step
        <3>2. CASE a # "mover"
            BY <3>2, <2>7, <2>2, <1>2 DEF Ready, Names, Copies, Steps
        <3> QED BY <3>1, <3>2
    <2> QED BY <1>3, <1>5, <2>3, <2>5, <2>6, <2>8 DEF GoesOn, IInv, ActInv, CountInv
<1> QED BY <1>4, <1>5 DEF WriteConfig

-----------------------------------------------------------------------------
(***************************************************************************)
(* The operator, other users of the namespace, crashes                     *)
(***************************************************************************)
LEMMA SetPasswordPreserves ==
    ASSUME IInv, NEW i \in Entry, SetPassword(i)
    PROVE  IInv'
<1>1. config' \in [Entry -> Row] /\ \A j \in Entry : config'[j].secret = config[j].secret
    BY FreshFacts DEF SetPassword, IInv, FileInv, Row
<1>2. FileInv' /\ StoreInv'
    BY <1>1 DEF SetPassword, IInv, FileInv, StoreInv, StringInv
<1>3. ActInv'
    <2>1. ASSUME NEW a \in Actor PROVE act[a].entry \in Entry /\ Ready(a, act[a])
        BY DEF IInv, ActInv, Activity
    <2>2. ASSUME NEW n PROVE Claimed(n)' <=> Claimed(n)
        BY <1>1 DEF Claimed
    <2> QED BY <1>1, <2>1, <2>2 DEF SetPassword, IInv, ActInv, Ready, Names, Copies, Steps
<1>4. edits' \in 0..MaxEdits
    BY BoundsAssumption DEF SetPassword, IInv, CountInv
<1> QED BY <1>2, <1>3, <1>4, FreshFacts DEF SetPassword, IInv, CountInv

LEMMA KubectlPreserves ==
    ASSUME IInv, NEW n \in Name, Kubectl(n)
    PROVE  IInv'
<1>1. UNCHANGED file /\ UNCHANGED <<role, act, issued, edits, faults, crashes>>
    BY DEF Kubectl, file
<1>2. FileInv' /\ ActInv'
    BY <1>1 DEF IInv, FileInv, ActInv, Ready, Names, Copies, Steps, Claimed, file
<1>3. version' \in Nat /\ kubectl' \in 0..MaxKubectl
    BY BoundsAssumption DEF Kubectl, IInv, CountInv
<1>4. [managed |-> FALSE, pw |-> 0, conn |-> 0, version |-> version + 1] \in Secret
    BY BoundsAssumption DEF Secret, Password, IInv, CountInv
<1>5. store' \in [Name -> Secret \cup {NoSecret}]
    BY <1>4 DEF Kubectl, IInv, StoreInv
<1>6. ASSUME NEW m \in Name
      PROVE  store'[m] = store[m] \/ ~ Managed(store'[m])
    BY DEF Kubectl, IInv, StoreInv, Managed
<1>7. StoreInv'
    BY <1>1, <1>5, <1>6 DEF IInv, StoreInv, StringInv, file, Managed
<1> QED BY <1>1, <1>2, <1>3, <1>7 DEF IInv, CountInv

LEMMA CrashPreserves ==
    ASSUME IInv, CrashAndRestart
    PROVE  IInv'
<1>1. /\ UNCHANGED <<config, cfg, store, version, role, issued, edits, faults, kubectl>>
      /\ changed' = TRUE
    BY DEF CrashAndRestart
<1>2. FileInv' /\ StoreInv'
    BY <1>1 DEF IInv, FileInv, StoreInv, StringInv
<1>3. 1 \in Entry /\ config[1] \in Row
    BY EntriesAssumption DEF Entry, IInv, FileInv
<1>4. ASSUME NEW a \in Actor, NEW at \in {"idle", "done"}, at = "done" => a \in Rotation
      PROVE  Ready(a, [Begin(1, config[1]) EXCEPT !.at = at])
    BY <1>3, <1>4, NamesAssumption
       DEF Ready, Names, Copies, Steps, Begin, Actor, Activity, Step, Row
<1>5. ASSUME NEW a \in Actor PROVE act'[a] \in Activity /\ Ready(a, act'[a])
    BY <1>4 DEF CrashAndRestart, Ready
<1>6. act' \in [Actor -> Activity]
    BY <1>5 DEF CrashAndRestart
<1>7. ActInv'
    BY <1>1, <1>5, <1>6 DEF ActInv, Ready, Names, Copies, Steps, Claimed
<1>8. crashes' \in 0..MaxCrashes
    BY BoundsAssumption DEF CrashAndRestart, IInv, CountInv
<1> QED BY <1>1, <1>2, <1>7, <1>8 DEF IInv, CountInv

-----------------------------------------------------------------------------
(***************************************************************************)
(* The theorems                                                            *)
(***************************************************************************)
LEMMA InitHolds == ASSUME Init PROVE IInv
<1>1. \A i \in Entry : i \in Password /\ 0 \in Password /\ i \in 0..MaxPasswords
    BY EntriesAssumption, BoundsAssumption DEF Entry, Password
<1>2. PICK S \in SUBSET Entry : \E old \in SUBSET S, f \in [Entry -> Name] :
          /\ \A i, j \in S : f[i] = f[j] => i = j
          /\ config = [i \in Entry |->
                          IF i \in S THEN [secret |-> f[i], password |-> 0]
                                     ELSE [secret |-> NoName, password |-> i]]
          /\ store = [n \in Name |->
                         IF \E i \in old : f[i] = n
                         THEN [managed |-> TRUE, conn |-> 0, version |-> 0,
                               pw |-> CHOOSE i \in old : f[i] = n]
                         ELSE NoSecret]
          /\ role = [i \in Entry |-> IF i \in old THEN i ELSE 0]
    BY DEF Init
<1>3. PICK old \in SUBSET S, f \in [Entry -> Name] :
          /\ \A i, j \in S : f[i] = f[j] => i = j
          /\ config = [i \in Entry |->
                          IF i \in S THEN [secret |-> f[i], password |-> 0]
                                     ELSE [secret |-> NoName, password |-> i]]
          /\ store = [n \in Name |->
                         IF \E i \in old : f[i] = n
                         THEN [managed |-> TRUE, conn |-> 0, version |-> 0,
                               pw |-> CHOOSE i \in old : f[i] = n]
                         ELSE NoSecret]
          /\ role = [i \in Entry |-> IF i \in old THEN i ELSE 0]
    BY <1>2
<1>4. config \in [Entry -> Row]
    BY <1>1, <1>3 DEF Row
<1>5. \A i, j \in Entry :
          config[i].secret = config[j].secret => i = j \/ config[i].secret = NoName
    BY <1>3, NamesAssumption
<1>6. FileInv
    BY <1>4, <1>5 DEF Init, FileInv
<1>7. ASSUME NEW n \in Name, \E i \in old : f[i] = n
      PROVE  (CHOOSE i \in old : f[i] = n) \in Password
    BY <1>1, <1>7
<1>8. ASSUME NEW n \in Name
      PROVE  store[n] \in Secret \cup {NoSecret} /\ (Managed(store[n]) => store[n].conn = 0)
    <2>1. CASE \E i \in old : f[i] = n
        BY <2>1, <1>3, <1>7, BoundsAssumption DEF Secret, Password
    <2>2. CASE ~ \E i \in old : f[i] = n
        BY <2>2, <1>3 DEF Managed
    <2> QED BY <2>1, <2>2
<1>9. StoreInv
    BY <1>3, <1>8 DEF StoreInv, StringInv
<1>10. 1 \in Entry /\ config[1] \in Row
    BY <1>4, EntriesAssumption DEF Entry
<1>11. ASSUME NEW a \in Actor
       PROVE  Ready(a, [Begin(1, config[1]) EXCEPT !.at = "idle"])
    BY <1>10, NamesAssumption
       DEF Ready, Names, Copies, Steps, Begin, Actor, Activity, Step, Row
<1>12. ActInv
    BY <1>11 DEF Init, ActInv, Ready
<1>13. role \in [Entry -> Password]
    BY <1>1, <1>3
<1>14. CountInv
    BY <1>13, EntriesAssumption, BoundsAssumption DEF Init, CountInv
<1> QED BY <1>6, <1>9, <1>12, <1>14 DEF IInv

LEMMA StepPreserves == ASSUME IInv, [Next]_vars PROVE IInv'
<1>1. CASE Loop
    <2>1. "loop" \in Actor
        BY DEF Actor
    <2> QED BY <1>1, <2>1, LoadConfigPreserves, GetPreserves, CreatePreserves,
               AlterPreserves DEF Loop
<1>2. ASSUME NEW r \in Rotation, Rotator(r) \/ \E i \in Entry : StartRotation(r, i)
      PROVE  IInv'
    <2>1. r \in Actor
        BY DEF Actor
    <2> QED BY <1>2, <2>1, ReadForRotationPreserves, WriteRotationPreserves, GetPreserves,
               CreatePreserves, AlterPreserves, StartRotationPreserves DEF Rotator
<1>3. CASE Mover
    <2>1. "mover" \in Actor
        BY DEF Actor
    <2> QED BY <1>3, <2>1, GetPreserves, CreatePreserves, WriteConfigPreserves DEF Mover
<1>4. CASE \E i \in Entry, n \in Name : StartMove(i, n)
    BY <1>4, StartMovePreserves
<1>5. CASE \E i \in Entry : SetPassword(i)
    BY <1>5, SetPasswordPreserves
<1>6. CASE \E n \in Name : Kubectl(n)
    BY <1>6, KubectlPreserves
<1>7. CASE CrashAndRestart
    BY <1>7, CrashPreserves
<1>8. CASE UNCHANGED vars
    BY <1>8 DEF vars, IInv, ActInv, FileInv, StoreInv, StringInv, CountInv,
                Ready, Names, Copies, Steps, Claimed
<1> QED BY <1>1, <1>2, <1>3, <1>4, <1>5, <1>6, <1>7, <1>8 DEF Next

LEMMA AlwaysIInv == Spec => []IInv
<1>1. Init => IInv
    BY InitHolds
<1>2. IInv /\ [Next]_vars => IInv'
    BY StepPreserves
<1> QED BY <1>1, <1>2, PTL DEF Spec

\* The variables keep their types, whatever fails and for any number of entries,
\* names, rotations and crashes.
THEOREM TypeCorrect == Spec => []TypeOK
<1>1. IInv => TypeOK
    <2> SUFFICES ASSUME IInv PROVE TypeOK
        OBVIOUS
    <2>1. \A a \in Actor : Names(a, act[a]) /\ Steps(a, act[a])
        BY DEF IInv, ActInv, Ready
    <2>2. "loop" \in Actor /\ "mover" \in Actor /\ Rotation \subseteq Actor
        BY DEF Actor
    <2> QED BY <2>1, <2>2 DEF IInv, ActInv, FileInv, StoreInv, CountInv, TypeOK, Names, Steps
<1> QED BY <1>1, AlwaysIInv, PTL

\* An application that reads the connection string always finds the password of
\* the Secret in it: no rotation, backfill or move leaves an older one behind.
THEOREM StringsMatch == Spec => []StringMatches
<1>1. IInv => StringMatches
    <2> SUFFICES ASSUME IInv, NEW i \in Wants, config[i].secret # NoName,
                        Managed(store[config[i].secret]),
                        store[config[i].secret].conn # 0
                 PROVE  store[config[i].secret].conn = store[config[i].secret].pw
        BY DEF StringMatches
    <2>1. i \in Entry /\ config[i].secret \in Name
        BY EntriesAssumption DEF IInv, FileInv, Row
    <2>2. \A j \in Entry : config[j].secret = config[i].secret => j = i
        BY <2>1 DEF IInv, FileInv
    <2> QED BY <2>1, <2>2 DEF IInv, StoreInv, StringInv
<1> QED BY <1>1, AlwaysIInv, PTL

\* What a write does to a Secret that was there.
LEMMA WriteFacts ==
    ASSUME IInv, NEW a \in Actor, NEW y, Write(a, y), NEW n \in Name,
           store'[n] # store[n],
           act[a].at \in {"create", "backfill", "rcreate", "rupdate"}
    PROVE  /\ act[a].row.secret = n
           /\ store[n] = act[a].copy /\ store'[n] = Content(a)
           /\ act[a].at \in {"create", "rcreate"} => store[n] = NoSecret
           /\ act[a].at \in {"backfill", "rupdate"} => Managed(store[n])
           /\ act[a].at = "backfill" => store'[n].pw = store[n].pw
<1>1. Copies(act[a])
    BY DEF IInv, ActInv, Ready
<1>2. /\ Accepted(a) /\ store' = [store EXCEPT ![act[a].row.secret] = Content(a)]
      /\ store \in [Name -> Secret \cup {NoSecret}]
    BY DEF Write, IInv, StoreInv
<1>3. act[a].row.secret = n /\ store[n] = act[a].copy /\ store'[n] = Content(a)
    BY <1>2 DEF Accepted
<1> QED BY <1>1, <1>3 DEF Copies, Content

\* Who changes the Secrets, in any step.
LEMMA Writers ==
    ASSUME IInv, Next, NEW n \in Name, store'[n] # store[n]
    PROVE  \/ Kubectl(n)
           \/ \E a \in Actor : Create(a)
           \/ \E r \in Rotation : WriteRotation(r)
<1>1. CASE Loop
    BY <1>1 DEF Loop, LoadConfig, Get, Alter, Actor
<1>2. CASE \E r \in Rotation : Rotator(r) \/ \E i \in Entry : StartRotation(r, i)
    BY <1>2 DEF Rotator, StartRotation, ReadForRotation, Get, Alter, Actor
<1>3. CASE Mover \/ \E i \in Entry, m \in Name : StartMove(i, m)
    BY <1>3 DEF Mover, StartMove, WriteConfig, Get, Actor
<1>4. CASE (\E i \in Entry : SetPassword(i)) \/ CrashAndRestart
    BY <1>4 DEF SetPassword, CrashAndRestart
<1>5. CASE \E m \in Name : Kubectl(m)
    <2>1. PICK m \in Name : Kubectl(m)
        BY <1>5
    <2>2. m = n
        BY <2>1 DEF Kubectl, IInv, StoreInv
    <2> QED BY <2>1, <2>2
<1> QED BY <1>1, <1>2, <1>3, <1>4, <1>5 DEF Next

\* Only a rotation changes the password of a Secret that stands: what a pass read
\* before it never comes back.
THEOREM PasswordsChangeByRotation == Spec => OnlyRotationsChange
<1> DEFINE A == \A n \in Name :
                   Managed(store[n]) /\ Managed(store'[n]) /\ store'[n].pw # store[n].pw =>
                      \E r \in Rotation :
                         /\ act[r].at = "rupdate" /\ act[r].row.secret = n
                         /\ store'[n].pw = act[r].pw
<1>1. IInv /\ [Next]_vars => [A]_vars
    <2> SUFFICES ASSUME IInv, Next, NEW n \in Name, Managed(store[n]),
                        Managed(store'[n]), store'[n].pw # store[n].pw
                 PROVE  \E r \in Rotation :
                           /\ act[r].at = "rupdate" /\ act[r].row.secret = n
                           /\ store'[n].pw = act[r].pw
        BY Zenon DEF A, vars
    <2>1. CASE Kubectl(n)
        BY <2>1 DEF Kubectl, IInv, StoreInv, Managed
    <2>2. ASSUME NEW a \in Actor, Create(a) PROVE FALSE
        BY <2>2, WriteFacts DEF Create, Managed
    <2>3. ASSUME NEW r \in Rotation, WriteRotation(r)
          PROVE  /\ act[r].at = "rupdate" /\ act[r].row.secret = n
                 /\ store'[n].pw = act[r].pw
        <3>1. r \in Actor
            BY DEF Actor
        <3>2. store'[n] # store[n]
            OBVIOUS
        <3>3. /\ act[r].row.secret = n /\ store'[n] = Content(r)
              /\ act[r].at = "rcreate" => store[n] = NoSecret
            BY <2>3, <3>1, <3>2, WriteFacts DEF WriteRotation
        <3>4. Content(r).pw = act[r].pw
            BY DEF Content
        <3> QED BY <2>3, <3>3, <3>4 DEF WriteRotation, Managed
    <2> QED BY <2>1, <2>2, <2>3, Writers
<1> QED BY <1>1, AlwaysIInv, PTL DEF Spec, OnlyRotationsChange

\* Nobody here writes to a Secret that others created, even when it appeared
\* between the read and the write.
THEOREM OthersAreLeftAlone == Spec => ForeignUntouched
<1> DEFINE A == \A n \in Name :
                   Foreign(store[n]) /\ store'[n] # store[n] => kubectl' # kubectl
<1>1. IInv /\ [Next]_vars => [A]_vars
    <2> SUFFICES ASSUME IInv, Next, NEW n \in Name, Foreign(store[n]),
                        store'[n] # store[n]
                 PROVE  kubectl' # kubectl
        BY Zenon DEF A, vars
    <2>1. CASE Kubectl(n)
        BY <2>1 DEF Kubectl, IInv, CountInv
    <2>2. ASSUME NEW a \in Actor, Create(a) PROVE FALSE
        BY <2>2, WriteFacts DEF Create, Managed, Foreign
    <2>3. ASSUME NEW r \in Rotation, WriteRotation(r) PROVE FALSE
        <3>1. r \in Actor
            BY DEF Actor
        <3> QED BY <2>3, <3>1, WriteFacts DEF WriteRotation, Managed, Foreign
    <2> QED BY <2>1, <2>2, <2>3, Writers
<1> QED BY <1>1, AlwaysIInv, PTL DEF Spec, ForeignUntouched

=============================================================================
