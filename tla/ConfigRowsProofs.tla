--------------------------- MODULE ConfigRowsProofs ---------------------------
(***************************************************************************)
(* Theorems about ConfigRows, for any clients, files, names and bounds.    *)
(***************************************************************************)
EXTENDS ConfigRowsLemmas

-----------------------------------------------------------------------------
(***************************************************************************)
(* The lock                                                                *)
(***************************************************************************)

\* What the proofs need of the types: functions of the writers.
Fields ==
    /\ at \in [Writer -> {"idle", "sent", "inside"}]
    /\ byHand \in [Writer -> BOOLEAN]
    /\ DOMAIN copy = Writer /\ copy = [w \in DOMAIN copy |-> copy[w]]

\* One writer at a time is past the lock.
Mutex == \A v, w \in Writer : at[v] = "inside" /\ at[w] = "inside" => v = w

\* What it has read is still the file, unless the file was edited by hand.
Fresh == \A w \in Writer : at[w] = "inside" => byHand[w] \/ copy[w] = file

LockInv == Fields /\ Mutex /\ Fresh

-----------------------------------------------------------------------------
\* A request changes nothing past the lock.
LEMMA SendsKeeps ==
    ASSUME LockInv, NEW w \in Writer, NEW q, Sends(w, q)
    PROVE  LockInv'
  <1>1. /\ at[w] = "idle" /\ at' = [at EXCEPT ![w] = "sent"]
        /\ UNCHANGED <<file, copy, byHand>>
    BY DEF Sends
  <1>2. Fields'
    BY <1>1 DEF LockInv, Fields
  <1>3. \A v \in Writer : at'[v] = "inside" => at[v] = "inside"
    BY <1>1 DEF LockInv, Fields
  <1> QED
    BY <1>1, <1>2, <1>3 DEF LockInv, Mutex, Fresh

\* A writer that leaves, alone past the lock or still before it.
LEMMA LeavesKeeps ==
    ASSUME LockInv, NEW w \in Writer, Leaves(w),
           at[w] = "inside" \/ UNCHANGED file
    PROVE  LockInv'
  <1>1. Fields'
    BY DEF LockInv, Fields, Leaves
  <1>2. \A v \in Writer : at'[v] = "inside" => v # w /\ at[v] = "inside"
    BY DEF LockInv, Fields, Leaves
  <1>3. Mutex'
    BY <1>2 DEF LockInv, Mutex
  <1>4. \A v \in Writer : v # w => copy'[v] = copy[v] /\ byHand'[v] = byHand[v]
    BY DEF LockInv, Fields, Leaves
  <1>5. Fresh'
    <2> SUFFICES ASSUME NEW v \in Writer, at'[v] = "inside"
                 PROVE  byHand'[v] \/ copy'[v] = file'
      BY DEF Fresh
    <2>1. at[w] # "inside"
      BY <1>2 DEF LockInv, Mutex
    <2> QED
      BY <2>1, <1>2, <1>4 DEF LockInv, Fresh
  <1> QED
    BY <1>1, <1>3, <1>5 DEF LockInv

\* A writer enters, when nobody is inside.
LEMMA EnterKeeps ==
    ASSUME LockInv, NEW w \in Writer, Enter(w)
    PROVE  LockInv'
  <1>1. /\ \A v \in Writer : at[v] # "inside"
        /\ at' = [at EXCEPT ![w] = "inside"]
        /\ copy' = [copy EXCEPT ![w] = file]
        /\ UNCHANGED <<file, byHand>>
    BY DEF Enter, Unlocked
  <1>2. Fields'
    BY <1>1 DEF LockInv, Fields
  <1>3. \A v \in Writer : at'[v] = "inside" => v = w
    BY <1>1 DEF LockInv, Fields
  <1>4. copy'[w] = file'
    BY <1>1 DEF LockInv, Fields
  <1> QED
    BY <1>2, <1>3, <1>4 DEF LockInv, Mutex, Fresh

\* Every handler that writes, and the migration's outcome, leaves with it.
LEMMA WritersLeave ==
    ASSUME NEW w \in Writer, Handler(w)
    PROVE  \/ Enter(w)
           \/ Leaves(w) /\ (at[w] = "inside" \/ UNCHANGED file)
  BY DEF Handler, Refuse, WriteFails, UpdateDatabase, MoveToSecret,
         ScheduleMigration, ClearMigration, PersistMigrate, AddDatabase,
         DeleteDatabase, AddServer, RenameServer, DeleteServer, Holding, Writes

\* Asking sends a request.
LEMMA AskingSends ==
    ASSUME NEW c \in Client, Asking(c)
    PROVE  \E q : Sends(c, q)
  BY DEF Asking, AskForRow, AskForServer, AskOfServer, Asks

\* configMu lets one writer at a time past it, and what that one has read is the
\* file, whoever else asks, crashes or edits, but for an edit by hand.
THEOREM LockHolds == Spec => []LockInv
  <1>1. Init => LockInv
    BY DEF Init, LockInv, Fields, Mutex, Fresh
  <1>2. LockInv /\ [Next]_vars => LockInv'
    <2> SUFFICES ASSUME LockInv, [Next]_vars
                 PROVE  LockInv'
      OBVIOUS
    <2>1. ASSUME NEW c \in Client, Asking(c)
          PROVE  LockInv'
      BY <2>1, AskingSends, SendsKeeps DEF Writer
    <2>2. CASE RunMigration
      BY <2>2, SendsKeeps DEF RunMigration, Writer
    <2>3. ASSUME NEW w \in Writer, Handler(w)
          PROVE  LockInv'
      BY <2>3, WritersLeave, EnterKeeps, LeavesKeeps
    <2>4. CASE HandEdit
      <3>1. /\ byHand' = [w \in Writer |-> at[w] = "inside"]
            /\ UNCHANGED <<at, copy>>
        BY <2>4 DEF HandEdit
      <3>2. Fields'
        BY <3>1 DEF LockInv, Fields
      <3> QED
        BY <3>1, <3>2 DEF LockInv, Mutex, Fresh
    <2>5. CASE CrashAndRestart
      <3>1. /\ at' \in [Writer -> {"idle", "sent", "inside"}]
            /\ \A w \in Writer : at'[w] # "inside"
        BY <2>5 DEF CrashAndRestart, LockInv, Fields
      <3>2. Fields'
        BY <2>5, <3>1 DEF CrashAndRestart, Fields
      <3> QED
        BY <3>1, <3>2 DEF LockInv, Mutex, Fresh
    <2>6. CASE UNCHANGED vars
      BY <2>6 DEF vars, writers, LockInv, Fields, Mutex, Fresh
    <2> QED
      BY <2>1, <2>2, <2>3, <2>4, <2>5, <2>6 DEF Next
  <1> QED
    BY <1>1, <1>2, PTL DEF Spec

\* A handler and a migration's outcome write over the file that they have read:
\* for any number of clients, whatever was edited by hand and wherever the
\* process died, no update of theirs is lost.
THEOREM UpdatesAreKept == Spec => NoLostUpdate
  <1>1. LockInv => \A w \in Writer : Wrote(w) => byHand[w] \/ copy[w] = file
    BY DEF LockInv, Fresh, Wrote
  <1> QED
    BY <1>1, LockHolds, PTL DEF NoLostUpdate

-----------------------------------------------------------------------------
(***************************************************************************)
(* Requests                                                                *)
(***************************************************************************)
\* The request q is for the row that it finds in f.
AtRow(f, q) ==
    /\ <<q.si, q.di>> \in Places(f)
    /\ RowAt(f, <<q.si, q.di>>).id = q.id

Made(q) == Suits(q) /\ (q.op \in RowOp => AtRow(file, q))

\* The record of a writer that has no request.
LEMMA NoRequestFacts ==
    /\ NoRequest \in Request /\ NoRequest.op = "settings"
    /\ NoRequest.shown = NoName /\ NoRequest.name = NoName /\ NoRequest.secret = NoSecret
    /\ Suits(NoRequest)
  <1>1. 0 \in Ticket /\ NoSecret \in Secrets
    BY BoundsAssumption DEF Ticket, Secrets
  <1> QED
    BY <1>1 DEF NoRequest, Request, Suits, Op, RowOp

\* A call of the API and a form, for any row of the file, before their arguments.
LEMMA CallFacts ==
    ASSUME file \in File, NEW p \in Places(file), NEW op \in RowOp
    PROVE  /\ Made(Call(op, p)) /\ Call(op, p).op = op
           /\ Made(Form(op, p)) /\ Form(op, p).op = op
  <1>1. /\ p[1] \in DOMAIN file /\ p[2] \in DOMAIN file[p[1]].rows /\ p = <<p[1], p[2]>>
        /\ p[1] \in Nat /\ p[2] \in Nat
        /\ RowAt(file, p) \in Row
        /\ file[p[1]].name \in ServerName
    BY PlaceOf, FileFacts
  <1>2. RowAt(file, p).id \in Id /\ RowAt(file, p).db \in DbName
    BY <1>1 DEF Row
  <1>3. NamesAt(file, p) \in ServerName \X DbName
    BY <1>1, <1>2 DEF NamesAt
  <1>4. op \in Op /\ op \notin {"addServer", "renameServer", "addDatabase"}
    BY DEF Op, RowOp
  <1> DEFINE q == Call(op, p)
  <1>5. /\ q \in Request /\ q.op = op /\ q.si = p[1] /\ q.di = p[2]
        /\ q.id = RowAt(file, p).id /\ q.shown = NoName
    BY <1>1, <1>2, <1>4, NoRequestFacts DEF Call, Request
  <1> HIDE DEF q
  <1>6. Made(q)
    BY <1>1, <1>4, <1>5 DEF Made, AtRow, Suits
  <1> DEFINE r == [q EXCEPT !.form = TRUE, !.shown = NamesAt(file, p)]
  <1>7. /\ r \in Request /\ r.op = op /\ r.si = p[1] /\ r.di = p[2]
        /\ r.id = RowAt(file, p).id
    BY <1>3, <1>5 DEF Request
  <1>8. Form(op, p) = r
    BY DEF Form, q
  <1> HIDE DEF r
  <1>9. Made(r)
    BY <1>1, <1>4, <1>7 DEF Made, AtRow, Suits
  <1> QED
    BY <1>5, <1>6, <1>7, <1>8, <1>9 DEF q

\* The arguments of a request for a row do not matter to the row.
LEMMA MadeArgs ==
    ASSUME NEW q, Made(q), q.op \in RowOp
    PROVE  /\ \A t \in ServerName : Made([q EXCEPT !.name = t])
                                    /\ [q EXCEPT !.name = t].op = q.op
           /\ \A k \in SecretName : Made([q EXCEPT !.secret = k])
                                    /\ [q EXCEPT !.secret = k].op = q.op
  <1>1. q \in Request
    BY DEF Made, Suits
  <1>2. ASSUME NEW t \in ServerName
        PROVE  Made([q EXCEPT !.name = t]) /\ [q EXCEPT !.name = t].op = q.op
    <2> DEFINE r == [q EXCEPT !.name = t]
    <2>1. /\ r \in Request /\ r.op = q.op /\ r.si = q.si /\ r.di = q.di /\ r.id = q.id
          /\ r.shown = q.shown
      BY <1>1 DEF Request
    <2> HIDE DEF r
    <2>2. Made(r) /\ r.op = q.op
      BY <2>1 DEF Made, Suits, AtRow, RowOp
    <2> QED
      BY <2>2 DEF r
  <1>3. ASSUME NEW k \in SecretName
        PROVE  Made([q EXCEPT !.secret = k]) /\ [q EXCEPT !.secret = k].op = q.op
    <2> DEFINE r == [q EXCEPT !.secret = k]
    <2>1. /\ r \in Request /\ r.op = q.op /\ r.si = q.si /\ r.di = q.di /\ r.id = q.id
          /\ r.shown = q.shown
      BY <1>1 DEF Request, Secrets
    <2> HIDE DEF r
    <2>2. Made(r) /\ r.op = q.op
      BY <2>1 DEF Made, Suits, AtRow, RowOp
    <2> QED
      BY <2>2 DEF r
  <1> QED
    BY <1>2, <1>3

\* The ticket makes the arguments of a new database complete.
Draft(q) ==
    /\ q \in Request
    /\ q.op \in {"addServer", "renameServer"} => q.name \in ServerName
    /\ q.op = "addDatabase" => q.name \in DbName
    /\ q.shown # NoName => q.op \in RowOp
    /\ q.op \in RowOp => AtRow(file, q)

\* A draft gets its ticket and is sent.
LEMMA AsksFacts ==
    ASSUME NEW c \in Client, NEW q, Draft(q), Asks(c, q), requests \in Ticket
    PROVE  /\ \E r : Sends(c, r) /\ Made(r)
           /\ requests' \in Ticket
  <1> DEFINE r == [q EXCEPT !.ticket = requests + 1]
  <1>1. requests + 1 \in Ticket /\ requests + 1 > 0 /\ requests' = requests + 1
        /\ Sends(c, r)
    BY BoundsAssumption DEF Asks, Ticket
  <1>2. /\ r \in Request /\ r.op = q.op /\ r.si = q.si /\ r.di = q.di /\ r.id = q.id
        /\ r.shown = q.shown /\ r.name = q.name /\ r.ticket = requests + 1
    BY <1>1 DEF Draft, Request
  <1> HIDE DEF r
  <1>3. Made(r)
    BY <1>1, <1>2 DEF Draft, Made, Suits, AtRow
  <1> QED
    BY <1>1, <1>3

\* Every request of a client suits its operation and leads to its row.
LEMMA AskingFacts ==
    ASSUME NEW c \in Client, Asking(c), file \in File \cup {Unreadable}, requests \in Ticket
    PROVE  /\ Readable /\ requests' \in Ticket
           /\ \E q : Sends(c, q) /\ Made(q)
  <1>d. \A q : Made(q) => Draft(q)
    BY DEF Made, Suits, Draft
  <1>1. CASE AskForRow(c)
    <2>1. Readable /\ file \in File
      BY <1>1 DEF AskForRow, Readable
    <2> PICK p \in Places(file) :
          \/ Asks(c, Form("settings", p))
          \/ Asks(c, Form("clear", p))
          \/ \E t \in ServerName : Asks(c, [Form("schedule", p) EXCEPT !.name = t])
          \/ \E k \in SecretName : Asks(c, [Form("move", p) EXCEPT !.secret = k])
          \/ Asks(c, Call("settings", p))
          \/ Asks(c, Call("deleteDatabase", p))
      BY <1>1 DEF AskForRow
    <2>2. /\ Draft(Form("settings", p)) /\ Draft(Form("clear", p))
          /\ Draft(Call("settings", p)) /\ Draft(Call("deleteDatabase", p))
      BY <1>d, <2>1, CallFacts DEF RowOp
    <2>3. /\ \A t \in ServerName : Draft([Form("schedule", p) EXCEPT !.name = t])
          /\ \A k \in SecretName : Draft([Form("move", p) EXCEPT !.secret = k])
      <3>1. /\ Made(Form("schedule", p)) /\ Form("schedule", p).op \in RowOp
            /\ Made(Form("move", p)) /\ Form("move", p).op \in RowOp
        BY <2>1, CallFacts DEF RowOp
      <3> QED
        BY <1>d, <3>1, MadeArgs
    <2> QED
      BY <2>1, <2>2, <2>3, AsksFacts
  <1>2. CASE AskForServer(c)
    <2> PICK form \in BOOLEAN, n \in ServerName :
          Asks(c, [NoRequest EXCEPT !.op = "addServer", !.form = form, !.name = n])
      BY <1>2 DEF AskForServer
    <2> DEFINE q == [NoRequest EXCEPT !.op = "addServer", !.form = form, !.name = n]
    <2>1. q \in Request /\ q.op = "addServer" /\ q.name = n /\ q.shown = NoName
      BY NoRequestFacts DEF Request, Op
    <2> HIDE DEF q
    <2>2. Draft(q)
      BY <2>1 DEF Draft, RowOp
    <2> QED
      BY <1>2, <2>2, AsksFacts DEF q, AskForServer
  <1>3. CASE AskOfServer(c)
    <2>1. Readable /\ file \in File
      BY <1>3 DEF AskOfServer, Readable
    <2>n. \A x \in DOMAIN file : x \in Nat
      BY <2>1, FileFacts
    <2> PICK s \in DOMAIN file :
          \/ \E form \in BOOLEAN, n \in DbName,
                k \in IF SecretsMode THEN SecretName ELSE {NoSecret} :
                Asks(c, [NoRequest EXCEPT !.op = "addDatabase", !.form = form,
                            !.si = s, !.name = n, !.secret = k])
          \/ \E n \in ServerName :
                Asks(c, [NoRequest EXCEPT !.op = "renameServer", !.si = s, !.name = n])
          \/ Asks(c, [NoRequest EXCEPT !.op = "deleteServer", !.si = s])
      BY <1>3 DEF AskOfServer
    <2>s. s \in Nat
      BY <2>n
    <2>2. ASSUME NEW form \in BOOLEAN, NEW n \in DbName,
                 NEW k \in IF SecretsMode THEN SecretName ELSE {NoSecret}
          PROVE  Draft([NoRequest EXCEPT !.op = "addDatabase", !.form = form,
                            !.si = s, !.name = n, !.secret = k])
      <3> DEFINE q == [NoRequest EXCEPT !.op = "addDatabase", !.form = form,
                            !.si = s, !.name = n, !.secret = k]
      <3>0. k \in Secrets
        BY DEF Secrets
      <3>1. q \in Request /\ q.op = "addDatabase" /\ q.name = n /\ q.shown = NoName
        BY <2>s, <3>0, NoRequestFacts DEF Request, Op
      <3> HIDE DEF q
      <3>2. Draft(q)
        BY <3>1 DEF Draft, RowOp
      <3> QED
        BY <3>2 DEF q
    <2>3. ASSUME NEW n \in ServerName
          PROVE  Draft([NoRequest EXCEPT !.op = "renameServer", !.si = s, !.name = n])
      <3> DEFINE q == [NoRequest EXCEPT !.op = "renameServer", !.si = s, !.name = n]
      <3>1. q \in Request /\ q.op = "renameServer" /\ q.name = n /\ q.shown = NoName
        BY <2>s, NoRequestFacts DEF Request, Op
      <3> HIDE DEF q
      <3>2. Draft(q)
        BY <3>1 DEF Draft, RowOp
      <3> QED
        BY <3>2 DEF q
    <2>4. Draft([NoRequest EXCEPT !.op = "deleteServer", !.si = s])
      <3> DEFINE q == [NoRequest EXCEPT !.op = "deleteServer", !.si = s]
      <3>1. q \in Request /\ q.op = "deleteServer" /\ q.shown = NoName
        BY <2>s, NoRequestFacts DEF Request, Op
      <3> HIDE DEF q
      <3>2. Draft(q)
        BY <3>1 DEF Draft, RowOp
      <3> QED
        BY <3>2 DEF q
    <2> QED
      BY <2>1, <2>2, <2>3, <2>4, AsksFacts
  <1> QED
    BY <1>1, <1>2, <1>3 DEF Asking

\* So does the migration's outcome.
LEMMA RunFacts ==
    ASSUME RunMigration, file \in File \cup {Unreadable}
    PROVE  Readable /\ requests' = requests /\ \E q : Sends("loop", q) /\ Made(q)
  <1>1. Readable /\ file \in File /\ requests' = requests
    BY DEF RunMigration, Readable
  <1> PICK p \in Places(file) : Sends("loop", Call("outcome", p))
    BY DEF RunMigration
  <1>2. Made(Call("outcome", p))
    BY <1>1, CallFacts DEF RowOp
  <1> QED
    BY <1>1, <1>2

-----------------------------------------------------------------------------
(***************************************************************************)
(* The types, with what is accepted inside                                 *)
(***************************************************************************)
SuitInv == \A w \in Writer : Suits(req[w])
InsideInv == \A w \in Writer : at[w] = "inside" => Accepts(copy[w], req[w])
TypeInv == TypeOK /\ SuitInv /\ InsideInv

\* The history of a file has its types.
LEMMA HistoryTypes ==
    ASSUME NEW f \in File
    PROVE  Names(f) \subseteq (ServerName \X DbName) \X Id /\ Tombstones(f) \subseteq Id
  <1>1. ASSUME NEW p \in Places(f)
        PROVE  /\ NamesAt(f, p) \in ServerName \X DbName
               /\ RowAt(f, p).id \in Id
    <2>1. p[1] \in DOMAIN f
      BY PlaceOf
    <2>2. f[p[1]].name \in ServerName /\ RowAt(f, p) \in Row
      BY <2>1, FileFacts
    <2> QED
      BY <2>2 DEF NamesAt, Row
  <1> QED
    BY <1>1 DEF Names, Tombstones

\* A writer that leaves keeps the rest as it is.
LEMMA LeavesTypes ==
    ASSUME TypeInv, NEW w \in Writer, Leaves(w)
    PROVE  /\ at' \in [Writer -> {"idle", "sent", "inside"}]
           /\ req' \in [Writer -> Request] /\ copy' \in [Writer -> File]
           /\ byHand' \in [Writer -> BOOLEAN]
           /\ \A v \in Writer : at'[v] # "inside" => copy'[v] = <<>> /\ ~ byHand'[v]
           /\ \A u, v \in Writer : at'[u] = "inside" /\ at'[v] = "inside" => u = v
           /\ SuitInv' /\ InsideInv'
  <1>1. NoRequest \in Request /\ Suits(NoRequest) /\ <<>> \in File
    BY NoRequestFacts, EmptySeq DEF File
  <1>2. /\ at' = [at EXCEPT ![w] = "idle"] /\ req' = [req EXCEPT ![w] = NoRequest]
        /\ copy' = [copy EXCEPT ![w] = <<>>] /\ byHand' = [byHand EXCEPT ![w] = FALSE]
    BY DEF Leaves
  <1>3. /\ at' \in [Writer -> {"idle", "sent", "inside"}]
        /\ req' \in [Writer -> Request] /\ copy' \in [Writer -> File]
        /\ byHand' \in [Writer -> BOOLEAN]
    BY <1>1, <1>2 DEF TypeInv, TypeOK
  <1>4. /\ at'[w] = "idle" /\ req'[w] = NoRequest /\ copy'[w] = <<>> /\ ~ byHand'[w]
        /\ \A v \in Writer \ {w} : /\ at'[v] = at[v] /\ req'[v] = req[v]
                                   /\ copy'[v] = copy[v] /\ byHand'[v] = byHand[v]
    BY <1>2 DEF TypeInv, TypeOK
  <1>5. SuitInv'
    BY <1>1, <1>4 DEF TypeInv, SuitInv
  <1>6. InsideInv'
    BY <1>4 DEF TypeInv, InsideInv
  <1> QED
    BY <1>3, <1>4, <1>5, <1>6 DEF TypeInv, TypeOK

\* A request is sent.
LEMMA SendsTypes ==
    ASSUME TypeInv, NEW w \in Writer, NEW q, Suits(q), Sends(w, q), requests' \in Ticket
    PROVE  TypeInv'
  <1>1. /\ at' = [at EXCEPT ![w] = "sent"] /\ req' = [req EXCEPT ![w] = q]
        /\ at[w] = "idle"
        /\ UNCHANGED <<file, copy, byHand, shifted, named, rested, upsets>>
    BY DEF Sends, history
  <1>2. at' \in [Writer -> {"idle", "sent", "inside"}] /\ req' \in [Writer -> Request]
    BY <1>1 DEF TypeInv, TypeOK, Suits
  <1>3. /\ at'[w] = "sent" /\ req'[w] = q
        /\ \A v \in Writer \ {w} : at'[v] = at[v] /\ req'[v] = req[v]
    BY <1>1 DEF TypeInv, TypeOK
  <1>4. SuitInv' /\ InsideInv'
    BY <1>1, <1>3 DEF TypeInv, SuitInv, InsideInv
  <1>5. TypeOK'
    BY <1>1, <1>2, <1>3 DEF TypeInv, TypeOK
  <1> QED
    BY <1>4, <1>5 DEF TypeInv

\* A handler enters, with a request that the file accepts.
LEMMA EnterTypes ==
    ASSUME TypeInv, NEW w \in Writer, Enter(w)
    PROVE  TypeInv'
  <1>1. /\ at' = [at EXCEPT ![w] = "inside"] /\ copy' = [copy EXCEPT ![w] = file]
        /\ at[w] = "sent" /\ Accepts(file, req[w]) /\ \A v \in Writer : at[v] # "inside"
        /\ UNCHANGED <<file, req, byHand, shifted, named, rested, requests, upsets>>
    BY DEF Enter, Unlocked, history
  <1>2. file \in File
    BY DEF Enter, Readable, TypeInv, TypeOK
  <1>3. at' \in [Writer -> {"idle", "sent", "inside"}] /\ copy' \in [Writer -> File]
    BY <1>1, <1>2 DEF TypeInv, TypeOK
  <1>4. /\ at'[w] = "inside" /\ copy'[w] = file
        /\ \A v \in Writer \ {w} : at'[v] = at[v] /\ copy'[v] = copy[v]
    BY <1>1 DEF TypeInv, TypeOK
  <1>5. SuitInv' /\ InsideInv'
    BY <1>1, <1>4 DEF TypeInv, SuitInv, InsideInv
  <1>6. TypeOK'
    BY <1>1, <1>3, <1>4 DEF TypeInv, TypeOK
  <1> QED
    BY <1>5, <1>6 DEF TypeInv

\* The file is written, by a handler or by hand.
LEMMA BecomesTypes ==
    ASSUME TypeInv, NEW g \in File, Becomes(g)
    PROVE  /\ file' \in File
           /\ named' \subseteq (ServerName \X DbName) \X Id /\ rested' \subseteq Id
  BY HistoryTypes DEF Becomes, TypeInv, TypeOK

\* How a handler, or a migration's outcome, ends.
LEMMA Outcomes ==
    ASSUME TypeInv, NEW w \in Writer, Handler(w)
    PROVE  \/ Enter(w) \/ Refuse(w) \/ WriteFails(w)
           \/ /\ at[w] = "inside"
              /\ \E g : /\ Writes(w, g) /\ Effect(copy[w], req[w], g)
                        /\ (Keeps(w) /\ Extends(copy[w], g)) \/ Shifts(w)
  <1> SUFFICES ASSUME ~ Enter(w), ~ Refuse(w), ~ WriteFails(w)
               PROVE  /\ at[w] = "inside"
                      /\ \E g : /\ Writes(w, g) /\ Effect(copy[w], req[w], g)
                                /\ (Keeps(w) /\ Extends(copy[w], g)) \/ Shifts(w)
    OBVIOUS
  <1>1. at[w] = "inside" /\ Suits(req[w]) /\ copy[w] \in File /\ Accepts(copy[w], req[w])
    BY DEF Handler, UpdateDatabase, MoveToSecret, ScheduleMigration, ClearMigration,
           PersistMigrate, AddDatabase, DeleteDatabase, AddServer, RenameServer,
           DeleteServer, Holding, TypeInv, TypeOK, SuitInv, InsideInv
  <1> QED
    BY <1>1, WriteEffects

\* A handler does any of its steps.
LEMMA HandlerTypes ==
    ASSUME TypeInv, NEW w \in Writer, Handler(w)
    PROVE  TypeInv'
  <1>1. CASE Enter(w)
    BY <1>1, EnterTypes
  <1>s. ASSUME Keeps(w) \/ Shifts(w)
        PROVE  shifted' \in [Writer -> BOOLEAN]
    BY <1>s DEF Keeps, Shifts, TypeInv, TypeOK
  <1>2. CASE Refuse(w) \/ WriteFails(w)
    <2>1. /\ Leaves(w) /\ Keeps(w)
          /\ UNCHANGED <<file, named, rested, requests, upsets>>
      BY <1>2 DEF Refuse, WriteFails, Keeps, history
    <2> QED
      BY <1>s, <2>1, LeavesTypes DEF TypeInv, TypeOK
  <1>3. CASE /\ at[w] = "inside"
             /\ \E g : /\ Writes(w, g) /\ Effect(copy[w], req[w], g)
                       /\ (Keeps(w) /\ Extends(copy[w], g)) \/ Shifts(w)
    <2>1. PICK g : /\ Writes(w, g) /\ Effect(copy[w], req[w], g)
                   /\ Keeps(w) \/ Shifts(w)
      BY <1>3
    <2>2. /\ Becomes(g) /\ Leaves(w) /\ g \in File /\ UNCHANGED <<requests, upsets>>
      BY <2>1 DEF Writes, Effect
    <2> QED
      BY <1>s, <2>1, <2>2, BecomesTypes, LeavesTypes DEF TypeInv, TypeOK
  <1> QED
    BY <1>1, <1>2, <1>3, Outcomes

\* The files to begin with are files.
LEMMA InitialTypes ==
    ASSUME NEW f \in Initial
    PROVE  f \in File
  BY InitialAssumption

LEMMA TypeInit == Init => TypeInv
  <1> SUFFICES ASSUME Init PROVE TypeInv
    OBVIOUS
  <1>1. file \in File /\ <<>> \in File
    BY InitialTypes, EmptySeq DEF Init, File
  <1>2. Names(file) \subseteq (ServerName \X DbName) \X Id /\ Tombstones(file) \subseteq Id
    BY <1>1, HistoryTypes
  <1>3. 0 \in Ticket /\ 0 \in 0..MaxUpsets
    BY BoundsAssumption DEF Ticket
  <1>4. SuitInv /\ InsideInv
    BY NoRequestFacts DEF Init, SuitInv, InsideInv
  <1>5. TypeOK
    BY <1>1, <1>2, <1>3, NoRequestFacts DEF Init, TypeOK
  <1> QED
    BY <1>4, <1>5 DEF TypeInv

\* An edit by hand spoils the file, repairs it or moves its rows.
LEMMA HandEditFacts ==
    ASSUME file \in File \cup {Unreadable}, HandEdit
    PROVE  \/ file' = Unreadable /\ UNCHANGED history
           \/ \E g \in File : /\ Becomes(g)
                              /\ g \in Initial \/ (Readable /\ Moved(file, g))
  <1>1. PICK f \in IF Readable THEN Edited(file) ELSE Initial :
           IF f = Unreadable THEN file' = f /\ UNCHANGED history ELSE Becomes(f)
    BY DEF HandEdit
  <1>2. CASE f = Unreadable
    BY <1>1, <1>2
  <1>3. CASE f # Unreadable /\ Readable
    <2>1. file \in File /\ f \in Edited(file)
      BY <1>3 DEF Readable
    <2>2. f \in File /\ Moved(file, f)
      BY <1>3, <2>1, EditFacts
    <2> QED
      BY <1>1, <1>3, <2>2
  <1>4. CASE f # Unreadable /\ ~ Readable
    BY <1>1, <1>4, InitialTypes
  <1> QED
    BY <1>2, <1>3, <1>4

LEMMA TypeNext == TypeInv /\ [Next]_vars => TypeInv'
  <1> SUFFICES ASSUME TypeInv, [Next]_vars
               PROVE  TypeInv'
    OBVIOUS
  <1>f. file \in File \cup {Unreadable} /\ requests \in Ticket
    BY DEF TypeInv, TypeOK
  <1>1. ASSUME NEW c \in Client, Asking(c)
        PROVE  TypeInv'
    <2>1. PICK q : Sends(c, q) /\ Made(q)
      BY <1>f, <1>1, AskingFacts
    <2>2. requests' \in Ticket /\ c \in Writer /\ Suits(q)
      BY <1>f, <1>1, <2>1, AskingFacts DEF Writer, Made
    <2> QED
      BY <2>1, <2>2, SendsTypes
  <1>2. CASE RunMigration
    <2>1. PICK q : Sends("loop", q) /\ Made(q)
      BY <1>f, <1>2, RunFacts
    <2>2. requests' \in Ticket /\ "loop" \in Writer /\ Suits(q)
      BY <1>f, <1>2, <2>1, RunFacts DEF Writer, Made
    <2> QED
      BY <2>1, <2>2, SendsTypes
  <1>3. ASSUME NEW w \in Writer, Handler(w)
        PROVE  TypeInv'
    BY <1>3, HandlerTypes
  <1>4. CASE HandEdit
    <2>1. /\ file' \in File \cup {Unreadable}
          /\ named' \subseteq (ServerName \X DbName) \X Id /\ rested' \subseteq Id
      <3>1. CASE file' = Unreadable /\ UNCHANGED history
        BY <3>1 DEF TypeInv, TypeOK, history
      <3>2. CASE ~ (file' = Unreadable /\ UNCHANGED history)
        <4>1. PICK g \in File : /\ Becomes(g)
                                /\ g \in Initial \/ (Readable /\ Moved(file, g))
          BY <1>f, <1>4, <3>2, HandEditFacts
        <4> QED
          BY <4>1, BecomesTypes
      <3> QED
        BY <3>1, <3>2
    <2>2. /\ byHand' = [w \in Writer |-> at[w] = "inside"]
          /\ shifted' = [w \in Writer |-> at[w] # "idle"]
          /\ UNCHANGED <<at, req, copy, requests>>
          /\ upsets' \in 0..MaxUpsets
      BY <1>4, BoundsAssumption DEF HandEdit, TypeInv, TypeOK
    <2>3. SuitInv' /\ InsideInv'
      BY <2>2 DEF TypeInv, SuitInv, InsideInv
    <2>4. TypeOK'
      BY <2>1, <2>2 DEF TypeInv, TypeOK
    <2> QED
      BY <2>3, <2>4 DEF TypeInv
  <1>5. CASE CrashAndRestart
    <2> DEFINE dies(w) == at[w] = "inside" \/ (w = "loop" /\ at[w] = "sent")
    <2>1. /\ at' = [w \in Writer |-> IF dies(w) THEN "idle" ELSE at[w]]
          /\ req' = [w \in Writer |-> IF dies(w) THEN NoRequest ELSE req[w]]
          /\ shifted' = [w \in Writer |-> ~ dies(w) /\ shifted[w]]
          /\ copy' = [w \in Writer |-> <<>>] /\ byHand' = [w \in Writer |-> FALSE]
          /\ UNCHANGED <<named, rested, requests>>
      BY <1>5 DEF CrashAndRestart, history
    <2>2. upsets' \in 0..MaxUpsets /\ file' \in File \cup {Unreadable}
      BY <1>5, BoundsAssumption DEF CrashAndRestart, TypeInv, TypeOK
    <2>3. NoRequest \in Request /\ Suits(NoRequest) /\ <<>> \in File
      BY NoRequestFacts, EmptySeq DEF File
    <2>4. \A w \in Writer : at'[w] # "inside"
      BY <2>1
    <2>5. SuitInv' /\ InsideInv'
      BY <2>1, <2>3, <2>4 DEF TypeInv, SuitInv, InsideInv
    <2>6. /\ at' \in [Writer -> {"idle", "sent", "inside"}]
          /\ req' \in [Writer -> Request] /\ copy' \in [Writer -> File]
          /\ byHand' \in [Writer -> BOOLEAN] /\ shifted' \in [Writer -> BOOLEAN]
          /\ \A w \in Writer : copy'[w] = <<>> /\ ~ byHand'[w]
      BY <2>1, <2>3 DEF TypeInv, TypeOK
    <2>7. TypeOK'
      BY <2>1, <2>2, <2>4, <2>6 DEF TypeInv, TypeOK
    <2> QED
      BY <2>5, <2>7 DEF TypeInv
  <1>6. CASE UNCHANGED vars
    BY <1>6 DEF vars, writers, history, TypeInv, TypeOK, SuitInv, InsideInv
  <1> QED
    BY <1>1, <1>2, <1>3, <1>4, <1>5, <1>6 DEF Next

\* The file is a list of servers with well-formed rows, or unreadable; every
\* request and every copy has its type; and one writer at a time is inside: for any
\* clients and names, any initial files and any number of requests, crashes and
\* edits by hand.
THEOREM TypeCorrect == Spec => []TypeOK
  <1>1. TypeInv => TypeOK
    BY DEF TypeInv
  <1> QED
    BY <1>1, TypeInit, TypeNext, PTL DEF Spec


-----------------------------------------------------------------------------
(***************************************************************************)
(* The steps that write                                                    *)
(***************************************************************************)
\* Only the writer inside writes, what its handler makes of its copy.
LEMMA WroteFacts ==
    ASSUME TypeInv, [Next]_vars, NEW w \in Writer, Wrote(w)
    PROVE  \E g : Writes(w, g) /\ Effect(copy[w], req[w], g)
  <1>1. at[w] = "inside" /\ at'[w] = "idle" /\ file' \notin {file, Unreadable} /\ ~ Unlocked
    BY DEF Wrote, Unlocked
  <1>a. \A c, q : ~ Asks(c, q)
    BY <1>1 DEF Asks, Sends
  <1>2. \A c \in Client : ~ Asking(c)
    BY <1>a, Zenon DEF Asking, AskForRow, AskForServer, AskOfServer
  <1>3. ~ RunMigration /\ ~ UNCHANGED vars
    BY <1>1 DEF RunMigration, Sends, vars
  <1>4. ~ HandEdit /\ ~ CrashAndRestart
    BY <1>1 DEF HandEdit, CrashAndRestart
  <1>5. PICK v \in Writer : Handler(v)
    BY <1>2, <1>3, <1>4 DEF Next
  <1>6. ~ Enter(v) /\ ~ Refuse(v) /\ ~ WriteFails(v)
    BY <1>1 DEF Enter, Refuse, WriteFails
  <1>7. at[v] = "inside" /\ \E g : Writes(v, g) /\ Effect(copy[v], req[v], g)
    BY <1>5, <1>6, Outcomes
  <1>8. v = w
    BY <1>1, <1>7 DEF TypeInv, TypeOK
  <1> QED
    BY <1>7, <1>8

\* The file is what the handler made of its copy.
LEMMA WrittenFile ==
    ASSUME TypeInv, NEW w \in Writer, NEW g, Writes(w, g)
    PROVE  /\ file' = g /\ at'[w] = "idle"
           /\ \A v \in Writer \ {w} : at'[v] = at[v] /\ req'[v] = req[v]
  BY DEF Writes, Becomes, Leaves, TypeInv, TypeOK

\* What a step makes of the file and of what the writers have read.
LEMMA FileSteps ==
    ASSUME TypeInv, [Next]_vars
    PROVE  \/ /\ file' \in {file, Unreadable} /\ UNCHANGED history
              /\ \A v \in Writer : at'[v] = "inside" =>
                    \/ at[v] = "inside" /\ copy'[v] = copy[v]
                    \/ Readable /\ copy'[v] = file
           \/ /\ \A v \in Writer :
                    at'[v] = "inside" => at[v] = "inside" /\ copy'[v] = copy[v]
              /\ \E g : /\ Becomes(g)
                        /\ \/ \E w \in Writer :
                                 at[w] = "inside" /\ Effect(copy[w], req[w], g)
                           \/ g \in Initial
                           \/ Readable /\ Moved(file, g)
  <1> DEFINE Reads == \A v \in Writer : at'[v] = "inside" =>
                         \/ at[v] = "inside" /\ copy'[v] = copy[v]
                         \/ Readable /\ copy'[v] = file
             Stay == \A v \in Writer :
                        at'[v] = "inside" => at[v] = "inside" /\ copy'[v] = copy[v]
             Source(g) == \/ \E w \in Writer :
                                at[w] = "inside" /\ Effect(copy[w], req[w], g)
                          \/ g \in Initial
                          \/ Readable /\ Moved(file, g)
             Goal == \/ file' \in {file, Unreadable} /\ UNCHANGED history /\ Reads
                     \/ Stay /\ \E g : Becomes(g) /\ Source(g)
  <1> SUFFICES Goal
    OBVIOUS
  <1>f. file \in File \cup {Unreadable}
    BY DEF TypeInv, TypeOK
  <1>s. ASSUME NEW w \in Writer, NEW q, Sends(w, q)
        PROVE  Goal
    BY <1>s DEF Sends, history, TypeInv, TypeOK
  <1>1. ASSUME NEW c \in Client, Asking(c)
        PROVE  Goal
    <2>1. PICK q : Sends(c, q)
      BY <1>1, AskingSends
    <2> QED
      BY <2>1, <1>s DEF Writer
  <1>2. CASE RunMigration
    <2>1. PICK q : Sends("loop", q)
      BY <1>2 DEF RunMigration
    <2> QED
      BY <2>1, <1>s DEF Writer
  <1>3. ASSUME NEW w \in Writer, Handler(w)
        PROVE  Goal
    <2>1. CASE Enter(w)
      BY <2>1 DEF Enter, history, TypeInv, TypeOK
    <2>l. Leaves(w) => Stay
      BY DEF Leaves, TypeInv, TypeOK
    <2>2. CASE Refuse(w) \/ WriteFails(w)
      <3>1. Leaves(w) /\ UNCHANGED <<file, history>>
        BY <2>2 DEF Refuse, WriteFails
      <3> QED
        BY <2>l, <3>1
    <2>3. CASE at[w] = "inside" /\ \E g : Writes(w, g) /\ Effect(copy[w], req[w], g)
      <3>1. PICK g : Writes(w, g) /\ Effect(copy[w], req[w], g)
        BY <2>3
      <3>2. Becomes(g) /\ Leaves(w)
        BY <3>1 DEF Writes
      <3>3. Source(g)
        BY <2>3, <3>1
      <3> QED
        BY <2>l, <3>2, <3>3
    <2> QED
      BY <1>3, <2>1, <2>2, <2>3, Outcomes
  <1>4. CASE HandEdit
    <2>1. Stay
      BY <1>4 DEF HandEdit
    <2>2. CASE file' = Unreadable /\ UNCHANGED history
      BY <2>1, <2>2
    <2>3. CASE ~ (file' = Unreadable /\ UNCHANGED history)
      <3>1. PICK g \in File : /\ Becomes(g)
                              /\ g \in Initial \/ (Readable /\ Moved(file, g))
        BY <1>f, <1>4, <2>3, HandEditFacts
      <3>2. Becomes(g) /\ Source(g)
        BY <3>1
      <3> QED
        BY <2>1, <3>2
    <2> QED
      BY <2>2, <2>3
  <1>5. CASE CrashAndRestart
    <2>1. /\ file' \in {file, Unreadable} /\ UNCHANGED history
          /\ \A v \in Writer : at'[v] # "inside"
      BY <1>5 DEF CrashAndRestart, TypeInv, TypeOK
    <2> QED
      BY <2>1
  <1>6. CASE UNCHANGED vars
    BY <1>6 DEF vars, writers, history
  <1> QED
    BY <1>1, <1>2, <1>3, <1>4, <1>5, <1>6 DEF Next

-----------------------------------------------------------------------------
(***************************************************************************)
(* Indices                                                                 *)
(***************************************************************************)
\* An edit by hand leaves no request with indices to rely on.
HandInv ==
    \A w \in Writer : at[w] = "inside" /\ byHand[w] =>
        \A v \in Writer : at[v] # "idle" => shifted[v]

\* The indices of a request lead to its row as long as nothing has shifted them.
IndexInv ==
    \A w \in Writer :
        at[w] # "idle" /\ req[w].op \in RowOp /\ ~ shifted[w] /\ Readable
        => AtRow(file, req[w])

\* A request that is made of the file leads to its row.
LEMMA SendsIndices ==
    ASSUME TypeInv, HandInv, IndexInv, NEW w \in Writer, NEW q, Made(q), Sends(w, q)
    PROVE  HandInv' /\ IndexInv'
  <1>1. /\ at' = [at EXCEPT ![w] = "sent"] /\ req' = [req EXCEPT ![w] = q]
        /\ \A v \in Writer : at[v] # "inside"
        /\ UNCHANGED <<file, byHand, shifted>>
    BY DEF Sends, Unlocked
  <1>2. /\ at'[w] = "sent" /\ req'[w] = q
        /\ \A v \in Writer \ {w} : at'[v] = at[v] /\ req'[v] = req[v]
    BY <1>1 DEF TypeInv, TypeOK
  <1>3. HandInv'
    BY <1>1, <1>2 DEF HandInv
  <1>4. q.op \in RowOp => AtRow(file, q)
    BY DEF Made
  <1>5. IndexInv'
    BY <1>1, <1>2, <1>4 DEF IndexInv, Readable, AtRow, Places, RowAt
  <1> QED
    BY <1>3, <1>5

\* A handler that writes keeps every row in its place or shifts every index.
LEMMA HandlerIndices ==
    ASSUME TypeInv, LockInv, HandInv, IndexInv, NEW w \in Writer, Handler(w)
    PROVE  HandInv' /\ IndexInv'
  <1>1. CASE Enter(w)
    <2>1. /\ at[w] = "sent" /\ at' = [at EXCEPT ![w] = "inside"]
          /\ \A v \in Writer : at[v] # "inside"
          /\ UNCHANGED <<file, req, byHand, shifted>>
      BY <1>1 DEF Enter, Unlocked
    <2>2. \A v \in Writer : /\ at'[v] # "idle" => at[v] # "idle"
                            /\ ~ byHand[v]
      BY <2>1 DEF TypeInv, TypeOK
    <2> QED
      BY <2>1, <2>2 DEF HandInv, IndexInv, Readable, AtRow, Places, RowAt
  <1>2. CASE Refuse(w) \/ WriteFails(w)
    <2>1. Leaves(w) /\ Keeps(w) /\ UNCHANGED file
      BY <1>2 DEF Refuse, WriteFails, Keeps
    <2>2. /\ at'[w] = "idle"
          /\ \A v \in Writer \ {w} : /\ at'[v] = at[v] /\ req'[v] = req[v]
                                     /\ byHand'[v] = byHand[v] /\ shifted'[v] = shifted[v]
      BY <2>1 DEF Leaves, Keeps, TypeInv, TypeOK
    <2> QED
      BY <2>1, <2>2 DEF HandInv, IndexInv, Readable, AtRow, Places, RowAt
  <1>3. CASE /\ at[w] = "inside"
             /\ \E g : /\ Writes(w, g) /\ Effect(copy[w], req[w], g)
                       /\ (Keeps(w) /\ Extends(copy[w], g)) \/ Shifts(w)
    <2>1. PICK g : /\ Writes(w, g) /\ Effect(copy[w], req[w], g)
                   /\ (Keeps(w) /\ Extends(copy[w], g)) \/ Shifts(w)
      BY <1>3
    <2>2. /\ file' = g /\ at'[w] = "idle"
          /\ \A v \in Writer \ {w} : at'[v] = at[v] /\ req'[v] = req[v]
      BY <2>1, WrittenFile
    <2>3. \A v \in Writer : at'[v] # "inside"
      BY <1>3, <2>2 DEF TypeInv, TypeOK
    <2>4. HandInv'
      BY <2>3 DEF HandInv
    <2>5. ASSUME NEW v \in Writer, at'[v] # "idle", req'[v].op \in RowOp, ~ shifted'[v]
          PROVE  AtRow(g, req'[v])
      <3>1. v # w /\ at[v] # "idle" /\ req'[v] = req[v]
        BY <2>2, <2>5
      <3>2. ~ Shifts(w)
        BY <2>5, <3>1 DEF Shifts
      <3>3. Extends(copy[w], g) /\ ~ shifted[v]
        BY <2>1, <2>5, <3>1, <3>2 DEF Keeps, TypeInv, TypeOK
      <3>4. copy[w] = file /\ Readable
        BY <1>3, <3>1, <3>3, ValuesAssumption
           DEF HandInv, LockInv, Fresh, Readable, TypeInv, TypeOK
      <3>5. AtRow(file, req[v])
        BY <2>5, <3>1, <3>3, <3>4 DEF IndexInv
      <3> QED
        BY <3>1, <3>3, <3>4, <3>5 DEF AtRow, Extends
    <2>6. IndexInv'
      BY <2>2, <2>5 DEF IndexInv, AtRow, Places, RowAt
    <2> QED
      BY <2>4, <2>6
  <1> QED
    BY <1>1, <1>2, <1>3, Outcomes

\* Indices hold through every step.
LEMMA IndexNext ==
    TypeInv /\ LockInv /\ HandInv /\ IndexInv /\ [Next]_vars => HandInv' /\ IndexInv'
  <1> SUFFICES ASSUME TypeInv, LockInv, HandInv, IndexInv, [Next]_vars
               PROVE  HandInv' /\ IndexInv'
    OBVIOUS
  <1>f. file \in File \cup {Unreadable} /\ requests \in Ticket
    BY DEF TypeInv, TypeOK
  <1>1. ASSUME NEW c \in Client, Asking(c)
        PROVE  HandInv' /\ IndexInv'
    <2>1. PICK q : Sends(c, q) /\ Made(q)
      BY <1>f, <1>1, AskingFacts
    <2> QED
      BY <2>1, SendsIndices DEF Writer
  <1>2. CASE RunMigration
    <2>1. PICK q : Sends("loop", q) /\ Made(q)
      BY <1>f, <1>2, RunFacts
    <2> QED
      BY <2>1, SendsIndices DEF Writer
  <1>3. ASSUME NEW w \in Writer, Handler(w)
        PROVE  HandInv' /\ IndexInv'
    BY <1>3, HandlerIndices
  <1>4. CASE HandEdit
    <2>1. \A v \in Writer : at'[v] = at[v] /\ (at[v] # "idle" => shifted'[v])
      BY <1>4 DEF HandEdit
    <2> QED
      BY <2>1 DEF HandInv, IndexInv
  <1>5. CASE CrashAndRestart
    <2>1. /\ file' \in {file, Unreadable}
          /\ \A v \in Writer : /\ at'[v] # "inside"
                               /\ at'[v] # "idle" =>
                                     /\ at[v] # "idle" /\ req'[v] = req[v]
                                     /\ shifted'[v] = shifted[v]
      BY <1>5 DEF CrashAndRestart, TypeInv, TypeOK
    <2> QED
      BY <2>1 DEF HandInv, IndexInv, Readable, AtRow, Places, RowAt
  <1>6. CASE UNCHANGED vars
    BY <1>6 DEF vars, writers, HandInv, IndexInv, Readable, AtRow, Places, RowAt
  <1> QED
    BY <1>1, <1>2, <1>3, <1>4, <1>5, <1>6 DEF Next

\* A call of the API and a migration's outcome carry no names, and yet change the
\* row they were made for and no other, for any number of clients and whatever was
\* added, edited, renamed or migrated since: only deletions and edits by hand make
\* indices lead elsewhere.
THEOREM IndicesHoldAlways == Spec => IndicesHold
  <1>1. Init => HandInv /\ IndexInv
    BY DEF Init, HandInv, IndexInv
  <1>2. ASSUME TypeInv, LockInv, HandInv, IndexInv, [Next]_vars, NEW w \in Writer,
               Wrote(w), req[w].op \in RowOp, ~ shifted[w]
        PROVE  OnlyRow(req[w].id)
    <2>1. PICK g : Writes(w, g) /\ Effect(copy[w], req[w], g)
      BY <1>2, WroteFacts
    <2>2. at[w] = "inside" /\ copy[w] = file /\ Readable
      BY <1>2, ValuesAssumption
         DEF Wrote, HandInv, LockInv, Fresh, Readable, TypeInv, TypeOK
    <2>3. AtRow(file, req[w])
      BY <1>2, <2>2 DEF IndexInv
    <2>4. SameButFor(file, g, req[w].id) /\ file' = g
      BY <1>2, <2>1, <2>2, <2>3, WrittenFile DEF Effect, AtRow
    <2> QED
      BY <2>4, OnlyRowOf DEF SameButFor, Places, RowAt
  <1>3. TypeInv /\ LockInv /\ HandInv /\ IndexInv /\ [Next]_vars =>
          \A w \in Writer :
              Wrote(w) /\ req[w].op \in RowOp /\ ~ shifted[w] => OnlyRow(req[w].id)
    BY <1>2
  <1> QED
    BY <1>1, <1>3, IndexNext, TypeInit, TypeNext, LockHolds, PTL DEF Spec, IndicesHold


-----------------------------------------------------------------------------
(***************************************************************************)
(* The names and the tombstones that the history keeps                     *)
(***************************************************************************)
Remembered(f) == Names(f) \subseteq named /\ Tombstones(f) \subseteq rested

\* Whatever a writer has read is remembered, too.
HistoryInv ==
    /\ Readable => Remembered(file)
    /\ \A w \in Writer : at[w] = "inside" => Remembered(copy[w])

\* What is in the file or in a copy is remembered, whatever happens.
LEMMA HistoryNext == TypeInv /\ HistoryInv /\ [Next]_vars => HistoryInv'
  <1> SUFFICES ASSUME TypeInv, HistoryInv, [Next]_vars
               PROVE  HistoryInv'
    OBVIOUS
  <1> USE DEF Remembered, Names, Tombstones, Places, RowAt, NamesAt
  <1>1. CASE /\ file' \in {file, Unreadable} /\ UNCHANGED history
             /\ \A v \in Writer : at'[v] = "inside" =>
                   \/ at[v] = "inside" /\ copy'[v] = copy[v]
                   \/ Readable /\ copy'[v] = file
    BY <1>1 DEF HistoryInv, Readable, history
  <1>2. CASE /\ \A v \in Writer :
                   at'[v] = "inside" => at[v] = "inside" /\ copy'[v] = copy[v]
             /\ \E g : Becomes(g)
    <2>1. PICK g : Becomes(g)
      BY <1>2
    <2>2. /\ file' = g /\ named' = named \cup Names(g) /\ rested' = rested \cup Tombstones(g)
      BY <2>1 DEF Becomes
    <2>3. \A v \in Writer : at'[v] = "inside" =>
             Names(copy'[v]) \subseteq named' /\ Tombstones(copy'[v]) \subseteq rested'
      BY <1>2, <2>2 DEF HistoryInv
    <2>4. Names(file') \subseteq named' /\ Tombstones(file') \subseteq rested'
      BY <2>2
    <2> QED
      BY <2>3, <2>4 DEF HistoryInv
  <1> QED
    BY <1>1, <1>2, FileSteps

LEMMA HistoryInit == Init => HistoryInv
  BY DEF Init, HistoryInv, Remembered

\* A form changes the row that its page showed and no other, for any number of
\* clients and whatever was added, deleted, renamed or migrated between the page and
\* the form, as long as no other row has ever had the names that the form carries
\* and nobody edits the file by hand while its handler is at work.
THEOREM FormsHitAlways == Spec => FormsHitTheirRow
  <1>1. ASSUME TypeInv, LockInv, HistoryInv, [Next]_vars, NEW w \in Writer,
               Wrote(w), ~ byHand[w], req[w].shown # NoName,
               \A i \in Id \ {req[w].id} : <<req[w].shown, i>> \notin named
        PROVE  OnlyRow(req[w].id)
    <2> DEFINE q == req[w]
               p == <<q.si, q.di>>
    <2>1. PICK g : Writes(w, g) /\ Effect(copy[w], q, g)
      BY <1>1, WroteFacts
    <2>2. /\ at[w] = "inside" /\ copy[w] = file /\ Readable /\ file \in File
          /\ Accepts(file, q) /\ Suits(q) /\ Remembered(file)
      BY <1>1, ValuesAssumption
         DEF Wrote, LockInv, Fresh, Readable, TypeInv, TypeOK, InsideInv, SuitInv, HistoryInv
    <2>3. q.op \in RowOp /\ q.shown = NamesAt(file, p)
      BY <1>1, <2>2 DEF Suits, Accepts, StaleRow
    <2>4. p \in Places(file) /\ RowAt(file, p).id \in Id
      BY <2>2, <2>3, TargetFacts DEF Row
    <2>5. <<q.shown, RowAt(file, p).id>> \in named
      BY <2>2, <2>3, <2>4 DEF Remembered, Names
    <2>6. RowAt(file, p).id = q.id
      BY <1>1, <2>4, <2>5
    <2>7. SameButFor(file, g, q.id) /\ file' = g
      BY <1>1, <2>1, <2>2, <2>3, <2>6, WrittenFile DEF Effect
    <2> QED
      BY <2>7, OnlyRowOf DEF SameButFor, Places, RowAt
  <1>2. TypeInv /\ LockInv /\ HistoryInv /\ [Next]_vars =>
          \A w \in Writer :
              /\ Wrote(w) /\ ~ byHand[w]
              /\ req[w].shown # NoName
              /\ \A i \in Id \ {req[w].id} : <<req[w].shown, i>> \notin named
              => OnlyRow(req[w].id)
    BY <1>1
  <1> QED
    BY <1>2, HistoryInit, HistoryNext, TypeInit, TypeNext, LockHolds, PTL
       DEF Spec, FormsHitTheirRow

-----------------------------------------------------------------------------
(***************************************************************************)
(* Secrets of more than one row                                            *)
(***************************************************************************)
\* The files that the operator writes give each live row a Secret of its own.
SecretsApart == \A f \in Initial : Shared(f, {})

SharedInv ==
    /\ Readable => Shared(file, rested)
    /\ \A w \in Writer : at[w] = "inside" => Shared(copy[w], rested)

\* No step makes two rows share a Secret unless a tombstone excuses it.
LEMMA SharedNext ==
    ASSUME SecretsApart
    PROVE  TypeInv /\ HistoryInv /\ SharedInv /\ [Next]_vars => SharedInv'
  <1> SUFFICES ASSUME TypeInv, HistoryInv, SharedInv, [Next]_vars
               PROVE  SharedInv'
    OBVIOUS
  <1>g. \A f : Shared(f, rested) /\ rested \subseteq rested' => Shared(f, rested')
    BY SharedGrows
  <1>1. CASE /\ file' \in {file, Unreadable} /\ UNCHANGED history
             /\ \A v \in Writer : at'[v] = "inside" =>
                   \/ at[v] = "inside" /\ copy'[v] = copy[v]
                   \/ Readable /\ copy'[v] = file
    <2>1. \A v \in Writer : at'[v] = "inside" => Shared(copy'[v], rested')
      BY <1>g, <1>1 DEF SharedInv, history
    <2>2. Readable' => Shared(file', rested')
      BY <1>g, <1>1 DEF SharedInv, Readable, history
    <2> QED
      BY <2>1, <2>2, Zenon DEF SharedInv, Shared, Fits, Places, RowAt, Live
  <1>2. CASE /\ \A v \in Writer :
                   at'[v] = "inside" => at[v] = "inside" /\ copy'[v] = copy[v]
             /\ \E g : /\ Becomes(g)
                       /\ \/ \E w \in Writer :
                                at[w] = "inside" /\ Effect(copy[w], req[w], g)
                          \/ g \in Initial
                          \/ Readable /\ Moved(file, g)
    <2>1. PICK g : /\ Becomes(g)
                   /\ \/ \E w \in Writer :
                            at[w] = "inside" /\ Effect(copy[w], req[w], g)
                      \/ g \in Initial
                      \/ Readable /\ Moved(file, g)
      BY <1>2
    <2>2. file' = g /\ rested \subseteq rested'
      BY <2>1 DEF Becomes
    <2>3. Shared(g, rested')
      <3>1. CASE \E w \in Writer : at[w] = "inside" /\ Effect(copy[w], req[w], g)
        <4>1. PICK w \in Writer : at[w] = "inside" /\ Effect(copy[w], req[w], g)
          BY <3>1
        <4>2. Shared(copy[w], rested') /\ Tombstones(copy[w]) \subseteq rested'
          BY <1>g, <2>2, <4>1 DEF SharedInv, HistoryInv, Remembered
        <4> QED
          BY <4>1, <4>2 DEF Effect
      <3>2. CASE g \in Initial
        <4>1. Shared(g, {})
          BY <3>2 DEF SecretsApart
        <4> QED
          BY <4>1, SharedGrows
      <3>3. CASE Readable /\ Moved(file, g)
        <4>1. Shared(g, rested)
          BY <3>3, SharedMoved DEF SharedInv
        <4> QED
          BY <1>g, <2>2, <4>1
      <3> QED
        BY <2>1, <3>1, <3>2, <3>3
    <2>4. \A v \in Writer : at'[v] = "inside" => Shared(copy'[v], rested')
      BY <1>g, <1>2, <2>2 DEF SharedInv
    <2>5. Shared(file', rested')
      BY <2>2, <2>3
    <2> QED
      BY <2>4, <2>5, Zenon DEF SharedInv, Shared, Fits, Places, RowAt, Live
  <1> QED
    BY <1>1, <1>2, FileSteps

\* Two live rows never name one Secret unless one of them has been a tombstone, if
\* they do not in the files that the operator writes: whatever clients add, move,
\* schedule and clear in any order, only the tombstones that claimSecretName passes
\* over let a Secret be claimed twice.
THEOREM SharedOnlyThroughTombstones ==
    ASSUME SecretsApart
    PROVE  Spec => []SharedThroughTombstone
  <1>1. Init => SharedInv
    <2> SUFFICES ASSUME Init PROVE SharedInv
      OBVIOUS
    <2>1. file \in Initial /\ \A w \in Writer : at[w] # "inside"
      BY DEF Init
    <2>2. Shared(file, {})
      BY <2>1 DEF SecretsApart
    <2> QED
      BY <2>1, <2>2, SharedGrows DEF SharedInv
  <1>2. SharedInv => SharedThroughTombstone
    <2> SUFFICES ASSUME SharedInv, Readable, NEW p \in Places(file), NEW q \in Places(file),
                        p # q, Live(RowAt(file, p)), Live(RowAt(file, q)),
                        RowAt(file, p).secret = RowAt(file, q).secret,
                        RowAt(file, p).secret # NoSecret
                 PROVE  {RowAt(file, p).id, RowAt(file, q).id} \cap rested # {}
      BY DEF SharedThroughTombstone
    <2>1. RowAt(file, p).id \in rested \/ RowAt(file, q).id \in rested
      BY DEF SharedInv, Shared, Fits
    <2> QED
      BY <2>1
  <1> QED
    BY <1>1, <1>2, SharedNext, HistoryInit, HistoryNext, TypeInit, TypeNext, PTL DEF Spec

================================================================================
