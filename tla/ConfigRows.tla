----------------------------- MODULE ConfigRows -----------------------------
(***************************************************************************)
(* The rows of the config file and everybody who rewrites it: the forms of *)
(* the admin UI, the JSON API, the migration that records its outcome, and *)
(* the operator's editor.  All but the editor read the file, change their  *)
(* copy and write it back as a whole under configMu.                       *)
(*                                                                         *)
(* A row is addressed by its indices.  A form of the UI also carries the   *)
(* names its page showed; a call of the API and the outcome of a migration *)
(* do not.  A row's id is history: which row it is, whatever its place and *)
(* its names.  Every server here is a PostgreSQL server.                   *)
(***************************************************************************)
EXTENDS Integers, SequencesExt

CONSTANTS
    Client,         \* browsers and scripts, each with one request at a time
    ServerName, DbName, SecretName,
    NoName,         \* the request has no argument of this kind
    NoSecret,       \* the row's password is in the file
    Unreadable,     \* the file is not JSON
    Initial,        \* the files to begin with, and to repair the file with
    NRows,          \* the rows in them have ids up to this one
    SecretsMode,    \* secretsManager is not nil
    MaxRequests,    \* bound: requests
    MaxUpsets       \* bound: crashes, and edits by hand of a readable file

Writer == Client \cup {"loop"}
Ticket == 0..MaxRequests
Id == 1..(NRows + MaxRequests)
Secrets == SecretName \cup {NoSecret}

\* settings is the ticket of the request that last set them: the password, the
\* user, its permissions, extensions or the backup block.
Row == [id : Id, db : DbName, settings : Ticket, secret : Secrets,
        migrate : {"none", "pending", "done"}]
Server == [name : ServerName, rows : Seq(Row)]
File == Seq(Server)

RowOp == {"settings", "move", "schedule", "clear", "deleteDatabase", "outcome"}
Op == RowOp \cup {"addDatabase", "addServer", "renameServer", "deleteServer"}

\* shown are the names that a form carries, and id the row it was made for;
\* name and secret are arguments.
Request == [op : Op, form : BOOLEAN, si : Nat, di : Nat, id : Id \cup {0},
            shown : (ServerName \X DbName) \cup {NoName},
            name : ServerName \cup DbName \cup {NoName},
            secret : Secrets, ticket : Ticket]

ASSUME InitialAssumption ==
    /\ NRows \in Nat
    /\ \A f \in Initial :
          /\ f \in File
          /\ \A s \in DOMAIN f : \A r \in Range(f[s].rows) : r.id <= NRows
ASSUME ValuesAssumption ==
    /\ "loop" \notin Client
    /\ SecretsMode \in BOOLEAN
    /\ NoSecret \notin SecretName /\ Unreadable \notin File
    /\ NoName \notin (ServerName \X DbName) \cup ServerName \cup DbName
ASSUME BoundsAssumption == {MaxRequests, MaxUpsets} \subseteq Nat

VARIABLES
    file,       \* the servers in the file, each with its rows
    at,         \* where each writer is: "idle", "sent", "inside" (configMu)
    req,        \* its request
    copy,       \* the file as it read it
    byHand,     \* the file was edited by hand since the writer read it
    shifted,    \* rows went away or were edited by hand since the request was made
    named,      \* history: the names that each row has had
    rested,     \* history: the rows that have been tombstones
    requests, upsets

writers == <<at, req, copy, byHand, shifted>>
history == <<named, rested>>
vars == <<file, at, req, copy, byHand, shifted, named, rested,
          requests, upsets>>

Readable == file # Unreadable
Places(f) == UNION {{<<s, d>> : d \in DOMAIN f[s].rows} : s \in DOMAIN f}
RowAt(f, p) == f[p[1]].rows[p[2]]
NamesAt(f, p) == <<f[p[1]].name, RowAt(f, p).db>>
Live(r) == r.migrate # "done"

\* What the history keeps of a file.
Names(f) == {<<NamesAt(f, p), RowAt(f, p).id>> : p \in Places(f)}
Tombstones(f) == {RowAt(f, p).id : p \in {x \in Places(f) : ~ Live(RowAt(f, x))}}

TypeOK ==
    /\ file \in File \cup {Unreadable}
    /\ at \in [Writer -> {"idle", "sent", "inside"}]
    /\ req \in [Writer -> Request]
    /\ copy \in [Writer -> File]
    /\ byHand \in [Writer -> BOOLEAN] /\ shifted \in [Writer -> BOOLEAN]
    /\ \A w \in Writer : at[w] # "inside" => copy[w] = <<>> /\ ~ byHand[w]
    /\ \A v, w \in Writer : at[v] = "inside" /\ at[w] = "inside" => v = w
    /\ named \subseteq (ServerName \X DbName) \X Id
    /\ rested \subseteq Id
    /\ requests \in Ticket
    /\ upsets \in 0..MaxUpsets

-----------------------------------------------------------------------------
(***************************************************************************)
(* Requests                                                                *)
(***************************************************************************)
NoRequest == [op |-> "settings", form |-> FALSE, si |-> 0, di |-> 0, id |-> 0,
              shown |-> NoName, name |-> NoName, secret |-> NoSecret,
              ticket |-> 0]

\* configMu is free: readers of the file only wait for a writer.
Unlocked == \A w \in Writer : at[w] # "inside"

\* The writer w has read the file and made the request q of what it saw.
Sends(w, q) ==
    /\ at[w] = "idle"
    /\ Unlocked
    /\ at' = [at EXCEPT ![w] = "sent"]
    /\ req' = [req EXCEPT ![w] = q]
    /\ UNCHANGED <<file, copy, byHand, shifted, history, upsets>>

\* A client's request, with the next ticket.
Asks(c, q) ==
    /\ requests < MaxRequests
    /\ requests' = requests + 1
    /\ Sends(c, [q EXCEPT !.ticket = requests + 1])

\* A row form of the page handleIndex showed, and a call of the API for a row
\* of the answer handleAPIListServers gave.
Call(op, p) ==
    [NoRequest EXCEPT !.op = op, !.si = p[1], !.di = p[2], !.id = RowAt(file, p).id]
Form(op, p) == [Call(op, p) EXCEPT !.form = TRUE, !.shown = NamesAt(file, p)]

AskForRow(c) ==
    /\ Readable
    /\ \E p \in Places(file) :
          \/ Asks(c, Form("settings", p))
          \/ Asks(c, Form("clear", p))
          \/ \E t \in ServerName : Asks(c, [Form("schedule", p) EXCEPT !.name = t])
          \/ /\ SecretsMode
             /\ \E k \in SecretName : Asks(c, [Form("move", p) EXCEPT !.secret = k])
          \/ Asks(c, Call("settings", p))
          \/ Asks(c, Call("deleteDatabase", p))

AskForServer(c) ==
    /\ Readable
    /\ \E form \in BOOLEAN, n \in ServerName :
          Asks(c, [NoRequest EXCEPT !.op = "addServer", !.form = form, !.name = n])

AskOfServer(c) ==
    /\ Readable
    /\ \E s \in DOMAIN file :
          \/ \E form \in BOOLEAN, n \in DbName,
                k \in IF SecretsMode THEN SecretName ELSE {NoSecret} :
                Asks(c, [NoRequest EXCEPT !.op = "addDatabase", !.form = form,
                            !.si = s, !.name = n, !.secret = k])
          \/ \E n \in ServerName :
                Asks(c, [NoRequest EXCEPT !.op = "renameServer", !.si = s, !.name = n])
          \/ Asks(c, [NoRequest EXCEPT !.op = "deleteServer", !.si = s])

\* The watch loop has loaded the file and runs a pending migration of it.  Of the
\* migrations of a pass this follows one, which may wait for the others.
RunMigration ==
    /\ Readable
    /\ \E p \in Places(file) :
          /\ RowAt(file, p).migrate = "pending"
          /\ Sends("loop", Call("outcome", p))
    /\ UNCHANGED requests

-----------------------------------------------------------------------------
(***************************************************************************)
(* Handlers: what each accepts                                             *)
(***************************************************************************)
InRange(f, q) == q.si \in DOMAIN f /\ (q.op \in RowOp => <<q.si, q.di>> \in Places(f))

\* Mutant: only the name of the server is compared.
StaleRow_ServerOnly(f, q) ==
    /\ q.shown # NoName
    /\ q.shown[1] # f[q.si].name

\* staleRow: the names the form was shown for are no longer there.
StaleRow(f, q) == q.shown # NoName /\ q.shown # NamesAt(f, <<q.si, q.di>>)

\* Mutant: any migrate block passes for a completed one.
Claimable_IgnoresPending(f, k) ==
    \A p \in Places(f) : RowAt(f, p).secret = k => RowAt(f, p).migrate # "none"

\* claimSecretName: no live row names the Secret.
Claimable(f, k) == \A p \in Places(f) : RowAt(f, p).secret = k => ~ Live(RowAt(f, p))

\* resolveTargetServer: the first server of that name, other than the source.
Resolves(f, target, source) ==
    /\ target # source
    /\ \E s \in DOMAIN f : f[s].name = target

\* The UI compares names before it adds; the API does not.
UniqueDatabase(f, q) ==
    q.form => \A r \in Range(f[q.si].rows) : r.db # q.name
UniqueServer(f, q) ==
    q.form => \A s \in DOMAIN f : f[s].name # q.name

Accepts(f, q) ==
    /\ q.op # "addServer" => InRange(f, q)
    /\ q.op \in RowOp => ~ StaleRow(f, q)
    /\ q.op = "schedule" => Resolves(f, q.name, f[q.si].name)
    /\ q.op = "move" => RowAt(f, <<q.si, q.di>>).secret = NoSecret
    /\ q.secret # NoSecret => Claimable(f, q.secret)
    /\ q.op = "addDatabase" => UniqueDatabase(f, q)
    /\ q.op = "addServer" => UniqueServer(f, q)

\* The writer w is done with its request.
Leaves(w) ==
    /\ at' = [at EXCEPT ![w] = "idle"]
    /\ req' = [req EXCEPT ![w] = NoRequest]
    /\ copy' = [copy EXCEPT ![w] = <<>>]
    /\ byHand' = [byHand EXCEPT ![w] = FALSE]

\* Mutant: the handler takes the lock only to write.
Enter_Unlocked(w) ==
    /\ at[w] = "sent" /\ Readable /\ Accepts(file, req[w])
    /\ at' = [at EXCEPT ![w] = "inside"]
    /\ copy' = [copy EXCEPT ![w] = file]
    /\ UNCHANGED <<file, req, byHand, shifted, history, requests, upsets>>

\* The handler takes the lock, reads the file and finds the request in order.
Enter(w) ==
    /\ at[w] = "sent" /\ Unlocked /\ Readable /\ Accepts(file, req[w])
    /\ at' = [at EXCEPT ![w] = "inside"]
    /\ copy' = [copy EXCEPT ![w] = file]
    /\ UNCHANGED <<file, req, byHand, shifted, history, requests, upsets>>

\* It cannot read the file, or answers with an error.
Refuse(w) ==
    /\ at[w] = "sent" /\ Unlocked
    /\ Readable => ~ Accepts(file, req[w])
    /\ Leaves(w)
    /\ shifted' = [shifted EXCEPT ![w] = FALSE]
    /\ UNCHANGED <<file, history, requests, upsets>>

-----------------------------------------------------------------------------
(***************************************************************************)
(* Handlers: what each writes                                              *)
(***************************************************************************)
Holding(w, op) == at[w] = "inside" /\ req[w].op = op

Becomes(f) ==
    /\ file' = f
    /\ named' = named \cup Names(f)
    /\ rested' = rested \cup Tombstones(f)

\* os.WriteFile: the whole copy, changed to f.
Writes(w, f) ==
    /\ Becomes(f)
    /\ Leaves(w)
    /\ UNCHANGED <<requests, upsets>>

Keeps(w) == shifted' = [shifted EXCEPT ![w] = FALSE]
\* Every request made before may now mean another row.
Shifts(w) == shifted' = [x \in Writer |-> x # w /\ at[x] # "idle"]

Target(w) == RowAt(copy[w], <<req[w].si, req[w].di>>)
WithTarget(w, r) == [copy[w] EXCEPT ![req[w].si].rows[req[w].di] = r]
WithRows(w, rows) == [copy[w] EXCEPT ![req[w].si].rows = rows]

\* handleUpdatePassword, handleGeneratePassword, handleUpdateBackup,
\* handleAPIUpdateDatabase
UpdateDatabase(w) ==
    /\ Holding(w, "settings")
    /\ Writes(w, WithTarget(w, [Target(w) EXCEPT !.settings = req[w].ticket]))
    /\ Keeps(w)

\* handleMoveToSecret, whose Secret has been made: the password leaves the file.
MoveToSecret(w) ==
    /\ Holding(w, "move")
    /\ Writes(w, WithTarget(w, [Target(w) EXCEPT !.secret = req[w].secret,
                                                 !.settings = req[w].ticket]))
    /\ Keeps(w)

\* handleMigrateDatabase, with and without a target.
ScheduleMigration(w) ==
    /\ Holding(w, "schedule")
    /\ Writes(w, WithTarget(w, [Target(w) EXCEPT !.migrate = "pending"]))
    /\ Keeps(w)
ClearMigration(w) ==
    /\ Holding(w, "clear")
    /\ Writes(w, WithTarget(w, [Target(w) EXCEPT !.migrate = "none"]))
    /\ Keeps(w)

\* persistMigrate: the run's block, completed or with an error, replaces whatever
\* the row at its indices has.
PersistMigrate(w) ==
    /\ Holding(w, "outcome")
    /\ \E m \in {"done", "pending"} :
          Writes(w, WithTarget(w, [Target(w) EXCEPT !.migrate = m]))
    /\ Keeps(w)

NewRow(q) == [id |-> NRows + q.ticket, db |-> q.name, settings |-> q.ticket,
              secret |-> q.secret, migrate |-> "none"]

\* Mutant: the new row comes first.
AddDatabase_First(w) ==
    /\ Holding(w, "addDatabase")
    /\ Writes(w, WithRows(w, <<NewRow(req[w])>> \o copy[w][req[w].si].rows))
    /\ Keeps(w)

\* handleAddDatabase, handleAPICreateDatabase
AddDatabase(w) ==
    /\ Holding(w, "addDatabase")
    /\ Writes(w, WithRows(w, Append(copy[w][req[w].si].rows, NewRow(req[w]))))
    /\ Keeps(w)

\* handleAPIDeleteDatabase: the rows after it move up.
DeleteDatabase(w) ==
    /\ Holding(w, "deleteDatabase")
    /\ Writes(w, WithRows(w, RemoveAt(copy[w][req[w].si].rows, req[w].di)))
    /\ Shifts(w)

\* handleAddServer, handleAPICreateServer
AddServer(w) ==
    /\ Holding(w, "addServer")
    /\ Writes(w, Append(copy[w], [name |-> req[w].name, rows |-> <<>>]))
    /\ Keeps(w)

\* handleAPIUpdateServer, as far as the name goes.
RenameServer(w) ==
    /\ Holding(w, "renameServer")
    /\ Writes(w, [copy[w] EXCEPT ![req[w].si].name = req[w].name])
    /\ Keeps(w)

\* handleAPIDeleteServer: with its rows; the servers after it move up.
DeleteServer(w) ==
    /\ Holding(w, "deleteServer")
    /\ Writes(w, RemoveAt(copy[w], req[w].si))
    /\ Shifts(w)

\* The file cannot be written, or a move fails to make its Secret.
WriteFails(w) ==
    /\ at[w] = "inside"
    /\ Leaves(w)
    /\ Keeps(w)
    /\ UNCHANGED <<file, history, requests, upsets>>

-----------------------------------------------------------------------------
(***************************************************************************)
(* The editor and crashes                                                  *)
(***************************************************************************)
\* What an edit by hand makes of a readable file: rows or servers in another
\* order, a row gone or renamed, a slip of the pen.
Edited(f) ==
    {Reverse(f), Unreadable}
    \cup {[f EXCEPT ![s].rows = Reverse(@)] : s \in DOMAIN f}
    \cup {[f EXCEPT ![p[1]].rows = RemoveAt(@, p[2])] : p \in Places(f)}
    \cup UNION {{[f EXCEPT ![p[1]].rows[p[2]].db = n] : n \in DbName} : p \in Places(f)}

HandEdit ==
    /\ IF Readable THEN upsets < MaxUpsets /\ upsets' = upsets + 1
       ELSE UNCHANGED upsets
    /\ byHand' = [w \in Writer |-> at[w] = "inside"]
    /\ shifted' = [w \in Writer |-> at[w] # "idle"]
    /\ \E f \in IF Readable THEN Edited(file) ELSE Initial :
          /\ f # file
          /\ IF f = Unreadable THEN file' = f /\ UNCHANGED history ELSE Becomes(f)
    /\ UNCHANGED <<at, req, copy, requests>>

\* The process dies, its handlers and the migration with it, if there are any;
\* the pages that clients have open stay.  A file that was being written may be
\* cut short.
CrashAndRestart ==
    /\ upsets < MaxUpsets
    /\ upsets' = upsets + 1
    /\ LET dies(w) == at[w] = "inside" \/ (w = "loop" /\ at[w] = "sent") IN
       /\ \E w \in Writer : dies(w)
       /\ at' = [w \in Writer |-> IF dies(w) THEN "idle" ELSE at[w]]
       /\ req' = [w \in Writer |-> IF dies(w) THEN NoRequest ELSE req[w]]
       /\ shifted' = [w \in Writer |-> ~ dies(w) /\ shifted[w]]
    /\ copy' = [w \in Writer |-> <<>>]
    /\ byHand' = [w \in Writer |-> FALSE]
    /\ file' \in {file} \cup (IF Unlocked THEN {} ELSE {Unreadable})
    /\ UNCHANGED <<history, requests>>

-----------------------------------------------------------------------------
Init ==
    /\ file \in Initial
    /\ at = [w \in Writer |-> "idle"]
    /\ req = [w \in Writer |-> NoRequest]
    /\ copy = [w \in Writer |-> <<>>]
    /\ byHand = [w \in Writer |-> FALSE]
    /\ shifted = [w \in Writer |-> FALSE]
    /\ named = Names(file) /\ rested = Tombstones(file)
    /\ requests = 0 /\ upsets = 0

Asking(c) == AskForRow(c) \/ AskForServer(c) \/ AskOfServer(c)

Handler(w) ==
    \/ Enter(w) \/ Refuse(w) \/ WriteFails(w)
    \/ UpdateDatabase(w) \/ MoveToSecret(w)
    \/ ScheduleMigration(w) \/ ClearMigration(w) \/ PersistMigrate(w)
    \/ AddDatabase(w) \/ DeleteDatabase(w)
    \/ AddServer(w) \/ RenameServer(w) \/ DeleteServer(w)

Next ==
    \/ \E c \in Client : Asking(c)
    \/ RunMigration
    \/ \E w \in Writer : Handler(w)
    \/ HandEdit
    \/ CrashAndRestart

Spec == Init /\ [][Next]_vars

-----------------------------------------------------------------------------
(***************************************************************************)
(* Properties                                                              *)
(***************************************************************************)
\* w has just written the file.
Wrote(w) == at[w] = "inside" /\ at'[w] = "idle" /\ file' \notin {file, Unreadable}

\* The row i, wherever it is.
Occurrences(f, i) == {RowAt(f, p) : p \in {x \in Places(f) : RowAt(f, x).id = i}}
\* No row but i has changed, come or gone.
OnlyRow(i) ==
    \A j \in Id \ {i} : Occurrences(file', j) = Occurrences(file, j)

\* No update is lost: a handler writes over the file that it read, so what two
\* requests and a migration's outcome change in any order is all there in the
\* end (configMu around every read and write).  Only an edit by hand, which
\* takes no lock, can come between and is then written over.
NoLostUpdate ==
    [][\A w \in Writer : Wrote(w) => byHand[w] \/ copy[w] = file]_vars

\* A form changes the row that its page showed, or nothing, whatever was
\* added, deleted, renamed or moved since (staleRow).  The names must tell rows
\* apart: no other row may ever have had them.
FormsHitTheirRow ==
    [][\A w \in Writer :
          /\ Wrote(w) /\ ~ byHand[w]
          /\ req[w].shown # NoName
          /\ \A i \in Id \ {req[w].id} : <<req[w].shown, i>> \notin named
          => OnlyRow(req[w].id)]_vars

\* A request that carries no names, a call of the API or the outcome of a
\* migration, still changes the row it was made for when rows were meanwhile
\* added, edited or migrated: only deletions and edits by hand shift indices.
IndicesHold ==
    [][\A w \in Writer :
          Wrote(w) /\ req[w].op \in RowOp /\ ~ shifted[w] => OnlyRow(req[w].id)]_vars

\* Two live rows name one Secret only if one of them has been a tombstone:
\* claimSecretName passes over those, and their migration can be cleared.
SharedThroughTombstone ==
    Readable =>
        \A p, q \in Places(file) :
            /\ p # q
            /\ Live(RowAt(file, p)) /\ Live(RowAt(file, q))
            /\ RowAt(file, p).secret = RowAt(file, q).secret
            /\ RowAt(file, p).secret # NoSecret
            => {RowAt(file, p).id, RowAt(file, q).id} \cap rested # {}

\* ConfigRows implements the promise of Register: while a handler is inside, what
\* it has read is the register; otherwise the file is.
RowsOf(f) == {RowAt(f, p) : p \in Places(f)}
Content(f) == [whole |-> f # Unreadable,
               rows |-> IF f = Unreadable THEN {} ELSE RowsOf(f)]
KindOf(q) == IF q.op \in RowOp \cup {"addDatabase"} THEN "row"
             ELSE IF q.op = "deleteServer" THEN "deletion" ELSE "server"
PendingOf == [w \in Writer |-> IF at[w] = "idle" THEN "none" ELSE KindOf(req[w])]
SeenOf ==
    IF Unlocked THEN Content(file)
    ELSE Content(copy[CHOOSE w \in Writer : at[w] = "inside"])

Reg == INSTANCE Register
          WITH pending <- PendingOf, seen <- SeenOf, disk <- Content(file)
ImplementsRegister == Reg!RegisterSpec

=============================================================================
