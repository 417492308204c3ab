------------------------------ MODULE Register ------------------------------
(***************************************************************************)
(* What the config file promises to everybody who changes it through the   *)
(* program: it is a register of rows, and a request takes effect on it in  *)
(* one step, at most once, between its sending and its answer.  What it    *)
(* checks is still so when it takes effect.  Only the operator's editor is *)
(* outside: an edit made while a request is at work may be lost, and that  *)
(* is all a request can lose.                                              *)
(***************************************************************************)
EXTENDS Integers

CONSTANTS Writer, Id, NoSecret

VARIABLES
    pending,    \* pending[w]: what w has asked for and has no answer to
    seen,       \* the register, as requests find it
    disk,       \* the file, with edits by hand that requests have not found yet
    upsets      \* edits by hand and crashes so far

registerVars == <<pending, seen, disk, upsets>>

Request == {"row", "server", "deletion"}

RegisterInit ==
    /\ pending = [w \in Writer |-> "none"]
    /\ seen.whole /\ disk = seen
    /\ upsets = 0

Ask(w) ==
    /\ pending[w] = "none" /\ seen.whole
    /\ \E q \in Request : pending' = [pending EXCEPT ![w] = q]
    /\ UNCHANGED <<seen, disk, upsets>>

AllBut(rows, i) == {r \in rows : r.id # i}

\* The row r takes its Secret with it, or takes one that no live row has.
MayName(r, rows) ==
    \/ r.secret = NoSecret
    \/ \E o \in rows : o.id = r.id /\ o.secret = r.secret
    \/ \A o \in rows : o.secret = r.secret => o.migrate = "done"

\* One row comes, goes or changes.
ChangesRow(old, new) ==
    /\ \E i \in Id : AllBut(new, i) = AllBut(old, i)
    /\ \A r \in new \ old : MayName(r, old)

\* The request takes effect, and an edit by hand that it has not found is gone.
Apply(w) ==
    /\ seen.whole /\ disk'.whole
    /\ \/ pending[w] = "row" /\ ChangesRow(seen.rows, disk'.rows)
       \/ pending[w] = "server" /\ disk'.rows = seen.rows
       \/ pending[w] = "deletion" /\ disk'.rows \subseteq seen.rows
    /\ seen' = disk'
    /\ pending' = [pending EXCEPT ![w] = "none"]
    /\ UNCHANGED upsets

\* The request is refused or fails: it has no effect.
Decline(w) ==
    /\ pending[w] # "none"
    /\ pending' = [pending EXCEPT ![w] = "none"]
    /\ seen' = disk
    /\ UNCHANGED <<disk, upsets>>

\* The operator saves an edit, or repairs the file.
Edit ==
    /\ IF disk.whole THEN upsets' = upsets + 1 ELSE upsets' = upsets
    /\ seen' \in {seen, disk'}
    /\ UNCHANGED pending

\* Requests may be lost with the process, and the file may be cut short.
Crash ==
    /\ upsets' = upsets + 1
    /\ \A w \in Writer : pending'[w] \in {pending[w], "none"}
    /\ disk' = disk \/ ~ disk'.whole
    /\ seen' = disk'

RegisterNext ==
    \/ \E w \in Writer : Ask(w) \/ Apply(w) \/ Decline(w)
    \/ Edit
    \/ Crash

RegisterSpec == RegisterInit /\ [][RegisterNext]_registerVars

=============================================================================
