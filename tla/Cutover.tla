------------------------------- MODULE Cutover -------------------------------
(***************************************************************************)
(* What a migration promises, with none of its steps: databases stand on   *)
(* servers, an entry's database can be proven to have a copy elsewhere,    *)
(* the entry then rests (a tombstone), and only an ordered, proven cutover *)
(* whose copy still stands takes a database away.                          *)
(***************************************************************************)
CONSTANTS
    Entry,      \* the database entries of the config file
    Server,     \* the places a database may stand
    HostOf,     \* HostOf[e]: where entry e's database is meant to stand
    NameOf,     \* NameOf[e]: the database of entry e
    Nowhere     \* an entry that is not a tombstone rests nowhere

VARIABLES
    standing,   \* <<server, database>>: the databases that exist
    ordered,    \* <<entry, server>>: drops asked for by the operator
    proven,     \* <<entry, server>>: copies that passed verification
    rests       \* rests[e]: the server that entry e's tombstone names

cutoverVars == <<standing, ordered, proven, rests>>

Copy(e, s) == <<s, NameOf[e]>>
Original(e) == <<HostOf[e], NameOf[e]>>

CutoverInit ==
    /\ proven = {}
    /\ rests = [e \in Entry |-> Nowhere]

\* A database is created, as a migration's target or by provisioning.
Appear(s, e) ==
    /\ standing' = standing \cup {Copy(e, s)}
    /\ UNCHANGED <<ordered, proven, rests>>

\* A copy that stands is verified.
Prove(e, s) ==
    /\ s # HostOf[e]
    /\ Copy(e, s) \in standing
    /\ proven' = proven \cup {<<e, s>>}
    /\ UNCHANGED <<standing, ordered, rests>>

\* The entry becomes the tombstone of a proven copy.
Rest(e, s) ==
    /\ <<e, s>> \in proven
    /\ rests' = [rests EXCEPT ![e] = s]
    /\ UNCHANGED <<standing, ordered, proven>>

\* The entry is live again: cleared, rescheduled, or written back unfinished.
Reopen(e) ==
    /\ rests' = [rests EXCEPT ![e] = Nowhere]
    /\ UNCHANGED <<standing, ordered, proven>>

\* The operator asks that e's original be dropped once it is copied to s; the
\* same edit reopens the entry.
Order(e, s) ==
    /\ rests' = [rests EXCEPT ![e] = Nowhere]
    /\ ordered' = ordered \cup {<<e, s>>}
    /\ UNCHANGED <<standing, proven>>

\* The original goes away: ordered, proven, and its copy stands.
Vanish(e, s) ==
    /\ <<e, s>> \in ordered \cap proven
    /\ Copy(e, s) \in standing
    /\ s # HostOf[e]
    /\ standing' = standing \ {Original(e)}
    /\ UNCHANGED <<ordered, proven, rests>>

CutoverNext ==
    \E e \in Entry :
        \/ Reopen(e)
        \/ \E s \in Server :
              \/ Appear(s, e) \/ Prove(e, s) \/ Rest(e, s)
              \/ Order(e, s) \/ Vanish(e, s)

CutoverSpec == CutoverInit /\ [][CutoverNext]_cutoverVars

=============================================================================
