------------------------------ MODULE Contents ------------------------------
(***************************************************************************)
(* What a database holds, as far as the provisioner can tell: a set of     *)
(* base tables, each with its rows.  The provisioner never looks at a row; *)
(* it counts rows per table (queryTableCounts) and it moves whole tables   *)
(* (pg_dump, psql, the backup files).  Sequences, views, functions and     *)
(* grants are left out: nothing in the code compares them.                 *)
(***************************************************************************)
EXTENDS FiniteSets, Integers

CONSTANTS
    Table,      \* names of base tables, "schema.table"
    Record,     \* the rows that applications may store
    NoDb        \* the value of a database that does not exist

\* A table is finite, so it has a count.
ASSUME RecordFinite == IsFiniteSet(Record)

\* A database that exists always differs from one that does not.
Content == UNION {[T -> SUBSET Record] : T \in SUBSET Table}
ASSUME NoDbIsNoContent == NoDb \notin Content

\* A database just created by CREATE DATABASE: no base table.
EmptyDb == [t \in {} |-> {}]

\* The rows a database has in a table, none when it has no such table.
Rows(c, t) == IF t \in DOMAIN c THEN c[t] ELSE {}

-----------------------------------------------------------------------------
(***************************************************************************)
(* psql replays a dump: it creates each table and then copies its rows.    *)
(* One table's COPY succeeds or fails as a whole; without ON_ERROR_STOP    *)
(* the rest of the script runs on, so any subset of the tables can be      *)
(* missing or empty at the end.  Rows already in the database stay.  A row *)
(* that is loaded twice counts once here: only the backup fallback loads   *)
(* over rows of its own, and nobody counts those.                          *)
(***************************************************************************)
Replayed(old, dump) ==
    [t \in DOMAIN old \cup DOMAIN dump |-> Rows(old, t) \cup Rows(dump, t)]

PartlyReplayed(old, dump) ==
    {c \in Content :
        /\ DOMAIN old \subseteq DOMAIN c
        /\ DOMAIN c \subseteq DOMAIN old \cup DOMAIN dump
        /\ \A t \in DOMAIN c :
              c[t] \in {Rows(old, t), Rows(old, t) \cup Rows(dump, t)}}

\* Mutant: the row counts are not compared, only the table names are.
SameCounts_TablesOnly(source, target) == DOMAIN source = DOMAIN target

\* compareTableCounts: the same tables, and as many rows in each.
SameCounts(source, target) ==
    /\ DOMAIN source = DOMAIN target
    /\ \A t \in DOMAIN source : Cardinality(source[t]) = Cardinality(target[t])

=============================================================================
