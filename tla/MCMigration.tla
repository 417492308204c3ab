----------------------------- MODULE MCMigration -----------------------------
(***************************************************************************)
(* Small instances of Migration for TLC.                                   *)
(***************************************************************************)
EXTENDS Migration, TLC

CONSTANTS a, b      \* two servers

\* One entry on a, to be moved to b.
OneHost == <<a>>
OneName == <<"x">>

\* The same database name under both servers: each is the other's target.
CrossHost == <<a, b>>
CrossName == <<"x", "x">>

\* Two databases of one server, and a second server to move them to.
PairHost == <<a, a>>
PairName == <<"x", "y">>
=============================================================================
