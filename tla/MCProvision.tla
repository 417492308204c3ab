----------------------------- MODULE MCProvision -----------------------------
(***************************************************************************)
(* Small instances of Provision for TLC.                                   *)
(***************************************************************************)
EXTENDS Provision

CONSTANTS m, p, g, dry    \* a server of each kind, and one for dry runs

KindOfServer == [s \in Server |-> CASE s = m -> "mariadb" [] s = p -> "postgres"
                                    [] OTHER -> "mongodb"]

\* One entry on each.
OneEach == <<m, p, g, dry>>
SameDb == <<"x", "x", "x", "x">>
SameUser == <<"u", "u", "u", "u">>

\* One PostgreSQL entry.
OneHost == <<p>>
OneDb == <<"x">>
OneUser == <<"u">>
=============================================================================
