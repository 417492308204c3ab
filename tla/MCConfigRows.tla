---------------------------- MODULE MCConfigRows ----------------------------
(***************************************************************************)
(* Small instances of ConfigRows for TLC.                                  *)
(***************************************************************************)
EXTENDS ConfigRows, TLC

CONSTANTS a, b, x, y, k     \* names of servers, databases and a Secret

NewRowOf(i, n, secret, migrate) ==
    [id |-> i, db |-> n, settings |-> 0, secret |-> secret, migrate |-> migrate]

\* A database of one name on both servers; the first server's is in a Secret and
\* about to be migrated.
TwoServers ==
    {<<[name |-> a, rows |-> <<NewRowOf(1, x, k, "pending"), NewRowOf(2, y, NoSecret, "none")>>],
       [name |-> b, rows |-> <<NewRowOf(3, x, NoSecret, "none")>>]>>}

\* Clients differ in nothing but their requests.
Clients == Permutations(Client)
=============================================================================
