------------------------------ MODULE MCSecrets ------------------------------
(***************************************************************************)
(* Small instances of Secrets for TLC.                                     *)
(***************************************************************************)
EXTENDS Secrets

CONSTANTS r1, n1

OneRotation == {r1}
OneName == {n1}
=============================================================================
