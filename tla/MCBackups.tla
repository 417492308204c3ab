------------------------------ MODULE MCBackups ------------------------------
(***************************************************************************)
(* Small instances of Backups for TLC.                                     *)
(***************************************************************************)
EXTENDS Backups, TLC

\* Two entries of two servers, the second a MongoDB server, that keep one and two
\* backups.
TwoHost == <<1, 2>>
TwoFolders == <<"x", "y">>
TwoKeep == <<1, 2>>

\* One entry of the first of two MongoDB servers, that keeps one backup.
OneHost == <<1>>
OneFolder == <<"x">>
OneKeep == <<1>>
=============================================================================
