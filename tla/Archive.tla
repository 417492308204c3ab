------------------------------- MODULE Archive -------------------------------
(***************************************************************************)
(* What the backups promise, with none of their files: each database has a *)
(* newest backup that can be restored and a newest one that is out of      *)
(* reach of a lost disk.  Neither ever becomes older, whatever is pruned,  *)
(* interrupted or downloaded, but for a lost disk, which leaves the copies.*)
(***************************************************************************)
EXTENDS Integers

CONSTANT Folder     \* the databases that have backups

VARIABLES
    today,
    newest,     \* newest[f]: the date of the newest whole backup of f, 0: none
    copied      \* copied[f]: the date of the newest one outside the disk

archiveVars == <<today, newest, copied>>

ArchiveInit ==
    /\ today = 0
    /\ newest = [f \in Folder |-> 0]
    /\ copied = [f \in Folder |-> 0]

Midnight ==
    /\ today' = today + 1
    /\ UNCHANGED <<newest, copied>>

\* The night's backup is complete.
BackUp(f) ==
    /\ newest[f] < today
    /\ newest' = [newest EXCEPT ![f] = today]
    /\ UNCHANGED <<today, copied>>

\* The night's backup is copied.
CopyOut(f) ==
    /\ newest[f] = today
    /\ copied[f] < today
    /\ copied' = [copied EXCEPT ![f] = today]
    /\ UNCHANGED <<today, newest>>

LoseDisk ==
    /\ newest' = copied
    /\ UNCHANGED <<today, copied>>

ArchiveNext ==
    \/ Midnight
    \/ \E f \in Folder : BackUp(f) \/ CopyOut(f)
    \/ LoseDisk

ArchiveSpec == ArchiveInit /\ [][ArchiveNext]_archiveVars

=============================================================================
