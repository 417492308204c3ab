\* Two entries, one name to move to, one rotation, and one failure, edit,
\* outside change and crash at any moment.
SPECIFICATION FairSpec
CONSTANTS
    NEntries = 2
    Wants = {1}
    n1 = n1
    r1 = r1
    Name <- OneName
    NoName = NoName
    NoSecret = NoSecret
    Rotation <- OneRotation
    MaxPasswords = 9
    MaxEdits = 1
    MaxFaults = 1
    MaxKubectl = 1
    MaxCrashes = 1
INVARIANTS
    TypeOK
    StringMatches
PROPERTIES
    OnlyRotationsChange
    ForeignUntouched
    PassPicksUp
\* Everything is bounded: at the end the watch loop rests.
CHECK_DEADLOCK FALSE
