\* A pass that has read the old password sets it after the rotation.
SPECIFICATION Spec
CONSTANTS
    NEntries = 1
    Wants = {1}
    n1 = n1
    r1 = r1
    Name <- OneName
    NoName = NoName
    NoSecret = NoSecret
    Rotation <- OneRotation
    MaxPasswords = 4
    MaxEdits = 0
    MaxFaults = 0
    MaxKubectl = 0
    MaxCrashes = 0
INVARIANTS
    RotatedAtRest
\* Everything is bounded: at the end the watch loop rests.
CHECK_DEADLOCK FALSE
