\* A dropped source comes back in the same pass.
SPECIFICATION Spec
CONSTANTS
    a = a
    b = b
    NoDb = NoDb
    NoMigrate = NoMigrate
    NoRotation = NoRotation
    Unlisted = Unlisted
    Table = {"t"}
    Record = {"r1"}
    NRows = 1
    Server = {a, b}
    DbName = {"x"}
    Host <- OneHost
    Name <- OneName
    PGServer = {a, b}
    DryRun = {}
    SecretRow = {}
    BackupRow = {}
    RestoreRow = {}
    Faults = {}
    MaxEdits = 1
    MaxRotations = 0
    MaxCrashes = 0
INVARIANTS
    TombstonedSourceGone
\* The watch loop rests when the file does not change.
CHECK_DEADLOCK FALSE
