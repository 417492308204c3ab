\* A rotation writes its entry's migrate block into the first entry.
SPECIFICATION Spec
CONSTANTS
    a = a
    b = b
    NoDb = NoDb
    NoMigrate = NoMigrate
    NoRotation = NoRotation
    Unlisted = Unlisted
    Table = {"t"}
    Record = {}
    NRows = 2
    Server = {a, b}
    DbName = {"x", "y"}
    Host <- PairHost
    Name <- PairName
    PGServer = {a, b}
    DryRun = {}
    SecretRow = {2}
    BackupRow = {}
    RestoreRow = {}
    Faults = {}
    MaxEdits = 0
    MaxRotations = 1
    MaxCrashes = 0
INVARIANTS
    DropTakesTypedName
\* The watch loop rests when the file does not change.
CHECK_DEADLOCK FALSE
