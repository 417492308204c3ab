\* A Secret rotation reprovisions the entry whose database is the target of
\* the other entry's migration.
SPECIFICATION Spec
CONSTANTS
    a = a
    b = b
    NoDb = NoDb
    NoMigrate = NoMigrate
    NoRotation = NoRotation
    Unlisted = Unlisted
    Table = {"t"}
    Record = {"r1"}
    NRows = 2
    Server = {a, b}
    DbName = {"x"}
    Host <- CrossHost
    Name <- CrossName
    PGServer = {a, b}
    DryRun = {}
    SecretRow = {2}
    BackupRow = {2}
    RestoreRow = {2}
    Faults = {"psql"}
    MaxEdits = 0
    MaxRotations = 1
    MaxCrashes = 0
INVARIANT TombstoneVerified
\* The watch loop rests when the file does not change.
CHECK_DEADLOCK FALSE
