\* One entry, every kind of failure, application writes, an edit and a crash.
SPECIFICATION Spec
CONSTANTS
    a = a
    b = b
    NoDb = NoDb
    NoMigrate = NoMigrate
    NoRotation = NoRotation
    Unlisted = Unlisted
    Table = {"t"}
    Record = {"r1", "r2"}
    NRows = 1
    Server = {a, b}
    DbName = {"x"}
    Host <- OneHost
    Name <- OneName
    PGServer = {a, b}
    DryRun = {}
    SecretRow = {}
    BackupRow = {1}
    RestoreRow = {1}
    Faults = {"load", "secret", "target", "provision", "dump", "psql", "restore",
              "verify", "drop", "persist", "connect"}
    MaxEdits = 1
    MaxRotations = 0
    MaxCrashes = 1
INVARIANTS
    TypeOK
    DropLosesNothing
    LoadsOverOwnWork
    TombstoneVerified
PROPERTIES
    DropsOnlyOnOrder
    ImplementsCutover
\* The watch loop rests when the file does not change.
CHECK_DEADLOCK FALSE
