\* Two entries of one server: every scheduled migration is settled, every
\* failure is retried.
SPECIFICATION FairSpec
CONSTANTS
    a = a
    b = b
    NoDb = NoDb
    NoMigrate = NoMigrate
    NoRotation = NoRotation
    Unlisted = Unlisted
    Table = {}
    Record = {"r1"}
    NRows = 2
    Server = {a, b}
    DbName = {"x", "y"}
    Host <- PairHost
    Name <- PairName
    PGServer = {a, b}
    DryRun = {}
    SecretRow = {}
    BackupRow = {}
    RestoreRow = {}
    Faults = {"target", "drop"}
    MaxEdits = 1
    MaxRotations = 0
    MaxCrashes = 1
PROPERTIES
    ScheduledIsSettled
    RetriedWhilePending
\* The watch loop rests when the file does not change.
CHECK_DEADLOCK FALSE
