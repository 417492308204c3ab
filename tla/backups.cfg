\* A PostgreSQL and a MongoDB server, a database each, over three nights with S3,
\* restores and crashes.
SPECIFICATION Spec
CONSTANTS
    NServers = 2
    NEntries = 2
    Host <- TwoHost
    MongoServer = {2}
    Folder = {"x", "y"}
    FolderOf <- TwoFolders
    Keep <- TwoKeep
    HasS3 = TRUE
    PageSize = 2
    NoRestore = NoRestore
    MaxDay = 3
    MaxCrashes = 2
INVARIANTS
    TypeOK
    RetainsBackup
    ObjectsWhole
    RestoresNewest
PROPERTY
    ImplementsArchive
\* The nights are bounded.
CHECK_DEADLOCK FALSE
