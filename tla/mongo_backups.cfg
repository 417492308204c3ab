\* Two MongoDB servers, a database on the first: two nights, no S3, no crash.
SPECIFICATION Spec
CONSTANTS
    NServers = 2
    NEntries = 1
    Host <- OneHost
    MongoServer = {1, 2}
    Folder = {"x"}
    FolderOf <- OneFolder
    Keep <- OneKeep
    HasS3 = FALSE
    PageSize = 2
    NoRestore = NoRestore
    MaxDay = 2
    MaxCrashes = 0
INVARIANT AsleepWithBackup
CHECK_DEADLOCK FALSE
