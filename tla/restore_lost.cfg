\* Provisioning fails once the database has been created, and never restores it.
SPECIFICATION Spec
CONSTANTS
    p = p
    m = m
    g = g
    dry = dry
    NEntries = 1
    Server = {p}
    Kind <- KindOfServer
    Host <- OneHost
    DbOf <- OneDb
    UserOf <- OneUser
    WithExtensions = {1}
    Restores = {1}
    InSecret = {}
    DryRun = {}
    Faulty = {}
    Decodes = TRUE
    Standing = {{}}
    Outdated = {}
    NoRole = NoRole
    NoDb = NoDb
    NoUser = NoUser
    MaxFaults = 1
    MaxEdits = 0
    MaxRotations = 0
INVARIANTS
    RestoredWhenCreated
\* The watch loop rests when the file does not change.
CHECK_DEADLOCK FALSE
