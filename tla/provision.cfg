\* An entry on a MariaDB server that fails at will, then one on a PostgreSQL, a
\* MongoDB and a dry-run server, with a rotation, an edit and a failure or crash.
SPECIFICATION FairSpec
CONSTANTS
    p = p
    m = m
    g = g
    dry = dry
    NEntries = 4
    Server = {m, p, g, dry}
    Kind <- KindOfServer
    Host <- OneEach
    DbOf <- SameDb
    UserOf <- SameUser
    WithExtensions = {2}
    Restores = {1, 2, 3, 4}
    InSecret = {2, 3, 4}
    DryRun = {dry}
    Faulty = {m}
    Decodes = TRUE
    Standing = {{}, {1, 2, 3}}
    Outdated = {p}
    NoRole = NoRole
    NoDb = NoDb
    NoUser = NoUser
    MaxFaults = 1
    MaxEdits = 1
    MaxRotations = 1
INVARIANTS
    TypeOK
    RestoresOwnCreation
PROPERTIES
    Converges
\* The watch loop rests when the file does not change.
CHECK_DEADLOCK FALSE
