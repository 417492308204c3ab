\* Two clients and a migration on three rows of two servers, with an edit by
\* hand or a crash.
SPECIFICATION Spec
CONSTANTS
    a = a
    b = b
    x = x
    y = y
    k = k
    Client = {c1, c2}
    ServerName = {a, b}
    DbName = {x, y}
    SecretName = {k}
    NoName = NoName
    NoSecret = NoSecret
    Unreadable = Unreadable
    Initial <- TwoServers
    NRows = 3
    SecretsMode = TRUE
    MaxRequests = 2
    MaxUpsets = 1
SYMMETRY Clients
INVARIANTS
    TypeOK
    SharedThroughTombstone
PROPERTIES
    NoLostUpdate
    FormsHitTheirRow
    IndicesHold
    ImplementsRegister
\* Requests are bounded.
CHECK_DEADLOCK FALSE
