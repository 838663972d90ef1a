\* Three RESP clients and two connections, two HTTP peers and two connections,
\* two backend permits, and a byte budget that two commands of the largest size
\* exceed.
CONSTANTS
    c1 = c1
    c2 = c2
    c3 = c3
    h1 = h1
    h2 = h2
    Clients = {c1, c2, c3}
    HttpClients = {h1, h2}
    Databases = {0, 1}
    MAX_CONNECTIONS = 2
    MAX_HTTP_CONNECTIONS = 2
    MAX_BACKEND_OPERATIONS = 2
    MAX_IN_FLIGHT_REQUEST_BYTES = 6
    MAX_ARGUMENTS = 2
    MAX_REQUEST_BULK = 1
    MAX_REQUEST_BYTES = 1
    ARGUMENT_SLOT_OVERHEAD_BYTES = 2
    MaxCommands = 3
    MaxKeyOperations = 2
SYMMETRY Symmetry
SPECIFICATION JointSpec
INVARIANTS
    ProxyTypeOK
    ByteBudgetConserved
    BuffersCovered
    ReservationScoped
    RepliesMatch
    SessionPreserved
    PermitsConserved
PROPERTIES
    PoolsImplemented
CHECK_DEADLOCK FALSE
