\* Three RESP clients and two connections: two are served while the third is
\* refused; two HTTP peers wait for one connection; one backend permit.  No
\* symmetry, because the run checks liveness.
CONSTANTS
    c1 = c1
    c2 = c2
    c3 = c3
    h1 = h1
    h2 = h2
    Clients = {c1, c2, c3}
    HttpClients = {h1, h2}
    Databases = {0}
    MAX_CONNECTIONS = 2
    MAX_HTTP_CONNECTIONS = 1
    MAX_BACKEND_OPERATIONS = 1
    MAX_IN_FLIGHT_REQUEST_BYTES = 3
    MAX_ARGUMENTS = 1
    MAX_REQUEST_BULK = 1
    MAX_REQUEST_BYTES = 1
    ARGUMENT_SLOT_OVERHEAD_BYTES = 2
    MaxCommands = 1
    MaxKeyOperations = 2
SPECIFICATION FairAloneSpec
PROPERTIES
    BackendPermitReleased
    BacklogServed
    ShutdownObserved
    HttpOperationEnds
    HttpBacklogServed
    HttpDrained
CHECK_DEADLOCK FALSE
