\* Two clients, whose largest commands together just fit into the byte budget.
CONSTANTS
    c1 = c1
    c2 = c2
    Clients = {c1, c2}
    Databases = {0}
    MAX_CONNECTIONS = 2
    MAX_BACKEND_OPERATIONS = 1
    MAX_IN_FLIGHT_REQUEST_BYTES = 10
    MAX_ARGUMENTS = 2
    MAX_REQUEST_BULK = 1
    MAX_REQUEST_BYTES = 1
    ARGUMENT_SLOT_OVERHEAD_BYTES = 2
    MaxCommands = 1
SYMMETRY Symmetry
SPECIFICATION ProxySpec
INVARIANTS
    MemoryWithinBudget
CHECK_DEADLOCK FALSE
