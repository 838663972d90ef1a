\* The durations of the source in half seconds.
CONSTANTS
    STARTUP_TIMEOUT = 30
    RESP_TIMEOUT = 10
    SHUTDOWN_TIMEOUT = 10
    KILL_REAP_TIMEOUT = 1
    SERVICE_SHUTDOWN_TIMEOUT = 2
    SERVICE_ABORT_REAP_TIMEOUT = 1
SPECIFICATION Spec
INVARIANTS
    UnsolicitedExitFails
\* The launcher exits.
CHECK_DEADLOCK FALSE
