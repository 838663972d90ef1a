\* The deadlines of the source, in seconds; three arguments are six reads of up
\* to five seconds, more than the idle timeout.
CONSTANTS
    CLIENT_IDLE_TIMEOUT = 20
    CLIENT_READ_TIMEOUT = 5
    CLIENT_WRITE_TIMEOUT = 2
    RESP_TIMEOUT = 5
    MAX_ARGUMENTS = 3
SPECIFICATION Spec
INVARIANTS
    ReservationAgeBounded
    PermitAgeBounded
