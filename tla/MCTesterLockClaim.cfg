\* The claim of the comment on stale-lock recovery.
CONSTANTS
    Process = {p1, p2, p3}
    Absent = Absent
SPECIFICATION Spec
PROPERTIES
    RecoveryClaimsExactRecord
CHECK_DEADLOCK FALSE
