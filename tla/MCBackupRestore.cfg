CONSTANTS
    Host <- MCHost
    Retention = 1
    MaxWrites = 2
    MaxRuns = 3
SPECIFICATION Spec
INVARIANTS
    TypeOK
    SuccessMeansRestored
PROPERTIES
    DataNeverLost
\* Writes, backups and restores are bounded.
CHECK_DEADLOCK FALSE
