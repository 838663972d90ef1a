CONSTANTS
    Host <- MCLocalHost
    Retention = 1
    MaxWrites = 2
    MaxRuns = 1
SPECIFICATION Spec
INVARIANTS
    CompletedBackupSucceeds
CHECK_DEADLOCK FALSE
