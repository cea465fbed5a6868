SPECIFICATION Spec
CONSTANTS
    morning = morning
    evening = evening
    Loads <- MCLoads
    Defects <- MCDefects
    WaitBudget = 4
    RetryInterval = 2
    MaximumReady = 6
INVARIANTS
    MigratedDatabasesReload
CHECK_DEADLOCK FALSE
