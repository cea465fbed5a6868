SPECIFICATION Spec
CONSTANTS
    morning = morning
    evening = evening
    Loads <- MCLoads
    Defects <- MCDefects
    WaitBudget = 4
    RetryInterval = 2
    MaximumReady = 6
INVARIANTS
    DerivedFollowCatalogue
    WaitHonoursBudget
PROPERTIES
    SuccessMeansComplete
CHECK_DEADLOCK FALSE
