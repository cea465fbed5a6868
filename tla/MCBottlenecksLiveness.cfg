SPECIFICATION FairSpec
CONSTANTS
    v = v
    w = w
    one = one
    two = two
    MissingCaptureLimit = 2
    Vehicles <- TwoVehicles
    Scopes <- TwoScopes
    CatalogueStates <- Reloads
    DayLength = 1
    RetentionDays = 2
    RawRetentionDays = 2
    ClockSlip = 0
    StorageSkew = 1
    MaximumTime = 4
    MaximumCaptures = 2
    Deliveries <- PairDeliveries
INVARIANTS
    NoCaptureSkipped
PROPERTIES
    CheckpointCatchesUp
