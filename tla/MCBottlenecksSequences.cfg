SPECIFICATION Spec
CONSTANTS
    v = v
    w = w
    one = one
    two = two
    MissingCaptureLimit = 2
    Vehicles <- OneVehicle
    Scopes <- TwoScopes
    CatalogueStates <- BothScopes
    DayLength = 9
    RetentionDays = 1
    RawRetentionDays = 1
    ClockSlip = 1
    StorageSkew = 1
    MaximumTime = 2
    MaximumCaptures = 4
    Deliveries <- MixedDeliveries
INVARIANTS
    EvidenceIsSource
    AbsencesAreConsecutive
    StatesRecover
    SourceStaysComplete
PROPERTIES
    ImplementsLog
