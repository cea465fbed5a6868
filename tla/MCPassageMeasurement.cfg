SPECIFICATION Spec
CONSTANTS
    LengthMeters = 5
    NominalMeters = 2
    MaximumGap = 2
    MaximumSpeed = 4
    Version = "shape"
    Hour = 2
    HoursADay = 2
    Batches <- SomeBatches
INVARIANTS
    NoTrajectoryLost
    EntriesEndOnce
    PassagesAreSupported
    SequencesAgree
    ReportAddsUp
