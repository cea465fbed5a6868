SPECIFICATION Spec
CONSTANTS
    busA = busA
    busB = busB
    busC = busC
    branch = branch
    unmapped = unmapped
    shape = shape
    renamed = renamed
    redrawn = redrawn
    here = here
    there = there
    Vehicles <- MCVehicles
    Pairs <- MCPairs
    Scopes <- MCScopes
    VersionOf <- MCVersionOf
    Branches <- MCBranches
    CatalogueStates <- Reloads
    Spots <- MCSpots
    Metres <- MCMetres
    Batches <- MCBatches
    MaximumAge = 2
    MaximumFutureSkew = 1
    MissingCaptureTolerance = 1
    DistanceMeters = 2
    DayLength = 2
    RetentionDays = 2
    StorageSkew = 1
    MaximumTime = 3
    MaximumCaptures = 3
INVARIANTS
    InsertedRowsAgree
PROPERTIES
    RepeatedAnswerAddsNothing
    FirstRowIsCanonical
    RefusedForRenamesOnly
    ImplementsLifecycle
CHECK_DEADLOCK FALSE
