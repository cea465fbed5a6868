SPECIFICATION Spec
CONSTANTS
    busA = busA
    busB = busB
    route = route
    other = other
    routeReloaded = routeReloaded
    Vehicles <- MCVehicles
    Pairs <- MCPairs
    Scopes <- ManyScopes
    VersionOf <- MCVersionOf
    Catalogues <- ManyCatalogues
    MaximumAge = 2
    MaximumFutureSkew = 1
    MissingCaptureTolerance = 1
    DistanceMeters = 2
    MaximumTime = 4
INVARIANTS
    NoSampleReuse
    NoStaleOpen
    ClosureWithinEvidence
PROPERTIES
    ClosedForGood
    SamplesNeedBothUnits
CHECK_DEADLOCK FALSE
