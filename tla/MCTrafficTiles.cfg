SPECIFICATION FairSpec
CONSTANTS
    first = first
    second = second
    north = north
    south = south
    Snapshots <- TwoSnapshots
    Tiles <- TwoTiles
    Requests <- SharedTile
    Sizes = {1, 2}
    MaximumEntries = 2
    MaximumBytes = 2
    TTL = 1
    Interval = 1
    Expiries = {1}
    MaximumTime = 1
INVARIANTS
    SingleFlight
    InvalidTilesLeave
    CacheWithinLimits
    RateLimited
PROPERTIES
    SnapshotsEnd
CHECK_DEADLOCK FALSE
