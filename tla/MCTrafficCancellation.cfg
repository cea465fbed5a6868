SPECIFICATION Spec
CONSTANTS
    first = first
    second = second
    north = north
    south = south
    Snapshots <- TwoSnapshots
    Tiles <- TwoTiles
    Requests <- SharedTile
    Sizes = {1}
    MaximumEntries = 2
    MaximumBytes = 2
    TTL = 1
    Interval = 2
    Expiries = {0}
    MaximumTime = 2
INVARIANTS
    LiveRequestsFallBack
CHECK_DEADLOCK FALSE
