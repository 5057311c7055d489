\* Two connections (a postgres pool), one publishing thread.
SPECIFICATION Spec
CONSTANTS
    ros = ros
    timer = timer
    NoThread = NoThread
    fleet = fleet
    health = health
    fleetRow = fleetRow
    robotRow = robotRow
    healthRow = healthRow
    Threads <- OneThread
    Keys <- FleetKeys
    Rows <- FleetRows
    RowSets <- FleetRowSets
    Publishers <- FleetPublishers
    MaxVer = 2
    MaxEvents <- FleetEvents
    PoolSize = 2
INVARIANT RowsAreLatest
CHECK_DEADLOCK FALSE
