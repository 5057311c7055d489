\* A signal: its handler and the lifespan event both run on_shutdown.
SPECIFICATION ShutdownSpec
CONSTANTS
    ros = ros
    timer = timer
    NoThread = NoThread
    map = map
    health = health
    fleet = fleet
    fleetRow = fleetRow
    robotRow = robotRow
    healthRow = healthRow
    Threads <- MCThreads
    Keys <- MCKeys
    Rows <- MCRows
    RowSets <- MCRowSets
    Publishers <- MCPublishers
    MaxVer = 1
    MaxEvents <- MCEvents
    PoolSize = 1
    Runners = {"event", "signal"}
    spinThread = ros
INVARIANT ClosedGracefully
CHECK_DEADLOCK FALSE
