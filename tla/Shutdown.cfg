\* The lifespan event alone runs on_shutdown.
SPECIFICATION FairShutdownSpec
CONSTANTS
    ros = ros
    timer = timer
    NoThread = NoThread
    map = map
    health = health
    fleet = fleet
    fleetRow = fleetRow
    robotRow = robotRow
    healthRow = healthRow
    Threads <- MCThreads
    Keys <- MCKeys
    Rows <- MCRows
    RowSets <- MCRowSets
    Publishers <- MCPublishers
    MaxVer = 1
    MaxEvents <- MCEvents
    PoolSize = 1
    Runners = {"event"}
    spinThread = ros
INVARIANTS ClosedGracefully
PROPERTIES ShutdownEnds
CHECK_DEADLOCK FALSE
