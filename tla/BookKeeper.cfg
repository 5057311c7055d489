\* Two publishing threads, a fleet and a health, one connection (sqlite),
\* under fairness.
SPECIFICATION FairSpec
CONSTANTS
    ros = ros
    timer = timer
    NoThread = NoThread
    fleet = fleet
    health = health
    fleetRow = fleetRow
    robotRow = robotRow
    healthRow = healthRow
    Threads <- TwoThreads
    Keys <- BothKeys
    Rows <- BothRows
    RowSets <- BothRowSets
    Publishers <- BothPublishers
    MaxVer = 2
    MaxEvents <- BothEvents
    PoolSize = 1
INVARIANTS TypeOK RowsAreLatest FleetRowsAgree StopIsSound
PROPERTIES StopReturns EveryTaskEnds
CHECK_DEADLOCK FALSE
