\* One listener, reads of the database that may fail, under fairness.
SPECIFICATION FairSpec
CONSTANTS
    door = door
    one = one
    two = two
    Paths <- DoorPaths
    Listeners <- OneListener
    PathOf <- OneOf
    MaxVer = 2
    MaxReq = 2
    MaxConn = 1
    WatchMayFail = TRUE
INVARIANTS UnsubscribedIsSilent
PROPERTIES EveryEventArrives UnsubscribeEnds
CHECK_DEADLOCK FALSE
