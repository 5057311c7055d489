\* Two listeners on one door.
SPECIFICATION TwoSpec
CONSTANTS
    door = door
    one = one
    two = two
    Paths <- DoorPaths
    Listeners <- TwoListeners
    PathOf <- DoorOf
    MaxVer = 2
    MaxReq = 2
    MaxConn = 2
    WatchMayFail = FALSE
SYMMETRY Symmetry
INVARIANTS TypeOK FreshOrGap NoListenerStarves
PROPERTIES ImplementsFeed
CHECK_DEADLOCK FALSE
