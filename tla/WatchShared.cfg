\* Two listeners share a path: one watch outlives both unsubscribes.
SPECIFICATION Spec
CONSTANTS
    door = door
    one = one
    two = two
    Paths <- DoorPaths
    Listeners <- TwoListeners
    PathOf <- DoorOf
    MaxVer = 1
    MaxReq = 2
    MaxConn = 1
    WatchMayFail = FALSE
INVARIANT UnsubscribedIsSilent
SYMMETRY Symmetry
CHECK_DEADLOCK FALSE
