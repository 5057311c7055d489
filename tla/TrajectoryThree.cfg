\* One manager, four requests, three of them in flight.
SPECIFICATION SocketSpec
CONSTANTS
    trajectories = trajectories
    NoRequest = NoRequest
    Push = Push
    Managers <- OneManager
    MaxSend <- FourCalls
    MaxPush = 0
INVARIANT RepliesMatch
CHECK_DEADLOCK FALSE
