\* What an operator sees, one part at work at a time, under fairness.
SPECIFICATION DashboardSpec
CONSTANTS
    List <- TwoTasks
    Old = {2}
    LastEvent = 2
    PageSize = 1
    MaxPage = 1
    MaxFetches = 2
    MaxRequests = 2
    MaxClicks = 1
    Files <- TaskFiles
    MaxForms = 2
    MaxEdits = 1
    MaxPicks = 2
    MaxSubmissions = 2
    RobotList <- FourRobots
    RobotsPerPage = 2
    MaxRobotAsks = 3
    MaxClicksOnRobot = 2
    MaxNewTasks = 1
    LevelsOf <- MapLevels
    FirstLevel <- MapFirstLevel
    DoorsOf <- MapDoors
    Times = {1, 2}
    DefaultTime = 1
    MaxStates = 1
    MaxInFlight = 3
    LabelCount = 3
    LabelWidth = 2
    LabelHeight = 1
    SourcesOf <- LabelSources
    Scales = {1, 2}
    SearchDepth = 4
    DistLimit = 2
    KnotPoses <- Poses
    KnotVelocities <- Velocities
    Durations = {1, 2}
    MaxKnots = 3
    Grid = 4
    LiftsOf <- MapLifts
    LiftLevels <- LevelsOfLifts
    Columns = {0, 2}
    MaxLiftPicks = 1
    FleetNames <- TwoFleets
    PlacesOf <- FleetPlaces
    DispensersOf <- PlaceDispensers
    LoopNumbers <- Loops
    MaxRequestPicks = 3
    Versions = {9, 10, 11}
    Participants = {"p"}
    RetainCount = 1
    trajectoryManager = trajectoryManager
    negotiationManager = negotiationManager
    NoRequest = NoRequest
    Push = Push
    Managers <- TwoManagers
    MaxSend <- ThreeAndOne
    MaxPush = 1
    MaxTokens = 3
INVARIANTS DashboardTypeOK PageIsTrue FormIsSound MapSettles PathIsSpline
INVARIANTS LiftsAreReachable RequestsAreSound RepliesInOrder
PROPERTIES OnlyStubsGoBack RobotPageIsSound LabelsApart NegotiationsAreKept SessionIsTrue
PROPERTIES EverySubmissionReturns EveryRequestEnds
CHECK_DEADLOCK FALSE
