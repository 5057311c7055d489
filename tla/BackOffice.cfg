\* What an administrator sees and what runs behind it, one part at a time.
SPECIFICATION BackOfficeSpec
CONSTANTS
    Roles = {"a"}
    MaxGets = 2
    MaxPosts = 2
    MaxLoads = 2
    MaxOthers = 1
    Names <- TwoUsers
    First = {"ann"}
    Matches <- UsersFound
    ItemsPerPage = 1
    MaxUserPage = 1
    MaxInputs = 2
    MaxQueries = 2
    MaxChanges = 1
    RoleNames = {"r1", "r2"}
    Perms = {"p"}
    MaxRoleGets = 2
    MaxPermGets = 2
    MaxMounts = 3
    MaxRoleChanges = 1
    ReportKinds = {"all", "health"}
    FirstReport = "all"
    ReportLimit = 2
    PageSizes = {1, 2}
    DefaultSize = 1
    FirstRow <- TwoRowsBefore
    MaxRow = 1
    FromDates <- FromTheFirst
    MaxReportAsks = 3
    MaxSwitches = 1
    MaxLines = 3
    MaxTries = 2
    RobotModels = {"m1", "m2"}
    MaxFaults = 1
    Kind = "lift"
    Modes <- LiftModes
    LIVELINESS = 3
INVARIANTS BackOfficeTypeOK UserPageIsSound RoleListIsSound ReportsAreSound IntakeIsSound
INVARIANTS AlarmIsTrue HealthIsCurrent ModeIsCurrent
PROPERTIES UserListIsSound EveryLineEnds
CHECK_DEADLOCK FALSE
