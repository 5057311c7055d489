\* A lift request with the type that was picked in the form.
SPECIFICATION PanelsSpec
CONSTANTS
    LiftsOf <- OneLift
    LiftLevels <- ItsLevels
    Columns = {0, 1}
    MaxLiftPicks = 1
INVARIANT LiftRequestAsPicked
CHECK_DEADLOCK FALSE
