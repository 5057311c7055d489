\* The timer has a thread of its own: a death is missed.
SPECIFICATION WatchdogSpec
CONSTANTS
    Kind = "lift"
    Modes <- LiftModes
    LIVELINESS = 3
INVARIANT DeathIsNoticed
