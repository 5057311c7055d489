--------------------------- MODULE HealthWatchdog --------------------------
(***************************************************************************)
(* The health of one device (packages/api-server/api_server/rmf_io/        *)
(* health_watchdog.py): watch() and on_state() of a door, lift, dispenser, *)
(* ingestor or robot.  The heartbeat operator reports a silence of         *)
(* LIVELINESS, the mode of the last state is mapped to a health, and the   *)
(* more critical of the two is published.                                  *)
(*                                                                         *)
(* States arrive on the spin thread.  A window of the heartbeat is closed  *)
(* by a state, or by a timer after LIVELINESS; the server passes no        *)
(* scheduler (app.py), so the timer has a thread of its own.               *)
(* buffer_with_time_or_count and distinct_until_changed take no lock;      *)
(* combine_latest holds one while it publishes.  A timer whose window is   *)
(* not the current one does nothing when it fires, and arms no other.      *)
(***************************************************************************)
EXTENDS Integers

CONSTANTS
    Kind,        \* the kind of device
    Modes,       \* the modes it reports, known to the watchdog or not
    LIVELINESS   \* in ticks

Kinds == {"door", "lift", "dispenser", "ingestor", "robot"}

ASSUME WatchdogAssumption ==
    /\ Kind \in Kinds
    /\ Modes \subseteq STRING
    /\ LIVELINESS \in Nat \ {0}

HealthyModes ==
    [door      |-> {"CLOSED", "MOVING", "OPEN"},
     lift      |-> {"HUMAN", "AGV"},
     dispenser |-> {"IDLE", "BUSY"},
     ingestor  |-> {"IDLE", "BUSY"},
     robot     |-> {"IDLE", "CHARGING", "MOVING", "PAUSED", "WAITING",
                    "GOING_HOME", "DOCKING"}]

\* Modes with a health_message of their own; any other mode is unknown.
FaultModes ==
    [door      |-> {"OFFLINE"},
     lift      |-> {"FIRE", "EMERGENCY"},
     dispenser |-> {"OFFLINE"},
     ingestor  |-> {"OFFLINE"},
     robot     |-> {"EMERGENCY", "ADAPTER_ERROR"}]

NoState == "none"

\* door_mode_to_health and its siblings.  A health is "HEALTHY", "DEAD" or the
\* message of an UNHEALTHY one; there is none without a state.
ModeToHealth(mode) ==
    CASE mode = NoState               -> NoState
      [] mode \in HealthyModes[Kind] -> "HEALTHY"
      [] mode \in FaultModes[Kind]   -> mode
      [] OTHER                        -> "UNKNOWN"

Faults  == FaultModes[Kind] \cup {"UNKNOWN"}
Healths == {"HEALTHY", "DEAD"} \cup Faults

\* most_critical of the heartbeat health and the mode health, of which None
\* is filtered out.  Two healths of one criticality are both HEALTHY.
MostCritical(alive, ofMode) ==
    IF ~alive THEN "DEAD" ELSE IF ofMode = NoState THEN "HEALTHY" ELSE ofMode

VARIABLES
    watched,   \* the id is in subjects
    last,      \* value of its BehaviorSubject: mode of the last state
    silence,   \* ticks since the last state, no more than Longest
    opener,    \* the thread that opened the current window (window_id)
    armed,     \* the timer that is armed is that of the current window
    left,      \* ticks until it fires, -1 once it found its window gone
    beat,      \* distinct_until_changed: the heartbeat let through last
    alive,     \* combine_latest: the heartbeat
    ofMode,    \* combine_latest and distinct_until_changed: the mode health
    health,    \* the health published last
    spin,      \* what the spin thread does next
    timer,     \* what the timer thread does next
    raced      \* history: a state came while a timer that had found its window
               \* current closed it, and none since that put this right

watchdogVars == <<watched, last, silence, opener, armed, left, beat, alive,
                  ofMode, health, spin, timer, raced>>
device   == <<watched, last, silence, raced>>
clock    == <<armed, left>>
combined == <<alive, ofMode, health>>

Longest == 2 * LIVELINESS + 1

WatchdogTypeOK ==
    /\ watched \in BOOLEAN /\ raced \in BOOLEAN
    /\ last \in Modes \cup {NoState}
    /\ silence \in 0 .. Longest
    /\ opener \in {"spin", "timer"} /\ armed \in BOOLEAN
    /\ left \in -1 .. LIVELINESS
    /\ beat \in BOOLEAN /\ alive \in BOOLEAN
    /\ ofMode \in Faults \cup {"HEALTHY", NoState}
    /\ health \in Healths
    /\ spin \in {"idle", "combine", "arm", "mode"}
    /\ timer \in {"sleep", "checked", "combine", "arm"}

WatchdogInit ==
    /\ watched = FALSE /\ last = NoState /\ silence = 0
    /\ opener = "spin" /\ armed = TRUE /\ left = LIVELINESS
    /\ beat = TRUE /\ alive = TRUE /\ ofMode = NoState /\ health = "HEALTHY"
    /\ spin = "idle" /\ timer = "sleep" /\ raced = FALSE

-----------------------------------------------------------------------------
\* watch(): at start(), over the state in the database or None, or in
\* on_state() at the first state.  The BehaviorSubject replays its value, None
\* too, and that counts as a heartbeat.  Doors and lifts of the map may have no
\* state yet, robots start with None, dispensers and ingestors never do.
WatchDevice(mode) ==
    /\ ~watched
    /\ mode = NoState => Kind \in {"door", "lift", "robot"}
    /\ watched' = TRUE
    /\ last' = mode
    /\ silence' = 0
    /\ left' = LIVELINESS
    /\ ofMode' = ModeToHealth(mode)
    /\ health' = MostCritical(TRUE, ModeToHealth(mode))
    /\ UNCHANGED <<opener, armed, beat, alive, spin, timer, raced>>

\* Time passes; handling a state or a timer takes less than a tick, and a
\* timer is not late.
Tick ==
    /\ watched /\ spin = "idle" /\ timer = "sleep" /\ left # 0
    /\ silence' = IF silence < Longest THEN silence + 1 ELSE silence
    /\ left' = IF left > 0 THEN left - 1 ELSE left
    /\ UNCHANGED <<watched, last, opener, armed, beat, combined, spin, timer, raced>>

-----------------------------------------------------------------------------
(* The spin thread: on_state() for a watched device.                       *)

\* The state fills the window, which closes with a heartbeat; another opens.
State(mode) ==
    /\ watched /\ spin = "idle"
    /\ last' = mode /\ silence' = 0
    /\ opener' = "spin" /\ armed' = FALSE
    /\ beat' = TRUE
    /\ spin' = IF beat THEN "arm" ELSE "combine"
    /\ raced' = (timer # "sleep" \/ (raced /\ beat /\ ~alive))
    /\ UNCHANGED <<watched, left, combined, timer>>

\* combine_latest, under its lock: the mode is still that of the state before.
SpinCombine ==
    /\ spin = "combine"
    /\ alive' = TRUE
    /\ health' = MostCritical(TRUE, ofMode)
    /\ spin' = "arm"
    /\ UNCHANGED <<device, opener, clock, beat, ofMode, timer>>

\* Mutant: a state leaves the timer running (buffer_with_time).
SpinArmKeeps ==
    /\ spin = "arm"
    /\ armed' = (opener = "spin")
    /\ spin' = "mode"
    /\ UNCHANGED <<device, opener, left, beat, combined, timer>>

\* The timer of the window is armed, the one before it is cancelled.
SpinArm ==
    /\ spin = "arm"
    /\ armed' = (opener = "spin") /\ left' = LIVELINESS
    /\ spin' = "mode"
    /\ UNCHANGED <<device, opener, beat, combined, timer>>

\* Mutant: healths of the same status are not distinct.
SpinModeByStatus ==
    /\ spin = "mode"
    /\ LET new == ModeToHealth(last) IN
          IF (new \in Faults) = (ofMode \in Faults)
          THEN UNCHANGED combined
          ELSE ofMode' = new /\ health' = MostCritical(alive, new) /\ UNCHANGED alive
    /\ spin' = "idle"
    /\ UNCHANGED <<device, opener, clock, beat, timer>>

\* Mutant: a change of the mode waits for the next heartbeat to be published.
SpinModeSilent ==
    /\ spin = "mode"
    /\ ofMode' = ModeToHealth(last)
    /\ spin' = "idle"
    /\ UNCHANGED <<device, opener, clock, beat, alive, health, timer>>

\* The second pipeline on the subject: a mode health that changed is combined.
SpinMode ==
    /\ spin = "mode"
    /\ ofMode' = ModeToHealth(last)
    /\ health' = IF ofMode' = ofMode THEN health ELSE MostCritical(alive, ofMode')
    /\ spin' = "idle"
    /\ UNCHANGED <<device, opener, clock, beat, alive, timer>>

-----------------------------------------------------------------------------
(* The timer.                                                              *)

\* It fires: its window is the current one, or there is nothing to do.
TimerFires ==
    /\ watched /\ timer = "sleep" /\ left = 0
    /\ left' = -1
    /\ timer' = IF armed THEN "checked" ELSE "sleep"
    /\ UNCHANGED <<device, opener, armed, beat, combined, spin>>

\* The current window closes: no heartbeat.
TimerCloses ==
    /\ timer = "checked"
    /\ opener' = "timer" /\ armed' = FALSE
    /\ beat' = FALSE
    /\ timer' = IF beat THEN "combine" ELSE "arm"
    /\ UNCHANGED <<device, left, combined, spin>>

TimerCombine ==
    /\ timer = "combine"
    /\ alive' = FALSE
    /\ health' = MostCritical(FALSE, ofMode)
    /\ timer' = "arm"
    /\ UNCHANGED <<device, opener, clock, beat, ofMode, spin>>

TimerArm ==
    /\ timer = "arm"
    /\ armed' = (opener = "timer") /\ left' = LIVELINESS
    /\ timer' = "sleep"
    /\ UNCHANGED <<device, opener, beat, combined, spin>>

-----------------------------------------------------------------------------
SpinThread ==
    (\E mode \in Modes : State(mode)) \/ SpinCombine \/ SpinArm \/ SpinMode

TimerThread == TimerFires \/ TimerCloses \/ TimerCombine \/ TimerArm

WatchdogNext ==
    \/ \E mode \in Modes \cup {NoState} : WatchDevice(mode)
    \/ Tick \/ SpinThread \/ TimerThread

WatchdogSpec == WatchdogInit /\ [][WatchdogNext]_watchdogVars

-----------------------------------------------------------------------------
(* Properties.                                                             *)

\* A device that is silent for more than twice LIVELINESS is DEAD (heartbeat.py:
\* "an observable may stay alive for up to 2x liveliness between each event").
DeathIsNoticed == silence > 2 * LIVELINESS => health = "DEAD"

\* No missed death: a device that is silent for more than LIVELINESS is DEAD, be it
\* one whose state was never heard, or one that came back and went away again, as
\* long as no state comes between the check of a timer and its end.  After one that
\* does, it may take until the next state, or for good.
SilenceIsNoticed == ~raced /\ silence > LIVELINESS => health = "DEAD"

\* No false alarm either: a device is DEAD only after LIVELINESS without a state.
\* After such a race a device that is heard of may be DEAD until it is silent once.
DeadMeansSilent ==
    ~raced /\ spin = "idle" /\ health = "DEAD" => silence >= LIVELINESS

\* The alarm is true, but for that race of the two threads.
AlarmIsTrue == SilenceIsNoticed /\ DeadMeansSilent

\* Between two states, what was published last is the more critical of the silence
\* and the mode, although each half is filtered by its own distinct_until_changed
\* and a state is published half by half, but for that race.
HealthIsCurrent ==
    ~raced /\ watched /\ spin = "idle" /\ timer = "sleep" =>
        LET due == silence = LIVELINESS /\ left = 0  \* the timer is about to fire
        IN  health = MostCritical(silence < LIVELINESS \/ due, ModeToHealth(last))

\* However the two threads interleave, a device that is not DEAD shows the
\* health of its last mode, never that of an older state.
ModeIsCurrent ==
    watched /\ spin = "idle" /\ health # "DEAD" =>
        health = MostCritical(TRUE, ModeToHealth(last))
=============================================================================
