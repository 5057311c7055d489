------------------------ MODULE HealthWatchdogProofs -----------------------
(* Proofs about HealthWatchdog, for any kind of device, any modes and any  *)
(* LIVELINESS.                                                             *)
EXTENDS HealthWatchdog, TLAPS

ModeHealths == Faults \cup {"HEALTHY", NoState}

\* health_watchdog.py, the *_mode_to_health functions: no mode of a device is
\* reported as DEAD, so DEAD always comes from the heartbeat.
LEMMA ModeHealth ==
    /\ \A mode \in Modes \cup {NoState} : ModeToHealth(mode) \in ModeHealths
    /\ "DEAD" \notin ModeHealths
<1>1. "DEAD" \notin FaultModes[Kind]
  BY WatchdogAssumption DEF Kinds, FaultModes
<1>2. \A mode \in Modes \cup {NoState} : ModeToHealth(mode) \in ModeHealths
  BY DEF ModeToHealth, ModeHealths, Faults
<1> QED
  BY <1>1, <1>2 DEF ModeHealths, Faults, NoState

\* operators/health.py most_critical of a heartbeat and a mode health: DEAD
\* exactly without the heartbeat.
LEMMA Critical ==
    ASSUME NEW m \in ModeHealths
    PROVE  /\ MostCritical(FALSE, m) = "DEAD"
           /\ MostCritical(TRUE, m) \in Healths
           /\ MostCritical(TRUE, m) # "DEAD"
BY ModeHealth DEF MostCritical, Healths, ModeHealths, NoState

\* WatchdogTypeOK in two parts: what the clock counts, and the rest.
CountersOK == silence \in 0 .. Longest /\ left \in -1 .. LIVELINESS

ValuesOK ==
    /\ watched \in BOOLEAN /\ raced \in BOOLEAN /\ armed \in BOOLEAN
    /\ beat \in BOOLEAN /\ alive \in BOOLEAN /\ opener \in {"spin", "timer"}
    /\ last \in Modes \cup {NoState}
    /\ ofMode \in ModeHealths
    /\ health \in Healths
    /\ spin \in {"idle", "combine", "arm", "mode"}
    /\ timer \in {"sleep", "checked", "combine", "arm"}

\* heartbeat.py: the counters of the silence and the timer stay in range.
LEMMA CountersStep ==
    ASSUME CountersOK, [WatchdogNext]_watchdogVars PROVE CountersOK'
<1> USE WatchdogAssumption DEF CountersOK, Longest
<1>2. ASSUME NEW mode \in Modes \cup {NoState}, WatchDevice(mode) PROVE CountersOK'
  BY <1>2 DEF WatchDevice
<1>3. CASE Tick
  BY <1>3 DEF Tick
<1>4. ASSUME NEW mode \in Modes, State(mode) PROVE CountersOK'
  BY <1>4 DEF State
<1>5. CASE SpinCombine
  BY <1>5 DEF SpinCombine, device, clock
<1>6. CASE SpinArm
  BY <1>6 DEF SpinArm, device
<1>7. CASE SpinMode
  BY <1>7 DEF SpinMode, device, clock
<1>8. CASE TimerFires
  BY <1>8 DEF TimerFires, device
<1>9. CASE TimerCloses
  BY <1>9 DEF TimerCloses, device
<1>10. CASE TimerCombine
  BY <1>10 DEF TimerCombine, device, clock
<1>11. CASE TimerArm
  BY <1>11 DEF TimerArm, device
<1>12. CASE UNCHANGED watchdogVars
  BY <1>12 DEF watchdogVars, device, clock
<1> QED
  BY <1>2, <1>3, <1>4, <1>5, <1>6, <1>7, <1>8, <1>9, <1>10, <1>11, <1>12
     DEF WatchdogNext, SpinThread, TimerThread

\* watch() and on_state(): what the pipelines hold is a health, never an
\* exception of most_critical.
LEMMA ValuesStep ==
    ASSUME ValuesOK, [WatchdogNext]_watchdogVars PROVE ValuesOK'
<1>1. \A m \in ModeHealths, b \in BOOLEAN : MostCritical(b, m) \in Healths
  BY Critical DEF Healths
<1> USE DEF ValuesOK
<1>2. ASSUME NEW mode \in Modes \cup {NoState}, WatchDevice(mode) PROVE ValuesOK'
  BY <1>2, <1>1, ModeHealth DEF WatchDevice
<1>3. CASE Tick
  BY <1>3 DEF Tick, combined
<1>4. ASSUME NEW mode \in Modes, State(mode) PROVE ValuesOK'
  BY <1>4 DEF State, combined
<1>5. CASE SpinCombine
  <2>1. /\ UNCHANGED <<watched, raced, armed, beat, opener, last, ofMode, timer>>
        /\ alive' = TRUE /\ spin' = "arm" /\ health' = MostCritical(TRUE, ofMode)
    BY <1>5 DEF SpinCombine, device, clock
  <2>2. health' \in Healths
    BY <1>1, <2>1
  <2>3. alive' \in BOOLEAN
    BY <2>1, Zenon
  <2> QED
    BY <2>1, <2>2, <2>3
<1>6. CASE SpinArm
  BY <1>6 DEF SpinArm, device, combined
<1>7. CASE SpinMode
  <2>1. /\ UNCHANGED <<watched, raced, armed, beat, alive, opener, last, timer>>
        /\ spin' = "idle" /\ ofMode' = ModeToHealth(last)
        /\ health' = health \/ health' = MostCritical(alive, ofMode')
    BY <1>7 DEF SpinMode, device, clock
  <2>2. ofMode' \in ModeHealths
    BY <2>1, ModeHealth
  <2>3. health' \in Healths
    BY <1>1, <2>1, <2>2
  <2> QED
    BY <2>1, <2>2, <2>3
<1>8. CASE TimerFires
  BY <1>8 DEF TimerFires, device, combined
<1>9. CASE TimerCloses
  BY <1>9 DEF TimerCloses, device, combined
<1>10. CASE TimerCombine
  <2>1. /\ UNCHANGED <<watched, raced, armed, beat, opener, last, ofMode, spin>>
        /\ alive' = FALSE /\ timer' = "arm" /\ health' = MostCritical(FALSE, ofMode)
    BY <1>10 DEF TimerCombine, device, clock
  <2>2. health' \in Healths
    BY <1>1, <2>1
  <2>3. alive' \in BOOLEAN
    BY <2>1, Zenon
  <2> QED
    BY <2>1, <2>2, <2>3
<1>11. CASE TimerArm
  BY <1>11 DEF TimerArm, device, combined
<1>12. CASE UNCHANGED watchdogVars
  BY <1>12 DEF watchdogVars, device, combined
<1> QED
  BY <1>2, <1>3, <1>4, <1>5, <1>6, <1>7, <1>8, <1>9, <1>10, <1>11, <1>12
     DEF WatchdogNext, SpinThread, TimerThread

\* Every value has its type in every reachable state of the watchdog, and
\* what the pipelines of health_watchdog.py and heartbeat.py publish is a health.
THEOREM TypeCorrect == WatchdogSpec => []WatchdogTypeOK
<1>1. WatchdogInit => CountersOK
  BY WatchdogAssumption DEF WatchdogInit, CountersOK, Longest
<1>2. WatchdogInit => ValuesOK
  BY DEF WatchdogInit, ValuesOK, Healths, ModeHealths
<1>3. CountersOK /\ ValuesOK => WatchdogTypeOK
  BY DEF CountersOK, ValuesOK, WatchdogTypeOK, ModeHealths
<1> QED
  BY <1>1, <1>2, <1>3, CountersStep, ValuesStep, PTL DEF WatchdogSpec

-----------------------------------------------------------------------------
(* However the spin thread and the timer interleave.                       *)

\* What was published combines the mode half as it is now; that half lags
\* behind the last state only while the spin thread is at work.
ModeInv ==
    /\ watched => health \in {"DEAD", MostCritical(TRUE, ofMode)}
    /\ watched /\ spin = "idle" => ofMode = ModeToHealth(last)

\* SpinMode and the two combine steps (health_watchdog.py:71-75) are the only
\* ones that publish, each with the mode half it has just read.
LEMMA ModeStep ==
    ASSUME ValuesOK, ModeInv, [WatchdogNext]_watchdogVars PROVE ModeInv'
<1>1. \A m \in ModeHealths, b \in BOOLEAN :
         MostCritical(b, m) \in {"DEAD", MostCritical(TRUE, m)}
  BY Critical
<1>2. ofMode \in ModeHealths /\ alive \in BOOLEAN /\ ModeToHealth(last) \in ModeHealths
  BY ModeHealth DEF ValuesOK
<1> USE DEF ModeInv
<1>3. ASSUME NEW mode \in Modes \cup {NoState}, WatchDevice(mode) PROVE ModeInv'
  BY <1>3 DEF WatchDevice
<1>4. CASE Tick
  BY <1>4 DEF Tick, combined
<1>5. ASSUME NEW mode \in Modes, State(mode) PROVE ModeInv'
  BY <1>5 DEF State, combined
<1>6. CASE SpinCombine
  BY <1>6 DEF SpinCombine, device
<1>7. CASE SpinArm
  BY <1>7 DEF SpinArm, device, combined
<1>8. CASE SpinMode
  BY <1>8, <1>1, <1>2 DEF SpinMode, device
<1>9. CASE TimerFires
  BY <1>9 DEF TimerFires, device, combined
<1>10. CASE TimerCloses
  BY <1>10 DEF TimerCloses, device, combined
<1>11. CASE TimerCombine
  BY <1>11, <1>1, <1>2 DEF TimerCombine, device
<1>12. CASE TimerArm
  BY <1>12 DEF TimerArm, device, combined
<1>13. CASE UNCHANGED watchdogVars
  BY <1>13 DEF watchdogVars, device, combined
<1> QED
  BY <1>3, <1>4, <1>5, <1>6, <1>7, <1>8, <1>9, <1>10, <1>11, <1>12, <1>13
     DEF WatchdogNext, SpinThread, TimerThread

\* Both threads of the watchdog, in any order: a device that is not DEAD shows
\* the health of its last mode.
THEOREM ModeStaysCurrent == WatchdogSpec => []ModeIsCurrent
<1>1. WatchdogInit => ModeInv
  BY DEF WatchdogInit, ModeInv
<1>2. WatchdogInit => ValuesOK
  BY DEF WatchdogInit, ValuesOK, Healths, ModeHealths
<1>3. ModeInv => ModeIsCurrent
  BY DEF ModeInv, ModeIsCurrent
<1> QED
  BY <1>1, <1>2, <1>3, ModeStep, ValuesStep, PTL DEF WatchdogSpec

-----------------------------------------------------------------------------
(* Where no state comes between the check of a timer and its end.          *)

Rest == spin = "idle" /\ timer = "sleep"

\* The device is heard of, or a window has closed without it.
BeatIsSilence ==
    /\ beat => silence = LIVELINESS - left
    /\ ~beat => silence >= LIVELINESS
    /\ ~beat /\ left < LIVELINESS => silence > LIVELINESS

\* What is published is what both halves say, under any interleaving.
BothHalves ==
    /\ ~watched => /\ beat /\ alive /\ armed /\ silence = 0 /\ left = LIVELINESS
                   /\ Rest /\ ~raced /\ health = "HEALTHY"
    /\ watched => health = MostCritical(alive, ofMode)

\* Unless the threads raced, the armed timer is the one of the current window
\* between two steps, and the half of the heartbeat is what it says; within a state
\* or a timer each step has done its part.
QuietInv == ~raced =>
    /\ spin # "idle" => /\ timer = "sleep" /\ beat /\ silence = 0 /\ opener = "spin"
                        /\ spin # "combine" => alive
    /\ spin \in {"combine", "arm"} => ~armed
    /\ spin = "mode" => armed /\ left = LIVELINESS
    /\ timer = "checked" => /\ armed /\ left = -1 /\ (beat <=> alive)
                            /\ beat => silence = LIVELINESS
                            /\ ~beat => silence > LIVELINESS
    /\ timer = "combine" => ~beat /\ opener = "timer" /\ silence = LIVELINESS
    /\ timer = "arm" => ~beat /\ ~alive /\ opener = "timer" /\ silence >= LIVELINESS
    /\ Rest => armed /\ left >= 0 /\ (beat <=> alive) /\ BeatIsSilence

\* Each of the steps that publish takes the other half as it is.
LEMMA HalvesStep ==
    ASSUME CountersOK, ValuesOK, BothHalves, [WatchdogNext]_watchdogVars PROVE BothHalves'
<1> USE DEF BothHalves, Rest
<1>0. beat \in BOOLEAN /\ alive \in BOOLEAN
  BY DEF ValuesOK
<1>1. ASSUME watched', health' = MostCritical(alive', ofMode') PROVE BothHalves'
  BY <1>1
<1>2. ASSUME UNCHANGED <<watched, combined>>, watched PROVE BothHalves'
  BY <1>2 DEF combined
<1>3. ASSUME NEW mode \in Modes \cup {NoState}, WatchDevice(mode) PROVE BothHalves'
  <2>1. alive = TRUE
    BY <1>0, <1>3 DEF WatchDevice
  <2>2. watched' /\ health' = MostCritical(alive', ofMode')
    BY <1>3, <2>1 DEF WatchDevice
  <2> QED
    BY <1>1, <2>2
<1>4. CASE Tick
  BY <1>2, <1>4 DEF Tick
<1>5. ASSUME NEW mode \in Modes, State(mode) PROVE BothHalves'
  BY <1>2, <1>5 DEF State
<1>6. CASE SpinCombine
  <2>1. watched' /\ alive' = TRUE /\ health' = MostCritical(TRUE, ofMode')
    BY <1>6 DEF SpinCombine, device
  <2> QED
    BY <1>1, <2>1
<1>7. CASE SpinArm
  <2>1. watched /\ UNCHANGED <<watched, combined>>
    BY <1>7 DEF SpinArm, device
  <2> QED
    BY <1>2, <2>1
<1>8. CASE SpinMode
  <2>1. watched /\ watched' /\ alive' = alive
    BY <1>8 DEF SpinMode, device
  <2>2. health' = MostCritical(alive, ofMode')
    BY <1>8, <2>1 DEF SpinMode
  <2> QED
    BY <1>1, <2>1, <2>2
<1>9. CASE TimerFires
  <2>1. watched /\ UNCHANGED <<watched, combined>>
    BY <1>9 DEF TimerFires, device
  <2> QED
    BY <1>2, <2>1
<1>10. CASE TimerCloses
  <2>1. watched /\ UNCHANGED <<watched, combined>>
    BY <1>10 DEF TimerCloses, device
  <2> QED
    BY <1>2, <2>1
<1>11. CASE TimerCombine
  <2>1. watched' /\ alive' = FALSE /\ health' = MostCritical(FALSE, ofMode')
    BY <1>11 DEF TimerCombine, device
  <2> QED
    BY <1>1, <2>1
<1>12. CASE TimerArm
  <2>1. watched /\ UNCHANGED <<watched, combined>>
    BY <1>12 DEF TimerArm, device
  <2> QED
    BY <1>2, <2>1
<1>13. CASE UNCHANGED watchdogVars
  BY <1>13 DEF watchdogVars, device, combined, clock
<1> QED
  BY <1>3, <1>4, <1>5, <1>6, <1>7, <1>8, <1>9, <1>10, <1>11, <1>12, <1>13
     DEF WatchdogNext, SpinThread, TimerThread

\* What QuietInv says on the way from one rest to the next: one state, or one
\* timer, of heartbeat.py and health_watchdog.py.
LEMMA QuietStep ==
    ASSUME CountersOK, ValuesOK, BothHalves, QuietInv, [WatchdogNext]_watchdogVars
    PROVE  QuietInv'
<1> USE WatchdogAssumption DEF QuietInv, Rest, BeatIsSilence, CountersOK, Longest
<1>0. beat \in BOOLEAN /\ alive \in BOOLEAN /\ armed \in BOOLEAN /\ raced \in BOOLEAN
  BY DEF ValuesOK
<1>3. ASSUME NEW mode \in Modes \cup {NoState}, WatchDevice(mode) PROVE QuietInv'
  BY <1>3, <1>0 DEF WatchDevice, BothHalves
<1>4. CASE Tick
  BY <1>4, <1>0 DEF Tick, combined
<1>5. ASSUME NEW mode \in Modes, State(mode) PROVE QuietInv'
  <2> SUFFICES ASSUME ~raced' PROVE QuietInv'
    OBVIOUS
  <2>1. timer = "sleep" /\ (raced /\ beat => alive)
    BY <1>5 DEF State
  <2>2. beat => alive
    BY <1>0, <1>5, <2>1 DEF State
  <2>3. /\ spin' = IF beat THEN "arm" ELSE "combine"
        /\ timer' = "sleep" /\ beat' = TRUE /\ silence' = 0 /\ opener' = "spin"
        /\ armed' = FALSE /\ alive' = alive
    BY <1>5, <2>1 DEF State, combined
  <2> QED
    BY <1>0, <2>2, <2>3
<1>6. CASE SpinCombine
  BY <1>6, <1>0 DEF SpinCombine, device, clock
<1>7. CASE SpinArm
  BY <1>7, <1>0 DEF SpinArm, device, combined
<1>8. CASE SpinMode
  BY <1>8, <1>0 DEF SpinMode, device, clock
<1>9. CASE TimerFires
  <2> SUFFICES ASSUME ~raced PROVE QuietInv'
    BY <1>9 DEF TimerFires, device
  <2>1. /\ UNCHANGED <<watched, last, silence, raced, opener, armed, beat, alive, spin>>
        /\ timer = "sleep" /\ left = 0 /\ left' = -1
    BY <1>9 DEF TimerFires, device, combined
  <2>2. CASE armed
    <3>1. timer' = "checked" /\ spin = "idle"
      BY <1>9, <2>1, <2>2 DEF TimerFires, ValuesOK
    <3>2. /\ beat <=> alive
          /\ beat => silence = LIVELINESS
          /\ ~beat => silence > LIVELINESS
      BY <2>1, <3>1
    <3> QED
      BY <2>1, <2>2, <3>1, <3>2
  <2>3. CASE ~armed
    <3>1. timer' = "sleep" /\ spin \in {"combine", "arm"}
      BY <1>9, <2>1, <2>3 DEF TimerFires, ValuesOK
    <3> QED
      BY <2>1, <2>3, <3>1
  <2> QED
    BY <2>2, <2>3
<1>10. CASE TimerCloses
  BY <1>10, <1>0 DEF TimerCloses, device, combined
<1>11. CASE TimerCombine
  BY <1>11, <1>0 DEF TimerCombine, device, clock
<1>12. CASE TimerArm
  <2> SUFFICES ASSUME ~raced PROVE QuietInv'
    BY <1>12 DEF TimerArm, device
  <2>1. timer = "arm" /\ spin = "idle" /\ ~beat /\ ~alive /\ silence >= LIVELINESS
    BY <1>12 DEF TimerArm
  <2>2. armed'
    BY <1>12 DEF TimerArm
  <2>3. /\ UNCHANGED <<silence, raced, opener, beat, alive, spin>>
        /\ timer' = "sleep" /\ left' = LIVELINESS
    BY <1>12 DEF TimerArm, device, combined
  <2> QED
    BY <2>1, <2>2, <2>3
<1>13. CASE UNCHANGED watchdogVars
  BY <1>13 DEF watchdogVars, device, combined, clock
<1> QED
  BY <1>3, <1>4, <1>5, <1>6, <1>7, <1>8, <1>9, <1>10, <1>11, <1>12, <1>13
     DEF WatchdogNext, SpinThread, TimerThread

IInv == CountersOK /\ ValuesOK /\ ModeInv /\ BothHalves /\ QuietInv

\* What both threads of the watchdog keep, and what they keep unless they race.
THEOREM InductiveInvariant == WatchdogSpec => []IInv
<1>1. WatchdogInit => CountersOK /\ ModeInv
  <2>1. WatchdogInit => CountersOK
    BY WatchdogAssumption DEF WatchdogInit, CountersOK, Longest
  <2>2. WatchdogInit => ModeInv
    BY DEF WatchdogInit, ModeInv
  <2> QED
    BY <2>1, <2>2
<1>0. WatchdogInit => ValuesOK
  BY DEF WatchdogInit, ValuesOK, Healths, ModeHealths
<1>2. WatchdogInit => BothHalves /\ QuietInv
  <2> SUFFICES ASSUME WatchdogInit PROVE BothHalves /\ QuietInv
    OBVIOUS
  <2>1. /\ ~watched /\ beat /\ alive /\ armed /\ silence = 0 /\ left = LIVELINESS
        /\ spin = "idle" /\ timer = "sleep" /\ ~raced /\ health = "HEALTHY"
    BY DEF WatchdogInit
  <2>2. BothHalves
    BY <2>1 DEF BothHalves, Rest
  <2>3. BeatIsSilence /\ left >= 0
    BY <2>1, WatchdogAssumption DEF BeatIsSilence
  <2> QED
    BY <2>1, <2>2, <2>3 DEF QuietInv, Rest
<1>3. IInv /\ [WatchdogNext]_watchdogVars => IInv'
  BY CountersStep, ValuesStep, ModeStep, HalvesStep, QuietStep DEF IInv
<1> QED
  BY <1>0, <1>1, <1>2, <1>3, PTL DEF WatchdogSpec, IInv

\* On the two threads of the server, a device is DEAD only after LIVELINESS without
\* a state (health_watchdog.py:118-124, heartbeat.py), unless a state came between
\* the check of a timer and its end.
THEOREM NoFalseAlarm == WatchdogSpec => []DeadMeansSilent
<1>1. IInv => DeadMeansSilent
  <2> SUFFICES ASSUME IInv, ~raced, spin = "idle", health = "DEAD"
               PROVE  silence >= LIVELINESS
    BY DEF DeadMeansSilent
  <2> USE WatchdogAssumption DEF IInv, QuietInv, CountersOK, Longest
  <2>1. CASE timer = "checked"
    BY <2>1
  <2>2. CASE timer = "combine" \/ timer = "arm"
    BY <2>2
  <2>3. CASE timer = "sleep"
    <3>1. watched /\ health = MostCritical(alive, ofMode)
      BY DEF BothHalves
    <3>2. alive = FALSE
      BY <3>1, Critical DEF ValuesOK
    <3> QED
      BY <2>3, <3>2 DEF Rest, BeatIsSilence
  <2> QED
    BY <2>1, <2>2, <2>3 DEF ValuesOK
<1> QED
  BY <1>1, InductiveInvariant, PTL

\* There, a silence longer than LIVELINESS is noticed, sooner than heartbeat.py says:
\* some timer of the current window is always armed or being handled.
THEOREM NoMissedDeath == WatchdogSpec => []SilenceIsNoticed
<1>1. IInv => SilenceIsNoticed
  <2> SUFFICES ASSUME IInv, ~raced, silence > LIVELINESS
               PROVE  health = "DEAD"
    BY DEF SilenceIsNoticed
  <2> USE WatchdogAssumption DEF IInv, QuietInv, CountersOK, Longest
  <2>1. watched /\ spin = "idle" /\ timer \in {"sleep", "checked", "arm"}
    BY DEF ValuesOK, BothHalves
  <2>2. ~alive
    BY <2>1 DEF Rest, BeatIsSilence
  <2>3. alive = FALSE /\ health = MostCritical(alive, ofMode)
    BY <2>1, <2>2 DEF ValuesOK, BothHalves
  <2> QED
    BY <2>3, Critical DEF ValuesOK
<1> QED
  BY <1>1, InductiveInvariant, PTL

\* There, between two states, the health published last combines the silence
\* and the mode as they are (health_watchdog.py:61-75, 113-124).
THEOREM HealthStaysCurrent == WatchdogSpec => []HealthIsCurrent
<1>1. IInv => HealthIsCurrent
  <2> DEFINE heard == silence < LIVELINESS \/ (silence = LIVELINESS /\ left = 0)
  <2> SUFFICES ASSUME IInv, ~raced, watched, Rest
               PROVE  health = MostCritical(heard, ModeToHealth(last))
    BY DEF HealthIsCurrent, Rest
  <2>1. health = MostCritical(alive, ModeToHealth(last))
    BY DEF IInv, BothHalves, ModeInv, Rest
  <2>2. alive <=> heard
    BY WatchdogAssumption DEF IInv, QuietInv, BeatIsSilence, CountersOK, Longest
  <2>3. alive = heard
    BY <2>2 DEF IInv, ValuesOK
  <2> QED
    BY <2>1, <2>3
<1> QED
  BY <1>1, InductiveInvariant, PTL

\* heartbeat.py, health_watchdog.py:61-75: both at once, as the run checks it.
THEOREM AlarmStaysTrue == WatchdogSpec => []AlarmIsTrue
BY NoFalseAlarm, NoMissedDeath, PTL DEF AlarmIsTrue
=============================================================================
