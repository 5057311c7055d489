----------------------------- MODULE ResourceMap -----------------------------
(***************************************************************************)
(* The page of the building (dashboard/src/components/dashboard/           *)
(* dashboard.tsx) and the map on it (schedule-visualizer/index.tsx) under  *)
(* the providers of rmf-app.tsx.                                           *)
(*                                                                         *)
(* The page keeps the states that are pushed to it in refs and draws them  *)
(* when a timer makes it render.  The map loads the images of all levels   *)
(* when there is a new building map, and asks for the trajectories of the  *)
(* current level at once and in an interval, whether or not the answers to *)
(* earlier requests came.  The trajectory manager takes them for answers   *)
(* as TrajectorySocket has it: this module has what that comes to for one  *)
(* manager, which is all the dashboard uses (nothing subscribes to the     *)
(* negotiations, so that nothing is pushed).                               *)
(* What comes for a page that was left is dropped (useAsync, cancel, and   *)
(* setState of React), and so leaving the page forgets it; its requests    *)
(* stay in the manager.  Icons are in the bundle, so that the effects that *)
(* collect robots and workcells end before the next event: those drawn are *)
(* those of the states drawn.                                              *)
(***************************************************************************)
EXTENDS Integers, Sequences, FiniteSets

CONSTANTS
    LevelsOf,     \* LevelsOf[v]: the levels of the v-th building map
    FirstLevel,   \* FirstLevel[v]: the first of them by name
    DoorsOf,      \* DoorsOf[v]: its doors
    Times,        \* how far ahead trajectories may be shown
    DefaultTime,
    MaxStates,    \* bound: states pushed of a device during a visit
    MaxInFlight   \* bound: trajectory requests without an answer

Fleet   == "fleet"
Devices == UNION {DoorsOf[v] : v \in DOMAIN DoorsOf} \cup {Fleet}
Levels  == UNION {LevelsOf[v] : v \in DOMAIN LevelsOf}

ASSUME MapAssumption ==
    /\ LevelsOf \in Seq(SUBSET Levels) /\ DOMAIN FirstLevel = DOMAIN LevelsOf
    /\ \A v \in DOMAIN LevelsOf : FirstLevel[v] \in LevelsOf[v]
    /\ DOMAIN DoorsOf = DOMAIN LevelsOf
    /\ DefaultTime \in Times
    /\ MaxStates \in Nat /\ MaxInFlight \in Nat

VARIABLES
    buildingMap,   \* the building map of the context, 0 before there is one
    onPage,        \* the page is shown
    fleets,        \* of the page: none, asked for, or known
    received,      \* received[d]: states of d put in its ref
    drawn,         \* drawn[d]: those of them that were drawn
    currentLevel,  \* its name, and the map it is a level of
    images,        \* images[l]: the map whose image of level l is loaded
    imageLoads,    \* the maps whose images are loaded
    imageFailed,   \* history: a load failed
    imageLate,     \* history: the images are of an older map, whose load was slower
    trajectoryTime,
    storedTime,    \* in localStorage
    requests,      \* trajectory requests the server has not answered, in order
    trajListener,  \* who listens for the next answer: nobody, requests of pages
                   \* that were left, or one of this page among them
    trajQueued,    \* who waits for the last of those: the same
    trajectories,  \* what the trajectories shown were asked for
    trajFailed,    \* history: the last answer was an error
    mixed,         \* history: since they last were none, there were more than two
                   \* requests without an answer
    leaflet,       \* the map drawn: none, the first one, gone, or a later one
    overlayOff,    \* an overlay is off in leaflet
    unchecked      \* layersUnChecked of that overlay

stateVars == <<fleets, received, drawn>>
imageVars == <<images, imageLoads, imageFailed, imageLate>>
shownVars == <<trajectories, trajFailed>>
trajVars  == <<trajectoryTime, storedTime, requests, trajListener, trajQueued, mixed, shownVars>>
layerVars == <<leaflet, overlayOff, unchecked>>
mapVars   == <<buildingMap, onPage, stateVars, currentLevel, imageVars, trajVars, layerVars>>

NoLevel == [name |-> "none", map |-> 0]
NoTrajectories == [level |-> "none", time |-> DefaultTime]
Nothing == [d \in Devices |-> 0]
NoImages == [l \in Levels |-> 0]

MapInit ==
    /\ buildingMap = 0 /\ onPage = FALSE
    /\ fleets = "none" /\ received = Nothing /\ drawn = Nothing
    /\ currentLevel = NoLevel
    /\ images = NoImages /\ imageLoads = {} /\ imageFailed = FALSE /\ imageLate = FALSE
    /\ trajectoryTime = DefaultTime /\ storedTime = DefaultTime
    /\ requests = <<>> /\ trajListener = "nobody" /\ trajQueued = "nobody" /\ mixed = FALSE
    /\ trajectories = NoTrajectories /\ trajFailed = FALSE
    /\ leaflet = "none" /\ overlayOff = FALSE /\ unchecked = FALSE

\* The map is mounted with the page, once there is a building map.
Mounted == onPage /\ buildingMap # 0

\* What the page is subscribed to.
ShownDevices ==
    IF ~Mounted THEN {} ELSE DoorsOf[buildingMap] \cup (IF fleets = "known" THEN {Fleet} ELSE {})

\* levelBounds: the levels of the map that have an image, by name.
Bounds == {l \in LevelsOf[buildingMap] : images[l] # 0}

\* Without bounds for the current level nothing is drawn, not even the control
\* that changes the level.
Displayed == Mounted /\ currentLevel.name \in Bounds

\* A map that was blank is drawn by a new leaflet map.
Draw ==
    /\ leaflet' = IF ~Displayed' THEN IF leaflet = "none" THEN "none" ELSE "gone"
                  ELSE IF leaflet = "none" THEN "first"
                  ELSE IF leaflet = "gone" THEN "later" ELSE leaflet
    /\ overlayOff' = IF leaflet' = leaflet THEN overlayOff ELSE unchecked
    /\ UNCHANGED unchecked

-----------------------------------------------------------------------------
(* Trajectories.                                                           *)

\* send(): the request goes out at once; it listens for the answer if no other
\* does, and else waits for the last that does.
Send(ask) ==
    /\ Len(requests) < MaxInFlight
    /\ requests' = Append(requests, ask)
    /\ IF trajListener = "nobody" THEN trajListener' = "page" /\ UNCHANGED trajQueued
                               ELSE trajQueued' = "page" /\ UNCHANGED trajListener
    /\ mixed' = (requests # <<>> /\ (mixed \/ Len(requests) > 1))

\* Mutant: the effect keeps the level it first ran with.
AskForFirst(level, time) == Send([level |-> FirstLevel[buildingMap'], time |-> time])

\* updateTrajectory, up to its await.
Ask(level, time) == Send([level |-> level, time |-> time])

\* The interval asks again whether or not there was an answer.
Interval ==
    /\ Mounted
    /\ UNCHANGED <<buildingMap, onPage, stateVars, currentLevel, imageVars, layerVars>>
    /\ Ask(currentLevel.name, trajectoryTime)
    /\ UNCHANGED <<shownVars, trajectoryTime, storedTime>>

\* An answer comes: all that listen take it, and those that waited listen.
\* updateTrajectory, from its await on, shows what it took, without a look at
\* cancel.
TrajectoryAnswer ==
    /\ requests # <<>> /\ requests' = Tail(requests)
    /\ trajListener' = trajQueued /\ trajQueued' = "nobody"
    /\ \/ trajListener = "page" /\ trajectories' = Head(requests) /\ trajFailed' = FALSE
       \/ trajListener = "page" /\ trajFailed' = TRUE /\ UNCHANGED trajectories
       \/ trajListener # "page" /\ UNCHANGED shownVars
    /\ UNCHANGED <<trajectoryTime, storedTime, mixed>>
    /\ UNCHANGED <<buildingMap, onPage, stateVars, currentLevel, imageVars, layerVars>>

-----------------------------------------------------------------------------
(* The page and the building map.                                          *)

\* The effect on levels.
LoadImages ==
    /\ imageLoads' = imageLoads \cup {buildingMap'}
    /\ UNCHANGED <<images, imageFailed, imageLate>>

\* The map is mounted: the first level, and the time that was stored.
MountVisualizer ==
    /\ currentLevel' = [name |-> FirstLevel[buildingMap'], map |-> buildingMap']
    /\ imageLoads' = {buildingMap'} /\ UNCHANGED <<images, imageFailed, imageLate>>
    /\ trajectoryTime' = storedTime /\ UNCHANGED <<storedTime, shownVars>>
    /\ Ask(currentLevel'.name, storedTime)
    /\ UNCHANGED layerVars

VisitPage ==
    /\ ~onPage /\ onPage' = TRUE /\ UNCHANGED buildingMap
    /\ fleets' = "asked" /\ UNCHANGED <<received, drawn>>
    /\ IF buildingMap # 0 THEN MountVisualizer
       ELSE UNCHANGED <<currentLevel, imageVars, trajVars, layerVars>>

OfLeft(who) == IF who = "page" THEN "left" ELSE who

\* Another page.
LeavePage ==
    /\ onPage /\ onPage' = FALSE
    /\ fleets' = "none" /\ received' = Nothing /\ drawn' = Nothing
    /\ currentLevel' = NoLevel
    /\ images' = NoImages /\ imageLoads' = {} /\ imageFailed' = FALSE /\ imageLate' = FALSE
    /\ trajListener' = OfLeft(trajListener) /\ trajQueued' = OfLeft(trajQueued) /\ UNCHANGED <<requests, mixed>>
    /\ trajectories' = NoTrajectories /\ trajFailed' = FALSE
    /\ trajectoryTime' = DefaultTime /\ UNCHANGED storedTime
    /\ leaflet' = "none" /\ overlayOff' = FALSE /\ unchecked' = FALSE
    /\ UNCHANGED buildingMap

\* setBuildingMap.  The current level remains one of the map before.
BuildingMapArrives ==
    /\ buildingMap < Len(LevelsOf) /\ buildingMap' = buildingMap + 1
    /\ UNCHANGED <<onPage, stateVars>>
    /\ IF ~onPage THEN UNCHANGED <<currentLevel, imageVars, trajVars, layerVars>>
       ELSE IF buildingMap = 0 THEN MountVisualizer
       ELSE LoadImages /\ UNCHANGED <<currentLevel, trajVars>> /\ Draw

\* All images of a map are there, or one of them failed.
ImagesLoaded ==
    /\ \E load \in imageLoads :
          /\ imageLoads' = imageLoads \ {load}
          /\ \/ /\ images' = [l \in Levels |-> IF l \in LevelsOf[load] THEN load ELSE 0]
                /\ imageLate' = (load < buildingMap /\
                                     (imageLate \/ \E l \in Levels : images[l] > load))
                /\ UNCHANGED imageFailed
             \/ imageFailed' = TRUE /\ UNCHANGED <<images, imageLate>>
    /\ UNCHANGED <<buildingMap, onPage, currentLevel>>
    /\ Draw
    /\ UNCHANGED <<stateVars, trajVars>>

LevelOf(l) == [name |-> l, map |-> buildingMap]

\* onbaselayerchange, by the control of the map.
ChangeLevel ==
    /\ Displayed /\ UNCHANGED <<buildingMap, onPage, stateVars, imageVars>>
    /\ \E l \in LevelsOf[buildingMap] :
          /\ currentLevel' = LevelOf(l) /\ currentLevel' # currentLevel
          /\ Ask(l, trajectoryTime)
    /\ Draw
    /\ UNCHANGED <<shownVars, trajectoryTime, storedTime>>

\* TrajectoryTimeControl: the setting is stored, and the effect runs anew.
ChangeTime ==
    /\ Displayed
    /\ UNCHANGED <<buildingMap, onPage, stateVars, currentLevel, imageVars, layerVars>>
    /\ \E t \in Times \ {trajectoryTime} :
          trajectoryTime' = t /\ storedTime' = t /\ Ask(currentLevel.name, t)
    /\ UNCHANGED shownVars

\* overlayadd and overlayremove.
Unchecked(off) == off

\* Only the first leaflet map has the listeners.
ToggleOverlay ==
    /\ Displayed /\ overlayOff' = ~overlayOff
    /\ unchecked' = IF leaflet = "first" THEN Unchecked(~overlayOff) ELSE unchecked
    /\ UNCHANGED leaflet
    /\ UNCHANGED <<buildingMap, onPage, stateVars, currentLevel, imageVars, trajVars>>

-----------------------------------------------------------------------------
(* The states of the devices.                                              *)

\* getFleets answers; an error leaves the page without fleets.
GetFleets ==
    /\ fleets = "asked" /\ fleets' \in {"known", "none"}
    /\ UNCHANGED <<received, drawn>>
    /\ UNCHANGED <<buildingMap, onPage, currentLevel, imageVars, trajVars, layerVars>>

\* The listener of a subscription puts the state in the ref.
StateArrives(d) ==
    /\ d \in ShownDevices /\ received[d] < MaxStates
    /\ received' = [received EXCEPT ![d] = @ + 1]
    /\ UNCHANGED <<fleets, drawn>>
    /\ UNCHANGED <<buildingMap, onPage, currentLevel, imageVars, trajVars, layerVars>>

DrawDevice(d) == received[d]

\* setTriggerRender, every second: the refs are drawn.
TriggerRender ==
    /\ onPage /\ drawn' = [d \in Devices |-> DrawDevice(d)] /\ drawn # received
    /\ UNCHANGED <<fleets, received>>
    /\ UNCHANGED <<buildingMap, onPage, currentLevel, imageVars, trajVars, layerVars>>

-----------------------------------------------------------------------------
MapNext ==
    \/ VisitPage \/ LeavePage \/ BuildingMapArrives \/ ImagesLoaded
    \/ ChangeLevel \/ ChangeTime \/ ToggleOverlay \/ Interval \/ TrajectoryAnswer
    \/ GetFleets \/ (\E d \in Devices : StateArrives(d)) \/ TriggerRender

MapSpec == MapInit /\ [][MapNext]_mapVars

-----------------------------------------------------------------------------
MapTypeOK ==
    /\ buildingMap \in 0 .. Len(LevelsOf) /\ onPage \in BOOLEAN
    /\ fleets \in {"none", "asked", "known"}
    /\ received \in [Devices -> 0 .. MaxStates] /\ drawn \in [Devices -> 0 .. MaxStates]
    /\ currentLevel = NoLevel \/ currentLevel.name \in LevelsOf[currentLevel.map]
    /\ images \in [Levels -> 0 .. Len(LevelsOf)]
    /\ {trajectoryTime, storedTime} \subseteq Times /\ Len(requests) \in 0 .. MaxInFlight
    /\ {trajListener, trajQueued} \subseteq {"nobody", "left", "page"}
    /\ leaflet \in {"none", "first", "gone", "later"}

\* With the answers in, the trajectories on the map are those of its level for
\* the time that is set, however often both were changed and the page was left:
\* an answer that is late is followed by the one of the last change.  It is not
\* so if that is an error, nor once three requests were without an answer, as
\* after three changes or in a server slower than the interval: then two of them
\* take the same answer and that of the last is lost, until all are answered
\* and the map asks again.
TrajectoriesSettle ==
    Mounted /\ requests = <<>> /\ ~trajFailed /\ ~mixed =>
        trajectories = [level |-> currentLevel.name, time |-> trajectoryTime]

\* With the images loaded each level has its image of the newest building map,
\* and the map is drawn unless that has no level of the name of the current
\* one: except after a load that failed or the slower load of an older map.
MapIsDrawn ==
    Mounted /\ imageLoads = {} /\ ~imageFailed /\ ~imageLate =>
        /\ \A l \in LevelsOf[buildingMap] : images[l] = buildingMap
        /\ Displayed <=> currentLevel.name \in LevelsOf[buildingMap]

\* The labels of an overlay are hidden with it, unless the map was blank and
\* was drawn anew, without the listeners.
LabelsFollowOverlay == leaflet = "first" => unchecked = overlayOff

\* The map settles on what was asked of it last, the trajectories of its level
\* and time, the images of its building map, the labels of its overlays, but for
\* the cases that its parts name.
MapSettles ==
    /\ TrajectoriesSettle
    /\ MapIsDrawn
    /\ LabelsFollowOverlay
=============================================================================
