---------------------------- MODULE MCDashboard ----------------------------
(***************************************************************************)
(* What an operator sees, one part of it at work at a time: the tasks page *)
(* and its form, the robots page, the map with its labels and paths, the   *)
(* panels, the request forms, the negotiations, the trajectory socket and  *)
(* the session.  The parts share no state, so a part that is not at work   *)
(* stays as it starts.                                                     *)
(***************************************************************************)
EXTENDS TaskPage, TaskForm, RobotPage, ResourceMap, Labels, SplinePath, Panels,
        RequestForms, NegotiationStatus, TrajectorySocket, Session, TLC

VARIABLE mounted

Parts == {"tasks", "form", "robots", "map", "labels", "paths", "panels", "requests",
          "negotiations", "socket", "session"}

\* A part that is not at work starts in one of its initial states only.
DashboardInit ==
    /\ mounted \in Parts
    /\ PageInit /\ FormInit /\ RobotPageInit /\ MapInit /\ LabelsInit /\ SplineInit
    /\ PanelsInit /\ RequestsInit /\ NegoInit /\ SocketInit /\ SessionInit
    /\ mounted # "labels" => zoom = 1
    /\ mounted # "paths" => knots = <<Knot(<<0, 0>>, <<0, 0>>, 0)>>
    /\ mounted # "panels" => columnCount = 0
    /\ mounted # "requests" => formKind = "loop"
    /\ mounted # "session" => app = "dashboard" /\ ~sso

DashboardNext ==
    /\ UNCHANGED mounted
    /\ \/ /\ mounted = "tasks" /\ PageNext
          /\ UNCHANGED <<formVars, robotVars, mapVars, labelVars, knots, panelVars,
                         requestVars, negoVars, socketVars, sessionVars>>
       \/ /\ mounted = "form" /\ FormNext
          /\ UNCHANGED <<pageVars, robotVars, mapVars, labelVars, knots, panelVars,
                         requestVars, negoVars, socketVars, sessionVars>>
       \/ /\ mounted = "robots" /\ RobotPageNext
          /\ UNCHANGED <<pageVars, formVars, mapVars, labelVars, knots, panelVars,
                         requestVars, negoVars, socketVars, sessionVars>>
       \/ /\ mounted = "map" /\ MapNext
          /\ UNCHANGED <<pageVars, formVars, robotVars, labelVars, knots, panelVars,
                         requestVars, negoVars, socketVars, sessionVars>>
       \/ /\ mounted = "labels" /\ LabelsNext
          /\ UNCHANGED <<pageVars, formVars, robotVars, mapVars, knots, panelVars,
                         requestVars, negoVars, socketVars, sessionVars>>
       \/ /\ mounted = "paths" /\ SplineNext
          /\ UNCHANGED <<pageVars, formVars, robotVars, mapVars, labelVars, panelVars,
                         requestVars, negoVars, socketVars, sessionVars>>
       \/ /\ mounted = "panels" /\ PanelsNext
          /\ UNCHANGED <<pageVars, formVars, robotVars, mapVars, labelVars, knots,
                         requestVars, negoVars, socketVars, sessionVars>>
       \/ /\ mounted = "requests" /\ RequestsNext
          /\ UNCHANGED <<pageVars, formVars, robotVars, mapVars, labelVars, knots,
                         panelVars, negoVars, socketVars, sessionVars>>
       \/ /\ mounted = "negotiations" /\ NegoNext
          /\ UNCHANGED <<pageVars, formVars, robotVars, mapVars, labelVars, knots,
                         panelVars, requestVars, socketVars, sessionVars>>
       \/ /\ mounted = "socket" /\ SocketNext
          /\ UNCHANGED <<pageVars, formVars, robotVars, mapVars, labelVars, knots,
                         panelVars, requestVars, negoVars, sessionVars>>
       \/ /\ mounted = "session" /\ SessionNext
          /\ UNCHANGED <<pageVars, formVars, robotVars, mapVars, labelVars, knots,
                         panelVars, requestVars, negoVars, socketVars>>

dashboardVars == <<mounted, pageVars, formVars, robotVars, mapVars, labelVars, knots,
                   panelVars, requestVars, negoVars, socketVars, sessionVars>>

(***************************************************************************)
(* The fairness of the parts.  None of these actions is enabled where its  *)
(* part starts, so they ask nothing of a part that is not at work.         *)
(***************************************************************************)
DashboardSpec ==
    /\ DashboardInit /\ [][DashboardNext]_dashboardVars
    /\ FormFairness /\ SocketFairness

-----------------------------------------------------------------------------
\* Each part keeps its types.
DashboardTypeOK ==
    /\ PageTypeOK /\ FormTypeOK /\ RobotPageTypeOK /\ MapTypeOK /\ LabelsTypeOK
    /\ SplineTypeOK /\ PanelsTypeOK /\ RequestsTypeOK /\ NegoTypeOK /\ SocketTypeOK
    /\ SessionTypeOK

-----------------------------------------------------------------------------
(* The instances.                                                          *)

\* Two tasks; a file of one task, and one of two.
TwoTasks   == <<1, 2>>
Filled(ty) == [type |-> ty, filled |-> TRUE]
TaskFiles  == {<<Filled("loop")>>, <<Filled("clean"), Filled("delivery")>>}

\* Two fleets with a robot of the same name; a page ends inside the first.
FourRobots == <<[fleet |-> "f", name |-> "a"], [fleet |-> "f", name |-> "b"],
                [fleet |-> "g", name |-> "a"], [fleet |-> "g", name |-> "c"]>>

\* Two building maps: the second has a level less.  The fleet is the only device:
\* a door is subscribed to and drawn the same way.
MapLevels     == <<{"L1", "L2"}, {"L2"}>>
MapFirstLevel == <<"L1", "L2">>
MapDoors      == <<{}, {}>>

\* Three labels that overlap wherever the first of them is.
LabelSources == <<{<<0, 0>>, <<1, 0>>}, {<<1, 0>>}, {<<0, 1>>}>>

Poses      == {0, 3} \X {0, 3}
Velocities == {<<0, 0>>, <<2, 0>>, <<0, -2>>, <<2, 2>>}

\* The lift at the second place of the first map is the only one of the second.
MapLifts      == << <<"a", "b", "c">>, <<"b">> >>
LevelsOfLifts == << [a |-> <<"L1", "L2">>, b |-> <<"L2", "L3">>, c |-> <<"L1">>],
                    [b |-> <<"L3", "L4">>] >>

\* Two fleets that share a place; a place may have no dispenser.
TwoFleets   == <<"f", "g">>
FleetPlaces == [f |-> <<"p", "q">>, g |-> <<"q", "r", "s">>]
PlaceDispensers ==
    [f |-> [p |-> {"d"}, q |-> {"e"}, r |-> {}, s |-> {}],
     g |-> [p |-> {}, q |-> {"k"}, r |-> {"h"}, s |-> {}]]
Loops == {-1, 0, 1}

CONSTANTS trajectoryManager, negotiationManager
TwoManagers == {trajectoryManager, negotiationManager}
ThreeAndOne == (trajectoryManager :> 3) @@ (negotiationManager :> 1)
=============================================================================
