----------------------------- MODULE RobotPage -----------------------------
(***************************************************************************)
(* The robots page of the dashboard: RobotPage fetches a page of the       *)
(* robots, RobotPanel keeps the selected one and refreshes it, RobotInfo   *)
(* shows its current task.  Nothing is pushed: what is shown is what was   *)
(* fetched, and the answers come in any order.                             *)
(***************************************************************************)
EXTENDS Integers, Sequences, FiniteSets

CONSTANTS
    RobotList,      \* the robots in the order of the API, [fleet, name]
    RobotsPerPage,  \* 10
    MaxRobotAsks,   \* bound: requests
    MaxClicksOnRobot, MaxNewTasks   \* bounds

Robots == {RobotList[i] : i \in DOMAIN RobotList}

ASSUME RobotPageAssumption ==
    /\ RobotList \in Seq(Robots) /\ RobotsPerPage \in Nat \ {0}
    /\ {MaxRobotAsks, MaxClicksOnRobot, MaxNewTasks} \subseteq Nat

\* The state of the first task of a robot; "idle": it has no task.
TaskStates    == {"idle", "active", "completed"}
ConcreteTasks == {"completed"}
NoRobot == [robot |-> [fleet |-> "", name |-> ""], task |-> "idle"]

VARIABLES
    taskOf,       \* taskOf[i]: the first task of the i-th robot
    apiReady,     \* there is a fleetsApi
    robotPage, hasMore,
    rows,         \* verboseRobots
    robotFetches, \* requests on their way, [id, page, refreshes]
    robotAsks,    \* requests so far
    applied,      \* history: the request whose answer was applied last
    selectedRobot,
    robotClicks,  \* clicks on robots so far
    currentTask, hasConcreteEndTime,   \* of RobotInfo; "none": undefined
    effectDue,    \* the effect of RobotInfo is to run
    newTasks

robotVars == <<taskOf, apiReady, robotPage, hasMore, rows, robotFetches, robotAsks, applied,
               selectedRobot, robotClicks, currentTask, hasConcreteEndTime, effectDue, newTasks>>
infoVars  == <<selectedRobot, robotClicks, currentTask, hasConcreteEndTime, effectDue>>

RobotPageInit ==
    /\ taskOf = [i \in DOMAIN RobotList |-> "active"] /\ newTasks = 0
    /\ apiReady \in BOOLEAN /\ robotPage = 0 /\ hasMore = TRUE /\ rows = <<>>
    /\ robotFetches = {} /\ robotAsks = 0 /\ applied = 0
    /\ selectedRobot = NoRobot /\ robotClicks = 0
    /\ currentTask = "none" /\ hasConcreteEndTime = FALSE /\ effectDue = FALSE

-----------------------------------------------------------------------------
\* fetchVerboseRobots: the page and, for a refresh, the selected robot are those
\* of the render that made the callback.
AskRobots(p, refreshes) ==
    /\ robotAsks < MaxRobotAsks /\ robotAsks' = robotAsks + 1
    /\ robotFetches' = robotFetches \cup
          {[id |-> robotAsks + 1, page |-> p, refreshes |-> refreshes]}

\* The effect on [fetchVerboseRobots] as the page is mounted, before any event.
FirstEffect ==
    /\ robotAsks = 0
    /\ \/ apiReady /\ AskRobots(robotPage, NoRobot.robot) /\ UNCHANGED hasMore
       \/ ~apiReady /\ hasMore /\ hasMore' = FALSE /\ UNCHANGED <<robotFetches, robotAsks>>
    /\ UNCHANGED <<taskOf, apiReady, robotPage, rows, applied, newTasks, infoVars>>
EffectsRan == ~effectDue /\ (IF apiReady THEN robotAsks > 0 ELSE ~hasMore)

ApiArrives ==
    /\ EffectsRan
    /\ ~apiReady /\ apiReady' = TRUE
    /\ AskRobots(robotPage, NoRobot.robot)
    /\ UNCHANGED <<taskOf, robotPage, hasMore, rows, applied, newTasks, infoVars>>

\* The buttons of TablePagination, with the count the page gives it.
Count == robotPage * RobotsPerPage + Len(rows)
NextEnabled == hasMore \/ (robotPage + 1) * RobotsPerPage < Count

\* The effect on [fetchVerboseRobots].
AskPage(p) == AskRobots(p, NoRobot.robot)

ChangeRobotPage ==
    /\ EffectsRan
    /\ apiReady
    /\ \/ NextEnabled /\ robotPage' = robotPage + 1
       \/ robotPage > 0 /\ robotPage' = robotPage - 1
    /\ AskPage(robotPage')
    /\ UNCHANGED <<taskOf, apiReady, hasMore, rows, applied, newTasks, infoVars>>

\* handleRefresh
RefreshRobots ==
    /\ EffectsRan
    /\ apiReady
    /\ AskRobots(robotPage, selectedRobot.robot)
    /\ UNCHANGED <<taskOf, apiReady, robotPage, hasMore, rows, applied, newTasks, infoVars>>

Upto(n, m) == IF n < m THEN n ELSE m

\* GET /fleets/robots?limit=11&offset=..., as the robots are now.
Answered(p) ==
    SubSeq([i \in DOMAIN RobotList |-> [robot |-> RobotList[i], task |-> taskOf[i]]],
           p * RobotsPerPage + 1,
           Upto(Len(RobotList), p * RobotsPerPage + RobotsPerPage + 1))

\* Mutant: every robot of the answer is selected in turn.
EveryRobot(result, robot) == IF robot = NoRobot.robot THEN {} ELSE DOMAIN result

\* The robots of that name; the last of them is selected.
Namesakes(result, robot) == {i \in DOMAIN result : result[i].robot.name = robot.name}

\* A new robot is given to RobotInfo.
Show(robot) ==
    /\ selectedRobot' = robot
    /\ effectDue' = TRUE
    /\ UNCHANGED <<currentTask, hasConcreteEndTime>>

\* robots.slice(0, 10)
Sliced(answer) == SubSeq(answer, 1, Upto(Len(answer), RobotsPerPage))

RobotsReturn ==
    /\ EffectsRan
    /\ \E f \in robotFetches :
           LET answer == Answered(f.page)
               result == Sliced(answer)
               found  == Namesakes(result, f.refreshes)
           IN /\ robotFetches' = robotFetches \ {f} /\ applied' = f.id
              /\ hasMore' = (Len(answer) > RobotsPerPage)
              /\ rows' = result
              /\ IF found = {}
                 THEN UNCHANGED <<selectedRobot, currentTask, hasConcreteEndTime, effectDue>>
                 ELSE \E i \in found : (\A j \in found : j <= i) /\ Show(result[i])
              /\ UNCHANGED <<taskOf, apiReady, robotPage, robotAsks, robotClicks, newTasks>>

\* The rejection of a fetch has no handler.
RobotsFail ==
    /\ EffectsRan
    /\ \E f \in robotFetches : robotFetches' = robotFetches \ {f}
    /\ UNCHANGED <<taskOf, apiReady, robotPage, hasMore, rows>>
    /\ UNCHANGED <<robotAsks, applied, newTasks, infoVars>>

ClickRobot ==
    /\ EffectsRan
    /\ robotClicks < MaxClicksOnRobot /\ robotClicks' = robotClicks + 1
    /\ \E i \in DOMAIN rows : Show(rows[i])
    /\ UNCHANGED <<taskOf, apiReady, robotPage, hasMore, rows>>
    /\ UNCHANGED <<robotFetches, robotAsks, applied, newTasks>>

\* The dependencies of the effect: a task that was set is another object.
DueAgain(task) == task # currentTask

\* The effect of RobotInfo on [currentTask, robot].
RunEffect ==
    /\ effectDue
    /\ IF selectedRobot.task = "idle"
       THEN /\ currentTask' = "none" /\ hasConcreteEndTime' = FALSE
       ELSE /\ currentTask' = selectedRobot.task
            /\ hasConcreteEndTime' = IF currentTask = "none" THEN hasConcreteEndTime
                                     ELSE currentTask \in ConcreteTasks
    /\ effectDue' = DueAgain(currentTask')
    /\ UNCHANGED <<taskOf, apiReady, robotPage, hasMore, rows, robotFetches, robotAsks, applied,
                   selectedRobot, robotClicks, newTasks>>

\* RMF: a task ends, a robot gets one.
NewTask ==
    /\ ~effectDue
    /\ newTasks < MaxNewTasks /\ newTasks' = newTasks + 1
    /\ \E i \in DOMAIN RobotList : \E t \in TaskStates :
          taskOf' = [taskOf EXCEPT ![i] = t]
    /\ UNCHANGED <<apiReady, robotPage, hasMore, rows, robotFetches, robotAsks, applied, infoVars>>

\* The effect runs before the next event.
RobotPageNext ==
    \/ RunEffect \/ FirstEffect \/ ApiArrives \/ ChangeRobotPage \/ RefreshRobots
    \/ RobotsReturn \/ RobotsFail \/ ClickRobot \/ NewTask

RobotPageSpec == RobotPageInit /\ [][RobotPageNext]_robotVars

-----------------------------------------------------------------------------
\* A page has no more rows than fit, and there is a current task for a robot.
RobotPageTypeOK ==
    /\ Len(rows) <= RobotsPerPage /\ applied <= robotAsks
    /\ currentTask \in {"none", "active", "completed"}

\* Once the answer of the last request is applied and none is on its way, the
\* rows are those of the page, and there is a next page if there are more robots.
RobotsSettle ==
    robotFetches = {} /\ applied = robotAsks /\ robotAsks > 0 =>
        /\ [i \in DOMAIN rows |-> rows[i].robot] =
              SubSeq(RobotList, robotPage * RobotsPerPage + 1,
                     Upto(Len(RobotList), (robotPage + 1) * RobotsPerPage))
        /\ NextEnabled = ((robotPage + 1) * RobotsPerPage < Len(RobotList))

\* What RobotInfo shows is the task of the robot it has, whichever robots and
\* tasks it had before.
InfoSettles ==
    ~effectDue =>
        /\ currentTask = IF selectedRobot.task = "idle" THEN "none" ELSE selectedRobot.task
        /\ hasConcreteEndTime = (currentTask \in ConcreteTasks)

\* Another robot is selected by a click, or by the answer to a refresh that was
\* made for a robot of its name: for itself, before the present one was selected,
\* or for its namesake in another fleet.
OnlyClicksSelect ==
    selectedRobot'.robot # selectedRobot.robot =>
        \/ robotClicks' > robotClicks
        \/ \E f \in robotFetches \ robotFetches' :
              f.refreshes.name = selectedRobot'.robot.name

\* The page settles on the robots of its number and the task of the robot that is
\* selected; without a click, only the answer to a refresh selects another, one
\* that has the name of the robot that was selected when the refresh was made.
RobotPageIsSound == [](RobotsSettle /\ InfoSettles) /\ [][OnlyClicksSelect]_robotVars
=============================================================================
