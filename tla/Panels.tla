------------------------------- MODULE Panels ------------------------------
(***************************************************************************)
(* The lift panel of the dashboard: LiftPanel, its table and the request   *)
(* form of each lift (react-components/lib/lifts), which DoorPanel and     *)
(* WorkcellPanel lay out alike (doors/, workcells/); the request goes to   *)
(* the API server and out as a ROS message (routes/lifts.py, gateway.py).  *)
(*                                                                         *)
(* The panel is a grid of as many columns as fit, or a table.  React keeps *)
(* the state of a cell as long as something is shown at its place: when    *)
(* the window or the building map changes, the form of one lift becomes    *)
(* the form of another.                                                    *)
(***************************************************************************)
EXTENDS Integers, Sequences, FiniteSets

CONSTANTS
    LiftsOf,        \* LiftsOf[v]: the lifts of the v-th building map, in order
    LiftLevels,     \* LiftLevels[v][l]: the levels that this map gives the lift l, in order
    Columns,        \* how many columns may fit
    MaxLiftPicks    \* bound: values picked in the forms

LiftsIn(v) == {LiftsOf[v][i] : i \in DOMAIN LiftsOf[v]}
Lifts  == UNION {LiftsIn(v) : v \in DOMAIN LiftsOf}
LevelsOfLift(v, l) == {LiftLevels[v][l][i] : i \in DOMAIN LiftLevels[v][l]}

NoLift == "none"

\* A lift is known by its name, here and in the states (liftStates[lift.name]),
\* and a building map names each of its lifts once.
ASSUME PanelsAssumption ==
    /\ Columns \subseteq Nat /\ Columns # {} /\ MaxLiftPicks \in Nat
    /\ LiftsOf \in Seq(Seq(Lifts)) /\ LiftsOf # <<>> /\ NoLift \notin Lifts
    /\ \A v \in DOMAIN LiftsOf : \A i, j \in DOMAIN LiftsOf[v] :
          LiftsOf[v][i] = LiftsOf[v][j] => i = j
    /\ \A v \in DOMAIN LiftsOf : \A l \in LiftsIn(v) :
          LiftLevels[v][l] \in Seq(LevelsOfLift(v, l)) /\ LiftLevels[v][l] # <<>>

\* The values of rmf_lift_msgs/LiftRequest; null is what clearing a field gives.
END_SESSION == 0
AGV == 1
HUMAN == 2
Null == 0 - 1
RequestModes == <<AGV, HUMAN, END_SESSION>>
DoorModes    == <<2, 0>>   \* DOOR_OPEN, DOOR_CLOSED

VARIABLES
    liftMap,      \* the building map that is shown
    columnCount, isCellView,
    liftForms,    \* liftForms[p]: the request form at the place p, or NoForm
    liftRequest,  \* the LiftRequest that was published last
    liftPicks     \* values picked in the forms

panelVars == <<liftMap, columnCount, isCellView, liftForms, liftRequest, liftPicks>>

\* A place is <<row, column>>; the rows of the table have column 0.
Places == UNION {(0 .. Len(LiftsOf[v])) \X (0 .. c) : v \in DOMAIN LiftsOf, c \in Columns}

\* Math.ceil(lifts.length / columnCount), of which nothing is seen without a
\* column.
RowCount(n, c) == IF c = 0 THEN 0 ELSE (n + c - 1) \div c

\* LiftGridRenderer and LiftListRenderer: what is shown at a place.
ShownAt(p, v, c, cells) ==
    LET n == Len(LiftsOf[v])
        i == IF cells THEN p[1] * c + p[2] ELSE p[1]
        inside == IF cells THEN p[1] < RowCount(n, c) /\ p[2] < c ELSE p[2] = 0
    IN IF inside /\ i <= n - 1 THEN LiftsOf[v][i + 1] ELSE NoLift

\* The form as it is mounted, and as cleanUpForm leaves it.  History: picked is
\* the request type the user asked for, and offered are the levels that the form
\* has offered since then: those of each lift it was the form of, in each map.
CleanForm(v, l) ==
    [showForms |-> FALSE, offered |-> LevelsOfLift(v, l), destination |-> LiftLevels[v][l][1],
     doorState |-> DoorModes[1], requestType |-> RequestModes[1], picked |-> RequestModes[1]]
NoForm == [showForms |-> FALSE, offered |-> {}, destination |-> "", doorState |-> Null,
           requestType |-> Null, picked |-> Null]
CleanForms(v, c, cells) ==
    [p \in Places |-> LET l == ShownAt(p, v, c, cells)
                      IN IF l = NoLift THEN NoForm ELSE CleanForm(v, l)]

LiftAt(p) == ShownAt(p, liftMap, columnCount, isCellView)

\* The forms after a render: those of the places that show something stay.
Rendered(v, c, cells) ==
    [p \in Places |->
        LET l == ShownAt(p, v, c, cells)
        IN IF l = NoLift \/ liftForms[p] = NoForm THEN CleanForms(v, c, cells)[p]
           ELSE [liftForms[p] EXCEPT !.offered = @ \cup LevelsOfLift(v, l)]]

PanelsInit ==
    /\ liftMap = 1 /\ columnCount \in Columns /\ isCellView = TRUE
    /\ liftForms = CleanForms(1, columnCount, TRUE)
    /\ liftRequest = [lift |-> NoLift, form |-> NoForm] /\ liftPicks = 0

-----------------------------------------------------------------------------
\* The window gets wider or narrower.
ResizePanel ==
    /\ columnCount' \in Columns \ {columnCount}
    /\ liftForms' = IF isCellView THEN Rendered(liftMap, columnCount', TRUE) ELSE liftForms
    /\ UNCHANGED <<liftMap, isCellView, liftRequest, liftPicks>>

NewLiftMap ==
    /\ liftMap' \in DOMAIN LiftsOf \ {liftMap}
    /\ liftForms' = Rendered(liftMap', columnCount, isCellView)
    /\ UNCHANGED <<columnCount, isCellView, liftRequest, liftPicks>>

\* The view mode button unmounts what it replaces.
ToggleLiftView ==
    /\ \A p \in Places : ~liftForms[p].showForms
    /\ isCellView' = ~isCellView
    /\ liftForms' = CleanForms(liftMap, columnCount, ~isCellView)
    /\ UNCHANGED <<liftMap, columnCount, liftRequest, liftPicks>>

\* The dialog is modal.
OpenLiftForm ==
    /\ \A p \in Places : ~liftForms[p].showForms
    /\ \E p \in Places :
          /\ LiftAt(p) # NoLift
          /\ liftForms' = [liftForms EXCEPT ![p].showForms = TRUE]
    /\ UNCHANGED <<liftMap, columnCount, isCellView, liftRequest, liftPicks>>

\* (value as number) || availableRequestTypes[0]
TypeOr(value) == IF value \in {Null, 0} THEN RequestModes[1] ELSE value

PickInForm ==
    /\ liftPicks < MaxLiftPicks /\ liftPicks' = liftPicks + 1
    /\ \E p \in Places :
          /\ liftForms[p].showForms
          /\ \/ \E d \in LevelsOfLift(liftMap, LiftAt(p)) \cup {""} :
                   liftForms' = [liftForms EXCEPT ![p].destination = d]
             \/ \E m \in {DoorModes[1], DoorModes[2], Null} :
                   liftForms' = [liftForms EXCEPT ![p].doorState = m]
             \/ \E t \in {AGV, HUMAN, END_SESSION, Null} :
                   liftForms' = [liftForms EXCEPT ![p].requestType = TypeOr(t), ![p].picked = t]
    /\ UNCHANGED <<liftMap, columnCount, isCellView, liftRequest>>

CancelLiftForm ==
    /\ \E p \in Places :
          /\ liftForms[p].showForms
          /\ liftForms' = [liftForms EXCEPT ![p].showForms = FALSE]
    /\ UNCHANGED <<liftMap, columnCount, isCellView, liftRequest, liftPicks>>

\* Mutant: the form is not cleaned up.
NotCleanedUp(p) == [liftForms[p] EXCEPT !.showForms = FALSE,
                                            !.offered = LevelsOfLift(liftMap, LiftAt(p))]

\* onClose and cleanUpForm
CleanedUp(p) == CleanForm(liftMap, LiftAt(p))

\* handleLiftRequest.  The API refuses a request without a door mode; the
\* form does not wait for the answer.
SubmitLift ==
    /\ \E p \in Places :
          /\ liftForms[p].showForms /\ liftForms[p].destination # ""
          /\ liftForms' = [liftForms EXCEPT ![p] = CleanedUp(p)]
          /\ IF liftForms[p].doorState = Null THEN UNCHANGED liftRequest
             ELSE liftRequest' = [lift |-> LiftAt(p), form |-> liftForms[p]]
    /\ UNCHANGED <<liftMap, columnCount, isCellView, liftPicks>>

PanelsNext ==
    \/ ResizePanel \/ NewLiftMap \/ ToggleLiftView
    \/ OpenLiftForm \/ PickInForm \/ CancelLiftForm \/ SubmitLift

PanelsSpec == PanelsInit /\ [][PanelsNext]_panelVars

-----------------------------------------------------------------------------
\* One form at a time, and only where a lift is.
PanelsTypeOK ==
    /\ \A p \in Places : (liftForms[p] = NoForm) = (LiftAt(p) = NoLift)
    /\ \A p, q \in Places : liftForms[p].showForms /\ liftForms[q].showForms => p = q

\* Every lift of the map is at one place, for any number of columns and lifts;
\* in a panel narrower than a column none is.
EveryLiftOnce ==
    (isCellView => columnCount > 0) =>
        \A i \in DOMAIN LiftsOf[liftMap] :
            Cardinality({p \in Places : LiftAt(p) = LiftsOf[liftMap][i]}) = 1

\* A lift is sent to a level that its form offered since the form was mounted or
\* used for a request: one this lift has in the map shown, or else one that it, or
\* the lift whose place it took in the panel, had in a map shown before.  What was
\* picked for an earlier request is never sent again.
DestinationReachable ==
    liftRequest.lift # NoLift => liftRequest.form.destination \in liftRequest.form.offered

\* What is requested is what was picked ("[RmfLiftRequest.REQUEST_END_SESSION]:
\* 'End Session'", lift-utils.ts).
LiftRequestAsPicked ==
    liftRequest.form.picked \in {liftRequest.form.requestType, Null}

\* Each lift has its place in the panel, and is sent to a level that the form at
\* this place offered for this request.
LiftsAreReachable ==
    /\ EveryLiftOnce
    /\ DestinationReachable
=============================================================================
