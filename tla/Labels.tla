------------------------------- MODULE Labels ------------------------------
(***************************************************************************)
(* The name labels of the map: LabelContainer and NameLabel (react-        *)
(* components/lib/map/label-marker.tsx) place a label where it collides    *)
(* with no other, with the EntityManager of the map (entity-manager.ts).   *)
(*                                                                         *)
(* Coordinates are integers and the gap of 0.001 is 1.  The arrow and the  *)
(* angle are left out: a label prefers the place at its source.  A commit  *)
(* of React and an event of leaflet run to their end: nothing else happens *)
(* while labels are waiting to be placed.                                  *)
(***************************************************************************)
EXTENDS Integers, Sequences, Selection

CONSTANTS
    LabelCount,            \* the labels are 1 .. LabelCount, in tree order
    LabelWidth, LabelHeight,
    SourcesOf,             \* SourcesOf[l]: where the source of l can be, <<x, y>>
    Scales,                \* 1 / scale, for the zooms
    SearchDepth,           \* of getNonColliding (4)
    DistLimit              \* repositionThreshold

Labels == 1 .. LabelCount

ASSUME LabelsAssumption ==
    /\ LabelCount \in Nat /\ {LabelWidth, LabelHeight, SearchDepth, DistLimit} \subseteq Nat
    /\ \A l \in Labels : SourcesOf[l] \subseteq Nat \X Nat /\ SourcesOf[l] # {}
    /\ Scales \subseteq Nat \ {0} /\ Scales # {}

VARIABLES
    source,    \* source[l]: where the source of l is
    zoom,      \* the scale of the map
    shownLabels, \* the labels that are mounted and measured
    scaleOf,   \* scaleOf[l]: the scale l was drawn with
    toPlace,   \* labels whose layout effect is to run, in order
    entity,    \* entity[l]: its box in the EntityManager, or NoBox
    location,  \* location[l]: labelLocation, or NoBox
    cramped    \* history: labels that found no room the last time

labelVars == <<source, zoom, shownLabels, scaleOf, toPlace, entity, location, cramped>>

Box(x, y) == [minX |-> x, minY |-> y, maxX |-> x + LabelWidth, maxY |-> y + LabelHeight]
NoBox     == [minX |-> 0, minY |-> 0, maxX |-> 0 - 1, maxY |-> 0 - 1]

\* RBush: boxes that touch collide.
Collide(a, b) ==
    /\ a.minX <= b.maxX /\ b.minX <= a.maxX
    /\ a.minY <= b.maxY /\ b.minY <= a.maxY

Preferred(l) == Box(source[l][1] * scaleOf[l], source[l][2] * scaleOf[l])

\* The preferred box moved left, right, up and down of an entity.
Aside(bbox, c) ==
    {[bbox EXCEPT !.minX = bbox.minX - (bbox.maxX - c.minX + 1), !.maxX = c.minX - 1],
     [bbox EXCEPT !.minX = c.maxX + 1, !.maxX = bbox.maxX + (c.maxX - bbox.minX + 1)],
     [bbox EXCEPT !.minY = bbox.minY - (bbox.maxY - c.minY + 1), !.maxY = c.minY - 1],
     [bbox EXCEPT !.minY = c.maxY + 1, !.maxY = bbox.maxY + (c.maxY - bbox.minY + 1)]}

\* The boxes that are tried: beside what collides with those tried before.
Tried(bbox, boxes) ==
    LET tried[d \in 0 .. SearchDepth] ==
            IF d = 0 THEN {bbox} ELSE
            UNION {Aside(bbox, c) : c \in {b \in boxes : \E t \in tried[d - 1] : Collide(t, b)}}
    IN UNION {tried[d] : d \in 0 .. SearchDepth}

Dist2(a, b) == (a.minX - b.minX) * (a.minX - b.minX) + (a.minY - b.minY) * (a.minY - b.minY)

Candidates(bbox, boxes) ==
    {t \in Tried(bbox, boxes) : /\ Dist2(t, bbox) <= DistLimit * DistLimit
                                /\ \A b \in boxes : ~Collide(t, b)}

\* getNonColliding: the candidates that are closest; it takes one of them.
NonColliding(bbox, boxes) ==
    LET cs == Candidates(bbox, boxes)
    IN {c \in cs : \A d \in cs : Dist2(c, bbox) <= Dist2(d, bbox)}

LabelsInit ==
    /\ source = [l \in Labels |-> CHOOSE p \in SourcesOf[l] : TRUE] /\ zoom \in Scales
    /\ shownLabels = {} /\ scaleOf = [l \in Labels |-> zoom]
    /\ toPlace = <<>>
    /\ entity = [l \in Labels |-> NoBox] /\ location = entity /\ cramped = {}

-----------------------------------------------------------------------------
\* Mutant: the effect has no cleanup.
OthersAndOwn(l) == {entity[m] : m \in Labels} \ {NoBox}

\* The entities that are left after the cleanup of the effect of l.
Others(l) == {entity[m] : m \in Labels \ {l}} \ {NoBox}

\* setLabelLocation
DrawnAt(l, box) == [location EXCEPT ![l] = box]

\* The layout effect.  Without room the label keeps the location it was drawn
\* at, and has no entity.
PlaceLabel ==
    /\ toPlace # <<>> /\ toPlace' = Tail(toPlace)
    /\ LET l     == Head(toPlace)
           boxes == NonColliding(Preferred(l), Others(l))
       IN IF boxes = {}
          THEN /\ entity' = [entity EXCEPT ![l] = NoBox] /\ cramped' = cramped \cup {l}
               /\ UNCHANGED location
          ELSE \E box \in boxes :
                  /\ entity' = [entity EXCEPT ![l] = box]
                  /\ location' = DrawnAt(l, box)
                  /\ cramped' = cramped \ {l}
    /\ UNCHANGED <<source, zoom, shownLabels, scaleOf>>

WithoutBoxes(S) == [l \in Labels |-> IF l \in S THEN NoBox ELSE entity[l]]
TreeOrder      == [l \in Labels |-> l]
InTreeOrder(S) == Kept(TreeOrder, S)

\* NameLabel knows the size of the text, and mounts its LabelContainer.
ShowLabel ==
    /\ toPlace = <<>>
    /\ \E l \in Labels \ shownLabels :
          /\ shownLabels' = shownLabels \cup {l}
          /\ scaleOf' = [scaleOf EXCEPT ![l] = zoom]
          /\ toPlace' = <<l>>
    /\ UNCHANGED <<source, zoom, entity, location, cramped>>

\* The cleanup of the effects of S.
RemoveEntities(S) == WithoutBoxes(S)

\* The overlay hides its labels, or its markers are unmounted.
HideLabels ==
    /\ toPlace = <<>>
    /\ \E S \in SUBSET shownLabels \ {{}} :
          /\ shownLabels' = shownLabels \ S
          /\ entity' = RemoveEntities(S)
          /\ location' = [l \in Labels |-> IF l \in S THEN NoBox ELSE location[l]]
          /\ cramped' = cramped \ S
    /\ UNCHANGED <<source, zoom, scaleOf, toPlace>>

\* Robots moved: one commit, which runs the cleanup of every effect first.
MoveSources ==
    /\ toPlace = <<>>
    /\ \E S \in SUBSET Labels \ {{}} :
          /\ source' \in [Labels -> UNION {SourcesOf[l] : l \in Labels}]
          /\ \A l \in Labels : IF l \in S THEN source'[l] \in SourcesOf[l] \ {source[l]}
                                          ELSE source'[l] = source[l]
          /\ entity' = WithoutBoxes(S \cap shownLabels)
          /\ toPlace' = InTreeOrder(S \cap shownLabels)
    /\ UNCHANGED <<zoom, shownLabels, scaleOf, location, cramped>>

\* The zoom event calls the labels one after the other: each is drawn with the
\* new scale, and placed among the others as they are.
ZoomMap ==
    /\ toPlace = <<>>
    /\ zoom' \in Scales \ {zoom}
    /\ scaleOf' = [l \in Labels |-> zoom']
    /\ toPlace' = InTreeOrder(shownLabels)
    /\ UNCHANGED <<source, shownLabels, entity, location, cramped>>

LabelsNext == PlaceLabel \/ ShowLabel \/ HideLabels \/ MoveSources \/ ZoomMap

LabelsSpec == LabelsInit /\ [][LabelsNext]_labelVars

-----------------------------------------------------------------------------
Shape(b) == b.maxX - b.minX = LabelWidth /\ b.maxY - b.minY = LabelHeight

\* A box has the size of the label, wherever it was moved.
LabelsTypeOK ==
    /\ shownLabels \subseteq Labels /\ cramped \subseteq shownLabels
    /\ \A l \in Labels : entity[l] # NoBox => Shape(entity[l])

\* No two boxes of the EntityManager touch, whatever was shown, hidden, moved
\* and zoomed before, and while a zoom is half done.
EntitiesApart ==
    \A l, m \in Labels :
        l # m /\ entity[l] # NoBox /\ entity[m] # NoBox => ~Collide(entity[l], entity[m])

\* Labels that overlap on the screen: one of them found no room the last time.
OverlapOnlyIfCramped ==
    toPlace = <<>> =>
        \A l, m \in shownLabels \ cramped : l # m => ~Collide(location[l], location[m])

\* Only what is shown takes room.
HiddenTakesNoRoom == \A l \in Labels \ shownLabels : entity[l] = NoBox

\* A label is where it wants to be unless another label is in the way.
PreferredIfFree ==
    \A l \in Labels : toPlace # <<>> /\ l = Head(toPlace) /\ entity'[l] # Preferred(l) =>
        \E m \in Labels \ {l} : entity[m] # NoBox /\ Collide(entity[m], Preferred(l))

\* Labels keep apart and close: no two take the same room, a label that overlaps
\* found none, a hidden one takes none, and none moves away without a cause.
LabelsApart ==
    /\ [](EntitiesApart /\ OverlapOnlyIfCramped /\ HiddenTakesNoRoom)
    /\ [][PreferredIfFree]_labelVars
=============================================================================
