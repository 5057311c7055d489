---------------------------- MODULE RequestForms ---------------------------
(***************************************************************************)
(* The two forms of react-components/lib/commands: LoopRequestForm and     *)
(* DeliveryRequestForm.  Both pick a fleet, and two of its places; a loop  *)
(* has a number of loops, a delivery a dispenser at each of the places.    *)
(* The lists depend on what was picked before, and the code keeps them     *)
(* together field by field.                                                *)
(***************************************************************************)
EXTENDS Integers, Sequences

CONSTANTS
    FleetNames,      \* fleetNames, in order
    PlacesOf,        \* PlacesOf[f]: availablePlaces(f), in order
    DispensersOf,    \* DispensersOf[f][p]: availableDispensers(f, p)
    LoopNumbers,     \* what may be typed as the number of loops
    MaxRequestPicks  \* bound: values picked between two requests

Blank == ""   \* also what a cleared field gives
InList(list) == {list[i] : i \in DOMAIN list}
AllPlaces == UNION {InList(PlacesOf[f]) : f \in InList(FleetNames)}

ASSUME RequestFormsAssumption ==
    /\ FleetNames \in Seq(InList(FleetNames)) /\ FleetNames # <<>>
    /\ \A f \in InList(FleetNames) : PlacesOf[f] \in Seq(InList(PlacesOf[f]))
    /\ MaxRequestPicks \in Nat /\ LoopNumbers \subseteq Int
    /\ \A f \in InList(FleetNames) : \A p \in AllPlaces : Blank \notin DispensersOf[f][p]

VARIABLES
    formKind,      \* "loop" or "delivery"
    target,        \* targetFleetName
    listOfPlaces,
    from, to,      \* startLocation, pickupPlaceName; finishLocation, dropOffPlaceName
    fromDispenser, toDispenser,
    numLoops,
    sentRequest,   \* the request that was sent last, and the fleet it was made for
    picked,        \* values picked since
    fleetLeft      \* history: a request was sent for another fleet than the first

requestVars == <<formKind, target, listOfPlaces, from, to, fromDispenser, toDispenser,
                 numLoops, sentRequest, picked, fleetLeft>>

\* places.length >= 2 ? places[i] : ''
Default(places, i) == IF Len(places) >= 2 THEN places[i] ELSE Blank

NothingSent == [fleet |-> Blank, from |-> Blank, to |-> Blank,
                fromDispenser |-> Blank, toDispenser |-> Blank, loops |-> 0]

RequestsInit ==
    /\ formKind \in {"loop", "delivery"} /\ target = FleetNames[1]
    /\ listOfPlaces = PlacesOf[target]
    /\ from = Default(listOfPlaces, 1) /\ to = Default(listOfPlaces, 2)
    /\ fromDispenser = Blank /\ toDispenser = Blank /\ numLoops = 0
    /\ sentRequest = NothingSent /\ picked = 0 /\ fleetLeft = FALSE

-----------------------------------------------------------------------------
Pick == picked < MaxRequestPicks /\ picked' = picked + 1

\* The dispensers that are offered.
DispensersAt(place) == IF place = Blank THEN {} ELSE DispensersOf[target][place]

\* setStartLocation((cur) => newPlaces.includes(cur) ? cur : ...)
KeptPlace(place, places, i) == IF place \in InList(places) THEN place ELSE Default(places, i)

\* Mutant: the dispensers stay if the places do.
DispenserKept(dispenser, place, newPlace) == IF place = newPlace THEN dispenser ELSE Blank

\* setPickupDispenser('')
DispenserAfter(dispenser, place, newPlace) == Blank

\* handleTargetFleetNameChange; a cleared field is the first fleet.  Where the
\* list of a loop is another array, its layout effect picks the first two.
ChangeFleet ==
    /\ Pick
    /\ target' \in InList(FleetNames)
    /\ listOfPlaces' = PlacesOf[target']
    /\ \/ /\ formKind = "delivery" \/ listOfPlaces' = listOfPlaces
          /\ from' = KeptPlace(from, listOfPlaces', 1) /\ to' = KeptPlace(to, listOfPlaces', 2)
       \/ /\ formKind = "loop"
          /\ from' = Default(listOfPlaces', 1) /\ to' = Default(listOfPlaces', 2)
    /\ fromDispenser' = DispenserAfter(fromDispenser, from, from')
    /\ toDispenser' = DispenserAfter(toDispenser, to, to')
    /\ UNCHANGED <<formKind, numLoops, sentRequest, fleetLeft>>

PickFrom ==
    /\ Pick
    /\ from' \in InList(listOfPlaces) \cup {Blank}
    /\ fromDispenser' = DispenserAfter(fromDispenser, from, from')
    /\ UNCHANGED <<formKind, target, listOfPlaces, to, toDispenser, numLoops>>
    /\ UNCHANGED <<sentRequest, fleetLeft>>

PickTo ==
    /\ Pick
    /\ to' \in InList(listOfPlaces) \cup {Blank}
    /\ toDispenser' = DispenserAfter(toDispenser, to, to')
    /\ UNCHANGED <<formKind, target, listOfPlaces, from, fromDispenser, numLoops, sentRequest,
                   fleetLeft>>

PickDispensers ==
    /\ formKind = "delivery" /\ Pick
    /\ fromDispenser' \in DispensersAt(from) \cup {Blank}
    /\ toDispenser' \in DispensersAt(to) \cup {Blank}
    /\ fromDispenser' = fromDispenser \/ toDispenser' = toDispenser
    /\ UNCHANGED <<formKind, target, listOfPlaces, from, to, numLoops, sentRequest, fleetLeft>>

TypeLoops ==
    /\ formKind = "loop" /\ Pick
    /\ numLoops' \in LoopNumbers
    /\ UNCHANGED <<formKind, target, listOfPlaces, from, to, fromDispenser, toDispenser,
                   sentRequest, fleetLeft>>

\* isFormValid
Valid ==
    /\ from # to /\ from # Blank /\ to # Blank
    /\ formKind = "loop"     => numLoops > 0
    /\ formKind = "delivery" => fromDispenser # Blank /\ toDispenser # Blank

\* cleanUpForm: a loop keeps its fleet; a delivery goes back to the first one,
\* with the places of the one it was made for.
TargetAfter == IF formKind = "loop" THEN target ELSE FleetNames[1]

\* handleSubmit and cleanUpForm
SendRequest ==
    /\ Valid
    /\ sentRequest' = [fleet |-> target, from |-> from, to |-> to, fromDispenser |-> fromDispenser,
                toDispenser |-> toDispenser, loops |-> numLoops]
    /\ target' = TargetAfter
    /\ from' = Default(listOfPlaces, 1) /\ to' = Default(listOfPlaces, 2)
    /\ fromDispenser' = Blank /\ toDispenser' = Blank /\ numLoops' = 0 /\ picked' = 0
    /\ fleetLeft' = (fleetLeft \/ target # FleetNames[1])
    /\ UNCHANGED <<formKind, listOfPlaces>>

RequestsNext ==
    \/ ChangeFleet \/ PickFrom \/ PickTo \/ PickDispensers \/ TypeLoops \/ SendRequest

RequestsSpec == RequestsInit /\ [][RequestsNext]_requestVars

-----------------------------------------------------------------------------
\* What is picked is what the lists offer.
RequestsTypeOK ==
    /\ target \in InList(FleetNames)
    /\ {from, to} \subseteq InList(listOfPlaces) \cup {Blank}

\* The places are those of the target fleet, except in a delivery form after a
\* request for another fleet than the first.
PlacesOfTarget ==
    \/ listOfPlaces = PlacesOf[target]
    \/ formKind = "delivery" /\ fleetLeft /\ target = FleetNames[1]

\* A dispenser is one of its place and of the target fleet, whatever was picked
\* before and in which order, after a request too.
DispensersMatch ==
    /\ fromDispenser \in DispensersAt(from) \cup {Blank}
    /\ toDispenser \in DispensersAt(to) \cup {Blank}

\* A request names two places, of its fleet with the exception above, and each
\* dispenser at its place.
RequestIsSound ==
    sentRequest # NothingSent =>
        /\ sentRequest.from # sentRequest.to
        /\ \/ fleetLeft
           \/ {sentRequest.from, sentRequest.to} \subseteq InList(PlacesOf[sentRequest.fleet])
        /\ IF formKind = "loop" THEN sentRequest.loops > 0
           ELSE /\ sentRequest.fromDispenser \in DispensersOf[sentRequest.fleet][sentRequest.from]
                /\ sentRequest.toDispenser \in DispensersOf[sentRequest.fleet][sentRequest.to]

\* In whatever order the fields of a form were filled, changed and cleaned up,
\* they fit together, and so does what is sent.
RequestsAreSound ==
    /\ PlacesOfTarget
    /\ DispensersMatch
    /\ RequestIsSound
=============================================================================
