--------------------------- MODULE MCBookKeeper ---------------------------
(* Instances of BookKeeper for TLC.  In the first, the spin thread         *)
(* publishes the states of a fleet of one robot while a timer thread of    *)
(* the health watchdog publishes the health of a door; in the other, the   *)
(* spin thread publishes the fleet alone.                                  *)
EXTENDS BookKeeper, TLC

CONSTANTS ros, timer, fleet, health, fleetRow, robotRow, healthRow

OneThread  == {ros}
TwoThreads == {ros, timer}

FleetKeys       == {fleet}
FleetRows       == {fleetRow, robotRow}
FleetRowSets    == fleet :> {{fleetRow}, {fleetRow, robotRow}}
FleetEvents     == fleet :> 2
FleetPublishers == fleet :> {ros}

HealthRowSets    == health :> {{healthRow}}

BothKeys       == {fleet, health}
BothRows       == {fleetRow, robotRow, healthRow}
BothRowSets    == FleetRowSets @@ HealthRowSets
BothEvents     == (fleet :> 2) @@ (health :> 1)
BothPublishers == FleetPublishers @@ (health :> {timer})
=============================================================================
