---------------------------- MODULE MCShutdown ----------------------------
(* A fleet of one robot and a building map that is None, published by the  *)
(* spin thread, and the health of a door published by a timer of the       *)
(* watchdog.                                                               *)
EXTENDS Shutdown, TLC

CONSTANTS ros, timer, map, fleet, health, fleetRow, robotRow, healthRow

MCThreads    == {ros, timer}
MCKeys       == {map, fleet, health}
MCRows       == {fleetRow, robotRow, healthRow}
MCRowSets    == (map :> {{}}) @@ (fleet :> {{fleetRow, robotRow}})
                   @@ (health :> {{healthRow}})
MCEvents     == [k \in MCKeys |-> 1]
MCPublishers == (map :> {ros}) @@ (fleet :> {ros}) @@ (health :> {timer})
=============================================================================
