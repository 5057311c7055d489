------------------------ MODULE MCTrajectorySocket ------------------------
(* One manager with four requests.                                         *)
EXTENDS TrajectorySocket, TLC

CONSTANT trajectories

OneManager    == {trajectories}
FourCalls     == trajectories :> 4
=============================================================================
