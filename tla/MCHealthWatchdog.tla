------------------------- MODULE MCHealthWatchdog -------------------------
(* A lift with a healthy mode, its two faults and a mode the watchdog does *)
(* not know.                                                               *)
EXTENDS HealthWatchdog, TLC

LiftModes == {"AGV", "FIRE", "EMERGENCY", "SESSION"}
=============================================================================
