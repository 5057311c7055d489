---------------------------- MODULE MCBackOffice ----------------------------
(***************************************************************************)
(* What an administrator sees, and what runs behind it, one part of it at  *)
(* work at a time: a user's page, the list of users, the roles and their   *)
(* permissions, the reports, the intake of the logs they are made of, and  *)
(* the health of a device.  The parts share no state, so a part that is    *)
(* not at work stays as it starts.                                         *)
(***************************************************************************)
EXTENDS UserPage, UserList, RoleList, Reports, LogIntake, HealthWatchdog, TLC

VARIABLE mounted

\* The user starts without roles, and the roles without permissions.
BackOfficeInit ==
    /\ mounted \in {"user", "users", "roles", "reports", "intake", "health"}
    /\ UserInit /\ UserListInit /\ RoleListInit /\ ReportsInit /\ IntakeInit /\ WatchdogInit
    /\ account.roles = {} /\ DOMAIN permsDb = RoleNames

BackOfficeNext ==
    /\ UNCHANGED mounted
    /\ \/ /\ mounted = "user" /\ UserNext
          /\ UNCHANGED <<userListVars, roleListVars, reportVars, intakeVars,
                         watchdogVars>>
       \/ /\ mounted = "users" /\ UserListNext
          /\ UNCHANGED <<userVars, roleListVars, reportVars, intakeVars,
                         watchdogVars>>
       \/ /\ mounted = "roles" /\ RoleListNext
          /\ UNCHANGED <<userVars, userListVars, reportVars, intakeVars,
                         watchdogVars>>
       \/ /\ mounted = "reports" /\ ReportsNext
          /\ UNCHANGED <<userVars, userListVars, roleListVars, intakeVars,
                         watchdogVars>>
       \/ /\ mounted = "intake" /\ IntakeNext
          /\ UNCHANGED <<userVars, userListVars, roleListVars, reportVars,
                         watchdogVars>>
       \/ /\ mounted = "health" /\ WatchdogNext
          /\ UNCHANGED <<userVars, userListVars, roleListVars, reportVars,
                         intakeVars>>

backOfficeVars ==
    <<mounted, userVars, userListVars, roleListVars, reportVars, intakeVars, watchdogVars>>

\* Nothing of the intake is enabled before a line is logged, so its fairness
\* asks nothing of it while it is not at work.
BackOfficeSpec == BackOfficeInit /\ [][BackOfficeNext]_backOfficeVars /\ IntakeFairness

-----------------------------------------------------------------------------
\* Each part keeps its types.
BackOfficeTypeOK ==
    /\ UserTypeOK /\ UserListTypeOK /\ RoleListTypeOK /\ ReportsTypeOK /\ IntakeTypeOK
    /\ WatchdogTypeOK

-----------------------------------------------------------------------------
(* The instances.                                                          *)

\* Two users, one of them found by typing "b".
TwoUsers   == <<"ann", "bob">>
UsersFound == [all |-> {"ann", "bob"}, b |-> {"bob"}]

TwoRowsBefore == -1
FromTheFirst  == {TwoRowsBefore}

\* A healthy mode of a lift, its two faults, and a mode the watchdog does not know.
LiftModes == {"AGV", "FIRE", "EMERGENCY", "SESSION"}
=============================================================================
