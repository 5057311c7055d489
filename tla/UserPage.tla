------------------------------ MODULE UserPage ------------------------------
(***************************************************************************)
(* The profile of a user (dashboard/src/components/admin/user-profile-     *)
(* page.tsx and user-profile.tsx) with the dialog that manages the user's  *)
(* roles (manage-roles-dialog.tsx, react-components/lib/transfer-list.tsx) *)
(* over the admin routes (routes/admin.py, models/user.py).                *)
(*                                                                         *)
(* Each await of a route is a step.  A transaction is one step, as it is   *)
(* on SQLite, the default database.                                        *)
(***************************************************************************)
EXTENDS Integers, FiniteSets

CONSTANTS
    Roles,      \* names of roles
    MaxGets,    \* bound: GETs of the user
    MaxPosts,   \* bound: requests that change the user
    MaxLoads,   \* bound: GETs of the roles, by the dialog
    MaxOthers   \* bound: changes by another admin

ASSUME UserAssumption ==
    /\ IsFiniteSet(Roles) /\ "nobody" \notin Roles
    /\ {MaxGets, MaxPosts, MaxLoads, MaxOthers} \subseteq Nat

VARIABLES
    account,      \* the row of the user; Nobody if there is none
    known,        \* the roles that exist
    others,       \* changes by another admin so far
    user,         \* the user the page shows
    notFound,
    gets,         \* GETs of the user without an answer
    asks,         \* GETs of the user so far
    crossed,      \* history: the last GET overlapped another or failed, or the answer
                  \* to a change was lost since
    posts,        \* requests that change the user
    sends,        \* requests that change the user so far
    openDialog,
    loading,
    loads,        \* GETs of the roles
    opens,        \* GETs of the roles so far
    unready,      \* history: the last loads overlapped, or one failed
    available,    \* availableRoles[r]: how often r is in the list
    assigned,     \* assignedRoles
    leftChecked,
    rightChecked,
    taken,        \* history: the roles moved out of assigned since it was set
    saving

accountVars == <<account, known, others>>
getVars    == <<user, notFound, gets, asks, crossed>>
postVars   == <<posts, sends>>
loadVars   == <<loading, loads, opens, unready>>
moveVars   == <<available, assigned, taken>>
checkVars  == <<leftChecked, rightChecked>>
dialogVars == <<openDialog, loadVars, moveVars, checkVars, saving>>
userVars   == <<accountVars, getVars, postVars, dialogVars>>

Nobody == [admin |-> FALSE, roles |-> {"nobody"}]

\* A list that has every role of a set once.
Once(rs) == [r \in Roles |-> IF r \in rs THEN 1 ELSE 0]
Listed(list) == {r \in Roles : list[r] > 0}

UserInit ==
    /\ account \in [admin : {FALSE}, roles : SUBSET Roles] /\ known = Roles
    /\ others = 0
    /\ user = Nobody /\ notFound = FALSE
    /\ gets = {[n |-> 1, at |-> "sent", got |-> Nobody]} /\ asks = 1 /\ crossed = FALSE
    /\ posts = {} /\ sends = 0
    /\ openDialog = FALSE /\ saving = FALSE
    /\ loading = FALSE /\ loads = {} /\ opens = 0 /\ unready = FALSE
    /\ available = Once({}) /\ assigned = Once({}) /\ taken = {}
    /\ leftChecked = {} /\ rightChecked = {}

-----------------------------------------------------------------------------
(* The routes.                                                             *)

\* get_user: the user is looked up, and then loaded or created.
GetUser ==
    /\ \E g \in gets :
          \/ /\ g.at = "sent"
             /\ gets' = (gets \ {g}) \cup
                    {[g EXCEPT !.at = IF account = Nobody THEN "done" ELSE "found"]}
             /\ UNCHANGED account
          \/ /\ g.at = "found"
             /\ account' = IF account = Nobody THEN [admin |-> FALSE, roles |-> {}] ELSE account
             /\ gets' = (gets \ {g}) \cup {[g EXCEPT !.at = "done", !.got = account']}
    /\ UNCHANGED <<known, others, user, notFound, asks, crossed, postVars, dialogVars>>

\* make_admin and set_user_roles: the user is looked up, and then changed.  A
\* list of roles with one that does not exist, or one twice, is refused, and any
\* request may be.
ChangeUser ==
    /\ \E p \in posts :
          \/ /\ p.at = "sent"
             /\ \/ posts' = (posts \ {p}) \cup {[p EXCEPT !.at = "refused"]}
                \/ account # Nobody /\ posts' = (posts \ {p}) \cup {[p EXCEPT !.at = "found"]}
             /\ UNCHANGED account
          \/ /\ p.at = "found"
             /\ IF p.kind = "admin"
                THEN /\ account' = IF account = Nobody THEN account
                                   ELSE [account EXCEPT !.admin = p.admin]
                     /\ posts' = (posts \ {p}) \cup {[p EXCEPT !.at = "done"]}
                ELSE IF p.list = Once(Listed(p.list)) /\ Listed(p.list) \subseteq known
                THEN /\ account' = IF account = Nobody THEN account
                                   ELSE [account EXCEPT !.roles = Listed(p.list)]
                     /\ posts' = (posts \ {p}) \cup {[p EXCEPT !.at = "done"]}
                ELSE /\ posts' = (posts \ {p}) \cup {[p EXCEPT !.at = "unknown role"]}
                     /\ UNCHANGED account
    /\ UNCHANGED <<known, others, getVars, sends, dialogVars>>

\* Another admin: delete_user, delete_role, or roles for the user.
OtherAdmin ==
    /\ others < MaxOthers /\ others' = others + 1
    /\ account # Nobody
    /\ \/ account' = Nobody /\ UNCHANGED known
       \/ \E rs \in SUBSET known : account' = [account EXCEPT !.roles = rs] /\ UNCHANGED known
       \/ \E r \in known :
             known' = known \ {r} /\ account' = [account EXCEPT !.roles = @ \ {r}]
    /\ UNCHANGED <<getVars, postVars, dialogVars>>

\* get_roles answers, or the request fails.
GetRoles ==
    /\ \E l \in loads :
          /\ l.at = "sent"
          /\ \/ loads' = (loads \ {l}) \cup {[l EXCEPT !.at = "done", !.all = known]}
             \/ loads' = (loads \ {l}) \cup {[l EXCEPT !.at = "failed"]}
    /\ UNCHANGED <<accountVars, getVars, postVars, openDialog, loading, opens, unready>>
    /\ UNCHANGED <<moveVars, checkVars, saving>>

-----------------------------------------------------------------------------
(* The page.                                                               *)

\* Loading mounts its children anew when it is turned on or off, and a closed
\* dialog unmounts them: the marks of the lists are gone.
Uncheck == leftChecked' = {} /\ rightChecked' = {}

\* The effect of the dialog: the roles are loaded when it opens, and again when
\* the page shows another user object under the open dialog.
Load(defaults) ==
    /\ opens < MaxLoads /\ opens' = opens + 1
    /\ loads' = loads \cup {[n |-> opens + 1, defaults |-> defaults, at |-> "sent", all |-> {}]}
    /\ unready' = (loads # {}) /\ loading' = TRUE

\* refresh of the page.
RefreshUser ==
    /\ asks < MaxGets /\ asks' = asks + 1
    /\ gets' = gets \cup {[n |-> asks + 1, at |-> "sent", got |-> Nobody]}
    /\ crossed' = (gets # {})
    /\ UNCHANGED <<user, notFound>>

\* setUser, or setNotFound, which unmounts the cards for good.
RefreshReturns ==
    /\ \E g \in gets :
          /\ g.at = "done" /\ gets' = gets \ {g}
          /\ IF g.got = Nobody
             THEN /\ notFound' = TRUE /\ openDialog' = FALSE /\ saving' = FALSE
                  /\ Uncheck /\ UNCHANGED <<user, loadVars>>
             ELSE /\ user' = g.got /\ UNCHANGED <<notFound, openDialog, saving>>
                  /\ IF openDialog
                     THEN Load(g.got.roles) /\ (IF loading THEN UNCHANGED checkVars ELSE Uncheck)
                     ELSE UNCHANGED <<loadVars, checkVars>>
    /\ UNCHANGED <<asks, crossed, accountVars, postVars, moveVars>>

\* Any failure but 404, at any time: it is thrown in an async function that
\* nobody awaits, and the page stays as it is.
RefreshFails ==
    /\ \E g \in gets : gets' = gets \ {g}
    /\ crossed' = TRUE
    /\ UNCHANGED <<user, notFound, asks, accountVars, postVars, dialogVars>>

\* After a change that was refused, or whose answer is lost, nothing is asked.
NoRefresh(p) ==
    /\ crossed' = (crossed \/ p.at = "done")
    /\ UNCHANGED <<user, notFound, gets, asks>>

Send(post) ==
    /\ sends < MaxPosts /\ sends' = sends + 1
    /\ posts' = posts \cup {post}

\* The entry of the menu that makes the user an admin, or not.
MakeAdmin ==
    /\ user # Nobody /\ ~notFound /\ ~openDialog
    /\ Send([n |-> sends + 1, kind |-> "admin", admin |-> ~user.admin, list |-> Once({}),
             kept |-> TRUE, clean |-> TRUE, at |-> "sent"])
    /\ UNCHANGED <<accountVars, getVars, dialogVars>>

MakeAdminReturns ==
    /\ \E p \in posts :
          /\ p.kind = "admin" /\ p.at \in {"done", "refused"}
          /\ posts' = posts \ {p}
          /\ \/ p.at = "done" /\ RefreshUser
             \/ NoRefresh(p)
    /\ UNCHANGED <<sends, accountVars, dialogVars>>

-----------------------------------------------------------------------------
(* The dialog.                                                             *)

OpenDialog ==
    /\ user # Nobody /\ ~notFound /\ ~openDialog /\ openDialog' = TRUE
    /\ Load(user.roles) /\ Uncheck
    /\ UNCHANGED <<moveVars, saving, accountVars, getVars, postVars>>

\* "Cancel", or a click beside the dialog, which also works while it saves.
CloseDialog ==
    /\ openDialog /\ openDialog' = FALSE /\ Uncheck
    /\ \/ ~saving /\ loading' = FALSE
       \/ UNCHANGED loading
    /\ UNCHANGED <<loads, opens, unready, moveVars, saving, accountVars, getVars, postVars>>

\* The roles that the user does not have.
Available(l) == Once(l.all \ l.defaults)

\* Mutant: only the roles that are available are set.
LoadAvailable ==
    /\ ~notFound
    /\ \E l \in loads :
          /\ l.at # "sent" /\ loads' = loads \ {l}
          /\ unready' = (unready \/ l.at = "failed")
          /\ available' = IF l.at = "done" THEN Available(l) ELSE available
    /\ loading' = FALSE
    /\ IF loading THEN Uncheck ELSE UNCHANGED checkVars
    /\ UNCHANGED <<opens, openDialog, saving, assigned, taken, accountVars, getVars, postVars>>

\* A load returns, whatever the dialog shows by now.
LoadReturns ==
    /\ ~notFound
    /\ \E l \in loads :
          /\ l.at # "sent" /\ loads' = loads \ {l}
          /\ unready' = (unready \/ l.at = "failed")
          /\ IF l.at = "done"
             THEN available' = Available(l) /\ assigned' = Once(l.defaults) /\ taken' = {}
             ELSE UNCHANGED moveVars
    /\ loading' = FALSE
    /\ IF loading THEN Uncheck ELSE UNCHANGED checkVars
    /\ UNCHANGED <<opens, openDialog, saving, accountVars, getVars, postVars>>

UserCanMove == openDialog /\ ~loading
aroundLists == <<openDialog, loadVars, saving, accountVars, getVars, postVars>>

\* An item of a list, or all of them.
Toggle(checked, r) == IF r \in checked THEN checked \ {r} ELSE checked \cup {r}
ToggleAll(checked, list) ==
    IF Cardinality(checked) < Cardinality(Listed(list)) THEN Listed(list) ELSE {}

Check ==
    /\ UserCanMove
    /\ \/ /\ \/ \E r \in Listed(available) : leftChecked' = Toggle(leftChecked, r)
             \/ Listed(available) # {} /\ leftChecked' = ToggleAll(leftChecked, available)
          /\ UNCHANGED rightChecked
       \/ /\ \/ \E r \in Listed(assigned) : rightChecked' = Toggle(rightChecked, r)
             \/ Listed(assigned) # {} /\ rightChecked' = ToggleAll(rightChecked, assigned)
          /\ UNCHANGED leftChecked
    /\ UNCHANGED <<moveVars, aroundLists>>

Without(list, checked) == [r \in Roles |-> IF r \in checked THEN 0 ELSE list[r]]
With(list, checked)    == [r \in Roles |-> IF r \in checked THEN list[r] + 1 ELSE list[r]]

MoveRight ==
    /\ UserCanMove /\ leftChecked # {}
    /\ available' = Without(available, leftChecked)
    /\ assigned' = With(assigned, leftChecked)
    /\ leftChecked' = {}
    /\ UNCHANGED <<taken, rightChecked, aroundLists>>

MoveLeft ==
    /\ UserCanMove /\ rightChecked # {}
    /\ assigned' = Without(assigned, rightChecked)
    /\ available' = With(available, rightChecked)
    /\ taken' = taken \cup rightChecked
    /\ rightChecked' = {}
    /\ UNCHANGED <<leftChecked, aroundLists>>

\* handleOkClick; it is not disabled while the roles are loaded.
Save ==
    /\ openDialog /\ ~saving /\ saving' = TRUE
    /\ Send([n |-> sends + 1, kind |-> "roles", admin |-> FALSE, list |-> assigned, at |-> "sent",
             clean |-> loads = {} /\ ~unready,
             kept |-> \/ loads # {} \/ unready
                      \/ user.roles \subseteq Listed(assigned) \cup taken])
    /\ UNCHANGED <<openDialog, loadVars, moveVars, checkVars, accountVars, getVars>>

StopSaving(p) == FALSE

\* saveRoles of the page, and the rest of handleOkClick: the dialog closes,
\* also when it is not the one that saved.
SaveReturns ==
    /\ \E p \in posts :
          /\ p.kind = "roles" /\ p.at \notin {"sent", "found"}
          /\ posts' = posts \ {p} /\ saving' = StopSaving(p)
          /\ \/ p.at = "done" /\ RefreshUser /\ openDialog' = FALSE /\ Uncheck
             \/ NoRefresh(p) /\ UNCHANGED <<openDialog, checkVars>>
    /\ UNCHANGED <<sends, accountVars, loadVars, moveVars>>

-----------------------------------------------------------------------------
UserNext ==
    \/ GetUser \/ ChangeUser \/ OtherAdmin \/ GetRoles
    \/ RefreshReturns \/ RefreshFails \/ MakeAdmin \/ MakeAdminReturns
    \/ OpenDialog \/ CloseDialog \/ LoadReturns
    \/ Check \/ MoveRight \/ MoveLeft \/ Save \/ SaveReturns

UserSpec == UserInit /\ [][UserNext]_userVars

-----------------------------------------------------------------------------
UserTypeOK ==
    /\ {account, user} \subseteq {Nobody} \cup [admin : BOOLEAN, roles : SUBSET Roles]
    /\ known \subseteq Roles /\ others \in 0 .. MaxOthers
    /\ available \in [Roles -> 0 .. 2] /\ assigned \in [Roles -> 0 .. 2]
    /\ leftChecked \subseteq Roles /\ rightChecked \subseteq Roles
    /\ {openDialog, loading, saving, notFound} \subseteq BOOLEAN

\* When nothing is under way and nobody else changed the user, the page shows the
\* user of the server, unless answers crossed, the last GET failed or the answer
\* to a change was lost: each other change is followed by a refresh that sees it.
UserSettles ==
    gets = {} /\ posts = {} /\ ~crossed /\ others = 0 => user = account

\* A role that the page shows and that the user did not take out of the list is
\* among those saved, unless Save was pressed while the roles were loaded, or
\* after loads that overlapped or failed: then the lists may be of another load.
UntouchedRolesStay == \A p \in posts : p.kept

\* A dialog that saves, and so cannot be used, waits for an answer.
NoStuckSave == saving => \E p \in posts : p.kind = "roles"

\* "one or more roles does not exist" is said of such roles only, unless loads
\* overlapped: else no way through the lists puts a role in twice.
RefusalIsTrue ==
    \A p \in posts :
        p.at = "unknown role" /\ p.clean => ~(Listed(p.list) \subseteq known)

\* The page shows the user of the server when it rests, and its dialog saves the
\* roles that were chosen in it, or says truly why not; but for answers that
\* failed or were lost, loads that overlapped, and a Save while roles are loaded.
UserPageIsSound ==
    /\ UserSettles
    /\ UntouchedRolesStay
    /\ NoStuckSave
    /\ RefusalIsTrue
=============================================================================
