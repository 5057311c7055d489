------------------------------ MODULE RoleList ------------------------------
(***************************************************************************)
(* The list of roles (dashboard/src/components/admin/role-list-card.tsx    *)
(* and role-list-page.tsx), the dialogs that create and delete a role, and *)
(* the permissions of the role that is expanded (permissions-card.tsx,     *)
(* add-permission-dialog.tsx), over the admin routes.                      *)
(*                                                                         *)
(* Loading mounts its children anew when it is turned on or off, so that a *)
(* refresh of the roles unmounts the permissions and their dialog.  useAsync *)
(* drops what was to run after an await in a component that is unmounted.  *)
(***************************************************************************)
EXTENDS Integers, FiniteSets

CONSTANTS
    RoleNames,   \* the roles there can be
    Perms,       \* permissions: an action on a group
    MaxRoleGets, \* bound: GETs of the roles
    MaxPermGets, \* bound: GETs of permissions
    MaxMounts,   \* bound: dialogs opened, and roles expanded
    MaxRoleChanges   \* bound: deletions of roles and removals of permissions

NoRole == "no role"

ASSUME RoleListAssumption ==
    /\ IsFiniteSet(RoleNames) /\ IsFiniteSet(Perms) /\ NoRole \notin RoleNames
    /\ {MaxRoleGets, MaxPermGets, MaxMounts, MaxRoleChanges} \subseteq Nat

VARIABLES
    permsDb,        \* permsDb[r]: the permissions of each role that exists
    roles,          \* the roles listed
    loadingRoles,
    roleGets, roleAsks,
    roleAstray,     \* history: two of them were under way at once, or the last one
                    \* failed, or the answer to a change was lost since
    roleDialog,     \* the dialog that creates a role, 0 if it is closed
    creatingRole,
    roleCreations,  \* POSTs of a role
    mounts,         \* dialogs opened and roles expanded so far
    roleChanges,    \* deletions and removals so far
    selectedDeleteRole,
    deletingRole,
    roleDeletions,  \* DELETEs of a role
    card,           \* the permissions that are expanded, 0 if none
    cardRole,       \* their role
    permissions,    \* what the card lists
    permissionsOf,  \* history: the role they were asked for, NoRole before
    permGets, permAsks,
    permAstray,     \* history: two GETs of the card were under way at once, or
                    \* a change ended that an earlier card of its role began, or
                    \* the last GET failed, or the answer to a change was lost
    permDialog,     \* the dialog that adds a permission, 0 if it is closed
    savingPerm,
    permPosts       \* additions and removals of permissions

roleClicks   == <<mounts, roleChanges>>
getRoleVars  == <<roles, loadingRoles, roleGets, roleAsks, roleAstray>>
newRoleVars  == <<roleDialog, creatingRole, roleCreations>>
delRoleVars  == <<selectedDeleteRole, deletingRole, roleDeletions>>
shownVars    == <<permissions, permissionsOf>>
getPermVars  == <<permGets, permAsks, permAstray>>
permDlgVars  == <<permDialog, savingPerm>>
cardVars     == <<card, cardRole, shownVars, getPermVars, permDlgVars>>
roleListVars == <<permsDb, getRoleVars, newRoleVars, roleClicks, delRoleVars, cardVars, permPosts>>

RoleListInit ==
    /\ permsDb \in [RoleNames -> {{}}] \cup [{} -> {{}}]
    /\ roles = {} /\ loadingRoles = TRUE
    /\ roleGets = {[n |-> 1, done |-> FALSE, roles |-> {}]} /\ roleAsks = 1 /\ roleAstray = FALSE
    /\ roleDialog = 0 /\ creatingRole = FALSE /\ roleCreations = {}
    /\ mounts = 0 /\ roleChanges = 0
    /\ selectedDeleteRole = NoRole /\ deletingRole = FALSE /\ roleDeletions = {}
    /\ card = 0 /\ cardRole = NoRole /\ permissions = {} /\ permissionsOf = NoRole
    /\ permGets = {} /\ permAsks = 0 /\ permAstray = FALSE
    /\ permDialog = 0 /\ savingPerm = FALSE /\ permPosts = {}

RoleModal == roleDialog # 0 \/ selectedDeleteRole # NoRole \/ permDialog # 0

RolesDb == DOMAIN permsDb

-----------------------------------------------------------------------------
(* The list of roles.                                                      *)

UnmountCard ==
    /\ card' = 0 /\ cardRole' = NoRole /\ permissions' = {} /\ permissionsOf' = NoRole
    /\ permDialog' = 0 /\ savingPerm' = FALSE
    /\ UNCHANGED getPermVars

\* refresh of the card: loading unmounts what it shows.
RefreshRoles ==
    /\ roleAsks < MaxRoleGets /\ roleAsks' = roleAsks + 1
    /\ roleGets' = roleGets \cup {[n |-> roleAsks + 1, done |-> FALSE, roles |-> {}]}
    /\ roleAstray' = (roleGets # {}) /\ loadingRoles' = TRUE
    /\ UNCHANGED roles
    /\ IF loadingRoles THEN UNCHANGED cardVars ELSE UnmountCard

ServeRoles ==
    /\ \E g \in roleGets :
          /\ ~g.done
          /\ roleGets' = (roleGets \ {g}) \cup {[g EXCEPT !.done = TRUE, !.roles = RolesDb]}
    /\ UNCHANGED <<roles, loadingRoles, roleAsks, roleAstray>>
    /\ UNCHANGED <<permsDb, newRoleVars, roleClicks, delRoleVars, cardVars, permPosts>>

\* refresh of the permissions of a card.
RefreshPerms(of) ==
    /\ permAsks < MaxPermGets /\ permAsks' = permAsks + 1
    /\ permGets' = permGets \cup
           {[n |-> permAsks + 1, card |-> of, role |-> cardRole', at |-> "sent", perms |-> {}]}
    /\ permAstray' = (\E g \in permGets : g.card = of)

\* An answer is listed.  If an earlier one turned loading off, an accordion may
\* be open: it goes with its role, or its permissions are asked for again.
RolesArrive ==
    /\ \E g \in roleGets :
          /\ g.done /\ roleGets' = roleGets \ {g} /\ roles' = g.roles
          /\ IF card # 0 /\ cardRole \in g.roles
             THEN /\ UNCHANGED <<card, cardRole, shownVars, permDlgVars>>
                  /\ RefreshPerms(card)
             ELSE UnmountCard
    /\ loadingRoles' = FALSE
    /\ UNCHANGED <<roleAsks, roleAstray>>
    /\ UNCHANGED <<permsDb, newRoleVars, roleClicks, delRoleVars, permPosts>>

\* The request failed, or its answer was lost: the old list stays, and so does an
\* accordion that was opened after an earlier answer.
RolesFail ==
    /\ \E g \in roleGets : roleGets' = roleGets \ {g}
    /\ loadingRoles' = FALSE /\ roleAstray' = TRUE
    /\ UNCHANGED <<roles, roleAsks>>
    /\ UNCHANGED <<permsDb, newRoleVars, roleClicks, delRoleVars, cardVars, permPosts>>

\* The answer to a change that was made does not come.
LoseRoleChange ==
    /\ roleAstray' = TRUE /\ permAstray' = TRUE
    /\ UNCHANGED <<roles, loadingRoles, roleGets, roleAsks>>
    /\ UNCHANGED <<card, cardRole, shownVars, permGets, permAsks, permDlgVars>>

\* After a change the roles are asked for again, unless its answer does not come.
AfterRoleChange(heard) == IF heard THEN RefreshRoles ELSE LoseRoleChange

Mount == mounts < MaxMounts /\ mounts' = mounts + 1 /\ UNCHANGED roleChanges
Change == roleChanges < MaxRoleChanges /\ roleChanges' = roleChanges + 1 /\ UNCHANGED mounts

OpenRoleDialog ==
    /\ ~RoleModal /\ Mount /\ roleDialog' = mounts + 1 /\ creatingRole' = FALSE
    /\ UNCHANGED <<roleCreations, permsDb, getRoleVars, delRoleVars, cardVars, permPosts>>

CloseRoleDialog ==
    /\ roleDialog # 0 /\ roleDialog' = 0 /\ creatingRole' = FALSE
    /\ UNCHANGED <<roleCreations, roleClicks, permsDb>>
    /\ UNCHANGED <<getRoleVars, delRoleVars, cardVars, permPosts>>

\* submitForm: an empty name is not sent.
SubmitRole ==
    /\ roleDialog # 0 /\ ~creatingRole /\ creatingRole' = TRUE
    /\ \E r \in RoleNames :
          roleCreations' = roleCreations \cup {[dialog |-> roleDialog, role |-> r, at |-> "sent"]}
    /\ UNCHANGED <<roleDialog, roleClicks, permsDb, getRoleVars, delRoleVars, cardVars, permPosts>>

\* create_role: 422 if there is such a role, and any request may fail.
ServeCreateRole ==
    /\ \E c \in roleCreations :
          /\ c.at = "sent"
          /\ \/ /\ c.role \notin RolesDb
                /\ permsDb' = [r \in RolesDb \cup {c.role} |->
                                  IF r \in RolesDb THEN permsDb[r] ELSE {}]
                /\ roleCreations' = (roleCreations \ {c}) \cup {[c EXCEPT !.at = "ok"]}
             \/ /\ roleCreations' = (roleCreations \ {c}) \cup {[c EXCEPT !.at = "error"]}
                /\ UNCHANGED permsDb
    /\ UNCHANGED <<roleDialog, creatingRole, roleClicks>>
    /\ UNCHANGED <<getRoleVars, delRoleVars, cardVars, permPosts>>

\* createRole of the card, then the rest of submitForm if its dialog is there.
RoleCreated ==
    /\ \E c \in roleCreations, heard \in BOOLEAN :
          /\ c.at # "sent" /\ roleCreations' = roleCreations \ {c}
          /\ IF c.at = "ok" THEN AfterRoleChange(heard) ELSE UNCHANGED <<getRoleVars, cardVars>>
          /\ creatingRole' = (creatingRole /\ c.dialog # roleDialog)
          /\ roleDialog' = IF c.dialog = roleDialog /\ c.at = "ok" /\ heard THEN 0 ELSE roleDialog
    /\ UNCHANGED <<roleClicks, permsDb, delRoleVars, permPosts>>

-----------------------------------------------------------------------------
(* Deleting a role.                                                        *)

\* setDeleting(false), also while a role is deleted.
NotDeletingRole == deletingRole' = FALSE

\* handleRoleDelete, of the accordion that is expanded.
DeleteRoleClick ==
    /\ ~RoleModal /\ card # 0
    /\ selectedDeleteRole' = cardRole /\ NotDeletingRole
    /\ UNCHANGED <<roleDeletions, permsDb, roleClicks>>
    /\ UNCHANGED <<getRoleVars, newRoleVars, cardVars, permPosts>>

CloseDeleteRole ==
    /\ selectedDeleteRole # NoRole /\ selectedDeleteRole' = NoRole
    /\ UNCHANGED <<deletingRole, roleDeletions>>
    /\ UNCHANGED <<permsDb, getRoleVars, newRoleVars, roleClicks, cardVars, permPosts>>

ConfirmDeleteRole ==
    /\ selectedDeleteRole # NoRole /\ ~deletingRole /\ deletingRole' = TRUE /\ Change
    /\ roleDeletions' = roleDeletions \cup
           {[n |-> roleChanges, role |-> selectedDeleteRole, at |-> "sent"]}
    /\ UNCHANGED <<selectedDeleteRole, permsDb, getRoleVars, newRoleVars, cardVars, permPosts>>

\* delete_role, with the permissions of the role: 404 if there is none, and any
\* request may fail.
ServeDeleteRole ==
    /\ \E d \in roleDeletions :
          /\ d.at = "sent"
          /\ \/ /\ d.role \in RolesDb
                /\ permsDb' = [r \in RolesDb \ {d.role} |-> permsDb[r]]
                /\ roleDeletions' = (roleDeletions \ {d}) \cup {[d EXCEPT !.at = "ok"]}
             \/ /\ roleDeletions' = (roleDeletions \ {d}) \cup {[d EXCEPT !.at = "error"]}
                /\ UNCHANGED permsDb
    /\ UNCHANGED <<selectedDeleteRole, deletingRole>>
    /\ UNCHANGED <<getRoleVars, newRoleVars, roleClicks, cardVars, permPosts>>

\* The rest of onSubmit, after an error too: whatever dialog is open by now is
\* closed.
RoleDeleted ==
    /\ \E d \in roleDeletions, heard \in BOOLEAN :
          /\ d.at # "sent" /\ roleDeletions' = roleDeletions \ {d}
          /\ selectedDeleteRole' = NoRole
          /\ IF d.at = "ok" THEN AfterRoleChange(heard) ELSE UNCHANGED <<getRoleVars, cardVars>>
    /\ UNCHANGED <<deletingRole, permsDb, newRoleVars, roleClicks, permPosts>>

-----------------------------------------------------------------------------
(* The permissions of a role.                                              *)

\* A role is expanded: its permissions are mounted, and asked for.
Expand ==
    /\ ~RoleModal /\ ~loadingRoles /\ card = 0 /\ Mount
    /\ card' = mounts + 1 /\ cardRole' \in roles
    /\ permissions' = {} /\ permissionsOf' = NoRole
    /\ RefreshPerms(card')
    /\ UNCHANGED <<permDlgVars, permsDb, getRoleVars, newRoleVars, delRoleVars, permPosts>>

Collapse ==
    /\ ~RoleModal /\ card # 0 /\ UnmountCard
    /\ UNCHANGED <<permsDb, getRoleVars, newRoleVars, roleClicks, delRoleVars, permPosts>>

\* get_role_permissions.
ServePerms ==
    /\ \E g \in permGets :
          /\ g.at = "sent" /\ g.role \in RolesDb
          /\ permGets' = (permGets \ {g}) \cup {[g EXCEPT !.at = "ok", !.perms = permsDb[g.role]]}
    /\ UNCHANGED <<card, cardRole, shownVars, permAsks, permAstray, permDlgVars>>
    /\ UNCHANGED <<permsDb, getRoleVars, newRoleVars, roleClicks, delRoleVars, permPosts>>

\* Mutant: an answer is listed by the card that is there by now.
AnyCard(g) == card # 0

\* useAsync: an answer is listed by the card that asked, if it is still there.
SameCard(g) == g.card = card

PermsArrive ==
    /\ \E g \in permGets :
          /\ g.at = "ok" /\ permGets' = permGets \ {g}
          /\ IF SameCard(g)
             THEN permissions' = g.perms /\ permissionsOf' = g.role
             ELSE UNCHANGED shownVars
    /\ UNCHANGED <<card, cardRole, permAsks, permAstray, permDlgVars>>
    /\ UNCHANGED <<permsDb, getRoleVars, newRoleVars, roleClicks, delRoleVars, permPosts>>

\* The request failed, which it does if there is no such role, or its answer was
\* lost: the card keeps its old list.
PermsFail ==
    /\ \E g \in permGets :
          /\ permGets' = permGets \ {g}
          /\ permAstray' = (permAstray \/ g.card = card)
    /\ UNCHANGED <<card, cardRole, shownVars, permAsks, permDlgVars>>
    /\ UNCHANGED <<permsDb, getRoleVars, newRoleVars, roleClicks, delRoleVars, permPosts>>

PostPerm(kind, p, dialog) ==
    permPosts' = permPosts \cup {[kind |-> kind, perm |-> p, role |-> cardRole, card |-> card,
                                  dialog |-> dialog, at |-> "sent"]}

RemovePermission ==
    /\ ~RoleModal /\ card # 0
    /\ \E p \in permissions : PostPerm("remove", p, 0)
    /\ Change /\ UNCHANGED <<permsDb, getRoleVars, newRoleVars, delRoleVars, cardVars>>

OpenPermDialog ==
    /\ ~RoleModal /\ card # 0 /\ Mount /\ permDialog' = mounts + 1 /\ savingPerm' = FALSE
    /\ UNCHANGED <<card, cardRole, shownVars, getPermVars>>
    /\ UNCHANGED <<permsDb, getRoleVars, newRoleVars, delRoleVars, permPosts>>

ClosePermDialog ==
    /\ permDialog # 0 /\ permDialog' = 0 /\ savingPerm' = FALSE
    /\ UNCHANGED <<card, cardRole, shownVars, getPermVars>>
    /\ UNCHANGED <<permsDb, getRoleVars, newRoleVars, roleClicks, delRoleVars, permPosts>>

\* handleSubmit: a permission without an action or a group is not sent.
SavePermission ==
    /\ permDialog # 0 /\ ~savingPerm /\ savingPerm' = TRUE
    /\ \E p \in Perms : PostPerm("add", p, permDialog)
    /\ UNCHANGED <<card, cardRole, shownVars, getPermVars, permDialog>>
    /\ UNCHANGED <<permsDb, getRoleVars, newRoleVars, roleClicks, delRoleVars>>

\* add_role_permission and remove_role_permission: 404 if there is no such role,
\* and any request may fail.
ServePermPost ==
    /\ \E p \in permPosts :
          /\ p.at = "sent"
          /\ \/ /\ p.role \in RolesDb
                /\ permsDb' = [permsDb EXCEPT ![p.role] =
                         IF p.kind = "add" THEN @ \cup {p.perm} ELSE @ \ {p.perm}]
                /\ permPosts' = (permPosts \ {p}) \cup {[p EXCEPT !.at = "ok"]}
             \/ /\ permPosts' = (permPosts \ {p}) \cup {[p EXCEPT !.at = "error"]}
                /\ UNCHANGED permsDb
    /\ UNCHANGED <<getRoleVars, newRoleVars, roleClicks, delRoleVars, cardVars>>

\* setSaving(false), by the dialog that saved.
PermDialogDone(p) == savingPerm' = (savingPerm /\ p.dialog # permDialog)

\* The card refreshes, which does nothing if it is gone; the dialog goes on.  If
\* no answer comes there is an alert, and no refresh.
PermPostReturns ==
    /\ \E p \in permPosts, heard \in BOOLEAN :
          /\ p.at # "sent" /\ permPosts' = permPosts \ {p}
          /\ IF p.at = "ok" /\ heard /\ p.card = card
             THEN UNCHANGED <<card, cardRole, shownVars>> /\ RefreshPerms(p.card)
             ELSE /\ UNCHANGED <<card, cardRole, shownVars, permGets, permAsks>>
                  /\ permAstray' = (permAstray \/ (p.at = "ok" /\ p.role = cardRole))
          /\ PermDialogDone(p)
          /\ permDialog' = IF p.dialog = permDialog /\ p.at = "ok" /\ heard THEN 0 ELSE permDialog
    /\ UNCHANGED <<permsDb, getRoleVars, newRoleVars, roleClicks, delRoleVars>>

-----------------------------------------------------------------------------
RoleListNext ==
    \/ ServeRoles \/ RolesArrive \/ RolesFail
    \/ OpenRoleDialog \/ CloseRoleDialog \/ SubmitRole \/ ServeCreateRole \/ RoleCreated
    \/ DeleteRoleClick \/ CloseDeleteRole \/ ConfirmDeleteRole \/ ServeDeleteRole \/ RoleDeleted
    \/ Expand \/ Collapse \/ ServePerms \/ PermsArrive \/ PermsFail
    \/ RemovePermission \/ OpenPermDialog \/ ClosePermDialog \/ SavePermission \/ ServePermPost \/ PermPostReturns

RoleListSpec == RoleListInit /\ [][RoleListNext]_roleListVars

-----------------------------------------------------------------------------
RoleListTypeOK ==
    /\ RolesDb \subseteq RoleNames /\ \A r \in RolesDb : permsDb[r] \subseteq Perms
    /\ roles \subseteq RoleNames /\ permissions \subseteq Perms
    /\ {selectedDeleteRole, cardRole, permissionsOf} \subseteq RoleNames \cup {NoRole}
    /\ {roleDialog, card, permDialog} \subseteq 0 .. mounts
    /\ {loadingRoles, creatingRole, deletingRole, savingPerm} \subseteq BOOLEAN
    /\ (card = 0) = (cardRole = NoRole)

\* With no request under way the list is that of the server, whatever dialogs
\* were closed before their answers, unless the last two requests overlapped, the
\* last one failed, or the answer to a change was lost.
RoleListSettles ==
    roleGets = {} /\ roleCreations = {} /\ roleDeletions = {} /\ ~roleAstray => roles = RolesDb

\* A dialog that deletes a role can be used again, or a deletion under way will
\* close it: also when it is not the deletion of its role.
NoStuckDeleteRole == selectedDeleteRole # NoRole /\ deletingRole => roleDeletions # {}

\* The permissions under a role are those the server gave for that role.
PermissionsOfRole == permissionsOf \in {cardRole, NoRole}

\* A card whose requests are answered lists the permissions of the server,
\* unless they overlapped, the last one failed, the answer to a change was lost,
\* the change was one of an earlier card, or the role is deleted.
PermissionsSettle ==
    /\ card # 0 /\ cardRole \in RolesDb /\ ~permAstray
    /\ ~\E g \in permGets : g.card = card
    /\ \A r \in permPosts \cup roleDeletions : r.role # cardRole
    => permissions = permsDb[cardRole]

\* A dialog that saves a permission, and cannot be used, waits for its answer.
NoStuckPermission == savingPerm => \E p \in permPosts : p.dialog = permDialog

\* The roles, and the permissions of the role that is open, settle on those of
\* the server but for the cases named above, and each dialog can be used or waits
\* for its answer.
RoleListIsSound ==
    /\ RoleListSettles
    /\ PermissionsOfRole
    /\ PermissionsSettle
    /\ NoStuckDeleteRole
    /\ NoStuckPermission
=============================================================================
