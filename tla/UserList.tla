------------------------------ MODULE UserList ------------------------------
(***************************************************************************)
(* The list of users (dashboard/src/components/admin/user-list-card.tsx    *)
(* and user-list-page.tsx) with its search, its pages, the dialog that     *)
(* deletes a user (react-components/lib/confirmation-dialog.tsx) and the   *)
(* one that creates one (create-user-dialog.tsx), over the admin routes.   *)
(*                                                                         *)
(* A query is what a refresh asks for: the search and the page.  The       *)
(* closure of a dialog keeps the query of the render in which its button   *)
(* was pressed.                                                            *)
(***************************************************************************)
EXTENDS Integers, Sequences, FiniteSets, SequencesExt, Selection

CONSTANTS
    Names,        \* the users there can be, in the order of the server
    First,        \* those there are at first
    Matches,      \* Matches[s]: the users that the search s finds; "all" is the
                  \* empty search
    ItemsPerPage,
    MaxUserPage,  \* bound: the last page the admin asks for
    MaxInputs,    \* bound: changes of the search field and of the page, and openings
                  \* of the dialog that creates a user
    MaxQueries,   \* bound: requests for users
    MaxChanges    \* bound: changes by another admin

Searches == DOMAIN Matches

ASSUME UserListAssumption ==
    /\ Names \in Seq(Range(Names)) /\ IsInjective(Names) /\ First \subseteq Range(Names)
    /\ "all" \in Searches /\ Matches["all"] = Range(Names)
    /\ \A s \in Searches : Matches[s] \subseteq Range(Names)
    /\ ItemsPerPage \in Nat \ {0}
    /\ {MaxUserPage, MaxInputs, MaxQueries, MaxChanges} \subseteq Nat

VARIABLES
    usersDb,       \* the users of the server
    changes,       \* changes by another admin so far
    searchInput,
    searchTimer,   \* the timer of the last input runs
    inputs,        \* changes of the field and of the page so far
    search,
    userPage,
    searching,
    queries,       \* requests for users, and their answers
    queried,         \* requests so far
    strayed,       \* history: the last request overlaps another, is for a query
                   \* that a dialog kept, or failed, or the answer to a change
                   \* was lost since
    users,         \* the users listed
    selectedUser,
    openDelete,
    deleting,
    deletions,     \* DELETEs without an answer
    createDialog,  \* the dialog that creates a user, 0 if it is closed
    dialogs,       \* openings of that dialog so far
    creating,
    creations      \* POSTs of users without an answer

queryVars  == <<searching, queries, queried, strayed, users>>
inputVars  == <<searchInput, searchTimer, inputs, search, userPage>>
deleteVars == <<selectedUser, openDelete, deleting, deletions>>
createVars == <<createDialog, dialogs, creating, creations>>
userListVars == <<usersDb, changes, queryVars, inputVars, deleteVars, createVars>>

Query == [search |-> search, page |-> userPage]

UserListInit ==
    /\ usersDb = First /\ changes = 0
    /\ searchInput = "all" /\ search = "all" /\ searchTimer = FALSE
    /\ inputs = 0 /\ userPage = 0
    /\ searching = TRUE /\ queried = 1 /\ strayed = FALSE /\ users = <<>>
    /\ queries = {[n |-> 1, query |-> Query, done |-> FALSE, names |-> <<>>]}
    /\ selectedUser = "none" /\ openDelete = FALSE /\ deleting = FALSE /\ deletions = {}
    /\ createDialog = 0 /\ dialogs = 0 /\ creating = FALSE /\ creations = {}

Modal == openDelete \/ createDialog # 0

-----------------------------------------------------------------------------
(* The list.                                                               *)

\* get_users: one name more than the page shows.
Found(q) ==
    LET found == Kept(Names, usersDb \cap Matches[q.search])
        from  == q.page * ItemsPerPage + 1
        to    == from + ItemsPerPage
    IN SubSeq(found, from, IF Len(found) < to THEN Len(found) ELSE to)

ServeUsers ==
    /\ \E r \in queries :
          /\ ~r.done
          /\ queries' = (queries \ {r}) \cup {[r EXCEPT !.done = TRUE, !.names = Found(r.query)]}
    /\ UNCHANGED <<searching, queried, strayed, users>>
    /\ UNCHANGED <<usersDb, changes, inputVars, deleteVars, createVars>>

\* refresh, for the query shown or one that was kept.
RefreshUsers(query, kept) ==
    /\ queried < MaxQueries /\ queried' = queried + 1
    /\ queries' = queries \cup
           {[n |-> queried + 1, query |-> query, done |-> FALSE, names |-> <<>>]}
    /\ searching' = TRUE
    /\ strayed' = (queries # {} \/ kept)
    /\ UNCHANGED users

\* results.slice(0, ItemsPerPage)
FirstNames(names) ==
    SubSeq(names, 1, IF Len(names) < ItemsPerPage THEN Len(names) ELSE ItemsPerPage)

\* Whatever answer comes is listed.
UsersArrive ==
    /\ \E r \in queries :
          /\ r.done /\ queries' = queries \ {r}
          /\ users' = FirstNames(r.names)
    /\ searching' = FALSE
    /\ UNCHANGED <<queried, strayed, usersDb, changes, inputVars, deleteVars, createVars>>

\* The request failed, or its answer was lost: an alert, and the old rows stay.
UsersFail ==
    /\ \E r \in queries : queries' = queries \ {r}
    /\ searching' = FALSE /\ strayed' = TRUE
    /\ UNCHANGED <<users, queried, usersDb, changes, inputVars, deleteVars, createVars>>

\* The answer to a change that was made does not come: the list is not asked
\* for again.
LoseAnswer == strayed' = TRUE /\ UNCHANGED <<searching, queries, queried, users>>

Input == ~Modal /\ inputs + dialogs < MaxInputs /\ inputs' = inputs + 1

\* The field: the timer starts anew.
ChangeInput ==
    /\ Input /\ \E s \in Searches \ {searchInput} : searchInput' = s
    /\ searchTimer' = TRUE
    /\ UNCHANGED <<search, userPage, usersDb, changes, queryVars, deleteVars, createVars>>

\* The timer, and the effect on refresh if the search is another one.
SearchTimeout ==
    /\ searchTimer /\ searchTimer' = FALSE
    /\ search' = searchInput
    /\ UNCHANGED <<searchInput, inputs, userPage>>
    /\ IF search' = search THEN UNCHANGED queryVars ELSE RefreshUsers(Query', FALSE)
    /\ UNCHANGED <<usersDb, changes, deleteVars, createVars>>

\* onChangePage, and the effect.
ChangeUserPage ==
    /\ Input /\ \E p \in 0 .. MaxUserPage \ {userPage} : userPage' = p
    /\ UNCHANGED <<searchInput, searchTimer, search>>
    /\ RefreshUsers(Query', FALSE)
    /\ UNCHANGED <<usersDb, changes, deleteVars, createVars>>

-----------------------------------------------------------------------------
(* Deleting a user.                                                        *)

DeleteClick ==
    /\ ~Modal /\ openDelete' = TRUE
    /\ \E i \in DOMAIN users : selectedUser' = users[i]
    /\ UNCHANGED <<deleting, deletions, usersDb, changes, queryVars, inputVars, createVars>>

\* Cancel, or a click beside the dialog, which also works while it deletes.
CloseDelete ==
    /\ openDelete /\ openDelete' = FALSE
    /\ UNCHANGED <<selectedUser, deleting, deletions>>
    /\ UNCHANGED <<usersDb, changes, queryVars, inputVars, createVars>>

ConfirmDelete ==
    /\ openDelete /\ ~deleting /\ deleting' = TRUE
    /\ deletions' = deletions \cup {[user |-> selectedUser, query |-> Query, at |-> "sent"]}
    /\ UNCHANGED <<selectedUser, openDelete>>
    /\ UNCHANGED <<usersDb, changes, queryVars, inputVars, createVars>>

\* delete_user: 404 if there is no such user, and any request may fail.
ServeDelete ==
    /\ \E d \in deletions, at \in {"ok", "error"} :
          /\ d.at = "sent" /\ (at = "ok" => d.user \in usersDb)
          /\ usersDb' = IF at = "ok" THEN usersDb \ {d.user} ELSE usersDb
          /\ deletions' = (deletions \ {d}) \cup {[d EXCEPT !.at = at]}
    /\ UNCHANGED <<selectedUser, openDelete, deleting>>
    /\ UNCHANGED <<changes, queryVars, inputVars, createVars>>

\* setDeleting(false), after an error too.
StillDeleting(d) == FALSE

\* The rest of onSubmit: whatever dialog is open by now is closed, unless there
\* was an error or no answer came.
DeleteReturns ==
    /\ \E d \in deletions :
          /\ d.at # "sent" /\ deletions' = deletions \ {d}
          /\ deleting' = StillDeleting(d)
          /\ \/ d.at = "ok" /\ openDelete' = FALSE /\ RefreshUsers(d.query, d.query # Query)
             \/ d.at = "ok" /\ UNCHANGED openDelete /\ LoseAnswer
             \/ d.at = "error" /\ UNCHANGED <<openDelete, queryVars>>
    /\ UNCHANGED <<selectedUser, usersDb, changes, inputVars, createVars>>

-----------------------------------------------------------------------------
(* Creating a user.                                                        *)

OpenCreate ==
    /\ ~Modal /\ inputs + dialogs < MaxInputs
    /\ dialogs' = dialogs + 1 /\ createDialog' = dialogs + 1
    /\ UNCHANGED <<creating, creations, usersDb, changes, queryVars, inputVars, deleteVars>>

\* Cancel, or a click beside the dialog, which also works while it creates.
CloseCreate ==
    /\ createDialog # 0 /\ createDialog' = 0 /\ creating' = FALSE
    /\ UNCHANGED <<dialogs, creations, usersDb, changes, queryVars, inputVars, deleteVars>>

\* submitForm: an empty name is not sent.
SubmitCreate ==
    /\ createDialog # 0 /\ ~creating /\ creating' = TRUE
    /\ \E u \in Range(Names) :
          creations' = creations \cup
              {[dialog |-> createDialog, user |-> u, query |-> Query, at |-> "sent"]}
    /\ UNCHANGED <<createDialog, dialogs, usersDb, changes, queryVars, inputVars, deleteVars>>

\* create_user: an error if there is such a user, and any request may fail.
ServeCreate ==
    /\ \E c \in creations, at \in {"ok", "error"} :
          /\ c.at = "sent" /\ (at = "ok" => c.user \notin usersDb)
          /\ usersDb' = IF at = "ok" THEN usersDb \cup {c.user} ELSE usersDb
          /\ creations' = (creations \ {c}) \cup {[c EXCEPT !.at = at]}
    /\ UNCHANGED <<createDialog, dialogs, creating>>
    /\ UNCHANGED <<changes, queryVars, inputVars, deleteVars>>

\* Mutant: the promise goes on after its dialog was unmounted.
UnsafeAsync(dialog) == TRUE

\* useAsync: the rest of submitForm runs only in the dialog it began in.
SafeAsync(dialog) == dialog = createDialog

\* createUser of the card refreshes the list, unless there was an error or no
\* answer came; then submitForm goes on.
CreateReturns ==
    /\ \E c \in creations, came \in BOOLEAN :
          /\ c.at # "sent" /\ (came => c.at = "ok") /\ creations' = creations \ {c}
          /\ \/ came /\ RefreshUsers(c.query, c.query # Query)
             \/ ~came /\ c.at = "ok" /\ LoseAnswer
             \/ c.at = "error" /\ UNCHANGED queryVars
          /\ IF SafeAsync(c.dialog)
             THEN creating' = FALSE /\ createDialog' = IF came THEN 0 ELSE createDialog
             ELSE UNCHANGED <<creating, createDialog>>
    /\ UNCHANGED <<dialogs, usersDb, changes, inputVars, deleteVars>>

-----------------------------------------------------------------------------
\* Another admin creates or deletes a user, or one logs in for the first time.
OtherChange ==
    /\ changes < MaxChanges /\ changes' = changes + 1
    /\ \E u \in Range(Names) :
          usersDb' = IF u \in usersDb THEN usersDb \ {u} ELSE usersDb \cup {u}
    /\ UNCHANGED <<queryVars, inputVars, deleteVars, createVars>>

UserListNext ==
    \/ ServeUsers \/ UsersArrive \/ UsersFail \/ ChangeInput \/ SearchTimeout \/ ChangeUserPage
    \/ DeleteClick \/ CloseDelete \/ ConfirmDelete \/ ServeDelete \/ DeleteReturns
    \/ OpenCreate \/ CloseCreate \/ SubmitCreate \/ ServeCreate \/ CreateReturns
    \/ OtherChange

UserListSpec == UserListInit /\ [][UserListNext]_userListVars

-----------------------------------------------------------------------------
UserListTypeOK ==
    /\ usersDb \subseteq Range(Names) /\ changes \in 0 .. MaxChanges
    /\ {search, searchInput} \subseteq Searches /\ userPage \in 0 .. MaxUserPage
    /\ Len(users) \in 0 .. ItemsPerPage /\ IsInjective(users)
    /\ createDialog \in 0 .. dialogs
    /\ {searching, strayed, openDelete, deleting, creating, searchTimer} \subseteq BOOLEAN

\* With nothing under way the list is what the server has for the search in the
\* field and the page shown, unless the last two requests overlapped, a dialog
\* asked for the query it had kept, the request failed, or the answer to a change
\* was lost: a list that settles on something else is one of these.
UserListSettles ==
    /\ queries = {} /\ deletions = {} /\ creations = {} /\ ~searchTimer
    /\ ~strayed /\ changes = 0
    => users = FirstNames(Found([search |-> searchInput, page |-> userPage]))

\* The admin deletes one user at a time, and the button that a deletion
\* disables comes back with its answer, whatever dialog is open by then.
OneDeletion == Cardinality(deletions) = IF deleting THEN 1 ELSE 0

\* A dialog that creates a user is closed by the admin or by its own success:
\* no late answer of an earlier dialog closes or enables it.
OwnAnswerOnly ==
    /\ createDialog # 0 /\ createDialog' = 0 /\ creations' # creations =>
          \E c \in creations \ creations' : c.dialog = createDialog /\ c.at = "ok"
    /\ creating /\ ~creating' /\ createDialog' = createDialog =>
          \E c \in creations \ creations' : c.dialog = createDialog

\* A dialog that is creating waits for an answer to its own request.
NoStuckCreate == creating => \E c \in creations : c.dialog = createDialog

\* The list settles on what was searched, and a dialog heeds the answers to its
\* own request only.
UserListIsSound ==
    /\ [](UserListSettles /\ OneDeletion /\ NoStuckCreate)
    /\ [][OwnAnswerOnly]_userListVars
=============================================================================
