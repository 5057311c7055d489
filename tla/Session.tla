------------------------------ MODULE Session ------------------------------
(***************************************************************************)
(* Who is logged in: KeycloakAuthenticator (rmf-auth/lib/keycloak.ts) over *)
(* the adapter keycloak-js, the App of the dashboard and that of the       *)
(* reporting pages, which follow it, and the requests that carry its       *)
(* token (rmf-ingress.ts, robot-trajectory-manager.ts, context.tsx).       *)
(*                                                                         *)
(* There is one user.  A token is live, ageing (refreshToken renews it) or *)
(* expired.  The event userChanged and what it makes React do is part of   *)
(* the step that emits it; effects run before the next update is drawn.    *)
(***************************************************************************)
EXTENDS Integers

CONSTANT MaxTokens   \* bound: tokens that are issued

ASSUME SessionAssumption == MaxTokens \in Nat

VARIABLES
    app,          \* the application in the tab: "dashboard" or "reporting"
    sso,          \* the session lives on the server
    token,        \* the adapter's token, "none" without one
    tokens,       \* tokens issued so far
    authUser,     \* _user is defined
    initPhase,    \* of KeycloakAuthenticator.init; "done" sets _initialized
    appUser,      \* the user of App
    listening,    \* App listens to userChanged
    authInitialized,
    appReady,     \* the resources are loaded
    profileToken, \* the token of UserProfileProvider while it fetches, or "none"
    profile,      \* the profile: "none", "user" (one of two answers), "known"
    refresh,      \* the refresh under way: "no", "asked", or "granted"
    waiters,      \* requests that wait for it: kind and the token they hold
    carried       \* history: carried[k]: the token of the last request of kind k

sessionVars == <<app, sso, token, tokens, authUser, initPhase, appUser, listening,
                 authInitialized, appReady, profileToken, profile, refresh,
                 waiters, carried>>
adapterVars == <<sso, token, tokens, refresh, waiters>>
pageVarsOfApp == <<appUser, listening, authInitialized, appReady>>
profileVars == <<profileToken, profile>>

Kinds == {"api", "trajectory"}

SessionInit ==
    /\ app \in {"dashboard", "reporting"} /\ sso \in BOOLEAN
    /\ token = "none" /\ tokens = 0 /\ authUser = FALSE /\ initPhase = "init"
    /\ appUser = FALSE /\ listening = TRUE /\ authInitialized = FALSE
    /\ appReady = (app = "reporting")
    /\ profileToken = "none" /\ profile = "none"
    /\ refresh = "no" /\ waiters = {} /\ carried = [k \in Kinds |-> "none"]

\* The pages are mounted.
Admitted == authInitialized /\ appReady /\ appUser

\* RmfApp mounts or unmounts: UserProfileProvider asks with the token it finds,
\* and forgets what it asked for.
MountRmfApp ==
    IF ~Admitted' \/ app = "reporting" THEN profileToken' = "none" /\ profile' = "none"
    ELSE IF Admitted THEN UNCHANGED profileVars
    ELSE profileToken' = token' /\ profile' = "none"

\* userChanged.  The reporting App stops to listen when it has a user.
UserChanged(user) ==
    /\ appUser' = IF listening THEN user ELSE appUser
    /\ listening' = (app = "dashboard" \/ (listening /\ ~user))

\* onAuthSuccess, within inst.init; or no session; or the server is not reached,
\* init rejects and App waits for ever.
AdapterInit ==
    /\ initPhase = "init"
    /\ \/ /\ sso /\ tokens < MaxTokens
          /\ token' = "live" /\ tokens' = tokens + 1
          /\ authUser' = TRUE /\ initPhase' = "update"
          /\ UserChanged(TRUE)
       \/ /\ ~sso /\ initPhase' = "update"
          /\ UNCHANGED <<token, tokens, authUser, appUser, listening>>
       \/ /\ initPhase' = "failed"
          /\ UNCHANGED <<token, tokens, authUser, appUser, listening>>
    /\ UNCHANGED <<app, sso, authInitialized, appReady, refresh, waiters, carried>>
    /\ MountRmfApp

\* Mutant: App trusts the events it heard.
KeepAppUser == UNCHANGED <<appUser, listening>>

\* setUser(authenticator.user || null): a reporting App without a user listens
\* again, and its second init returns at once.
AskAuthenticator ==
    /\ appUser' = authUser'
    /\ listening' = (app = "dashboard" \/ ~authUser')

\* updateToken(30), whose failure is caught, and the rest of init and of App's
\* effect.  A refused refresh clears the token.
FinishInit ==
    /\ initPhase = "update" /\ initPhase' = "done"
    /\ \/ token = "none" /\ UNCHANGED <<token, tokens>>
       \/ token # "none" /\ UNCHANGED <<token, tokens>>
       \/ /\ token \in {"ageing", "expired"} /\ sso /\ tokens < MaxTokens
          /\ token' = "live" /\ tokens' = tokens + 1
       \/ /\ token \in {"ageing", "expired"} /\ ~sso
          /\ token' = "none" /\ UNCHANGED tokens
    /\ authUser' = (token' # "none")
    /\ AskAuthenticator
    /\ authInitialized' = TRUE
    /\ UNCHANGED <<app, sso, appReady, refresh, waiters, carried>>
    /\ MountRmfApp

LoadResources ==
    /\ ~appReady /\ appReady' = TRUE
    /\ UNCHANGED <<app, adapterVars, authUser, initPhase, appUser, listening,
                   authInitialized, carried>>
    /\ MountRmfApp

\* The adapter's frame finds that the session is gone: onAuthLogout.
Logout ==
    /\ ~sso /\ token # "none"
    /\ token' = "none" /\ authUser' = FALSE
    /\ UserChanged(FALSE)
    /\ UNCHANGED <<app, sso, tokens, initPhase, authInitialized, appReady, refresh,
                   waiters, carried>>
    /\ MountRmfApp

SessionEnds ==
    /\ sso /\ sso' = FALSE
    /\ UNCHANGED <<app, token, tokens, authUser, initPhase, pageVarsOfApp, profileVars,
                   refresh, waiters, carried>>

TokenAges ==
    /\ token \in {"live", "ageing"}
    /\ token' = IF token = "live" THEN "ageing" ELSE "expired"
    /\ UNCHANGED <<app, sso, tokens, authUser, initPhase, pageVarsOfApp, profileVars,
                   refresh, waiters, carried>>

-----------------------------------------------------------------------------
\* refreshToken: nothing to do before init is done or for a live token.
NoRefresh(kind, held) == initPhase # "done" \/ token = "live"

\* A request of the dashboard.  The interceptor reads the token when it is
\* refreshed; a trajectory request holds the one it was made with.
Request(kind) ==
    /\ app = "dashboard" /\ Admitted /\ token # "none"
    /\ LET held == IF kind = "trajectory" THEN token ELSE "none" IN
       IF NoRefresh(kind, held)
       THEN /\ carried' = [carried EXCEPT ![kind] = token]
            /\ UNCHANGED <<refresh, waiters>>
       ELSE /\ waiters' = waiters \cup {[kind |-> kind, held |-> held]}
            /\ refresh' = IF refresh = "no" THEN "asked" ELSE refresh
            /\ UNCHANGED carried
    /\ UNCHANGED <<app, sso, token, tokens, authUser, initPhase, pageVarsOfApp, profileVars>>

\* A request of a report, which takes the token as it is.
ReportRequest ==
    /\ app = "reporting" /\ Admitted
    /\ carried' = [carried EXCEPT !["api"] = token]
    /\ UNCHANGED <<app, adapterVars, authUser, initPhase, pageVarsOfApp, profileVars>>

GrantRefresh ==
    /\ refresh = "asked" /\ sso /\ tokens < MaxTokens
    /\ refresh' = "granted" /\ tokens' = tokens + 1
    /\ UNCHANGED <<app, sso, token, authUser, initPhase, pageVarsOfApp, profileVars,
                   waiters, carried>>

\* The new token is there, even if the old one was cleared meanwhile.
RefreshArrives ==
    /\ refresh = "granted" /\ refresh' = "no"
    /\ token' = "live" /\ authUser' = TRUE
    /\ waiters' = {}
    /\ \E last \in [Kinds -> {"none", "live", "ageing", "expired"}] :
          /\ \A k \in Kinds :
                LET mine == {w \in waiters : w.kind = k} IN
                IF mine = {} THEN last[k] = carried[k]
                ELSE \E w \in mine : last[k] = IF w.held = "none" THEN token' ELSE w.held
          /\ carried' = last
    /\ UNCHANGED <<app, sso, tokens, initPhase, pageVarsOfApp, profileVars>>

\* Refused, which clears the token and emits userChanged, or lost: the requests
\* reject.
RefreshFails ==
    /\ refresh = "asked" /\ refresh' = "no" /\ waiters' = {}
    /\ \/ /\ ~sso /\ token # "none"
          /\ token' = "none" /\ authUser' = FALSE /\ UserChanged(FALSE)
       \/ UNCHANGED <<token, authUser, appUser, listening>>
    /\ UNCHANGED <<app, sso, tokens, initPhase, authInitialized, appReady, carried>>
    /\ MountRmfApp

\* getUser and getEffectivePermissions, one after the other, with the token the
\* provider had when it mounted; a token that expired meanwhile is refused.
ProfileAnswer ==
    /\ profileToken # "none"
    /\ \/ /\ profile' = IF profile = "none" THEN "user" ELSE "known"
          /\ profileToken' = IF profile = "none" THEN profileToken ELSE "none"
       \/ profileToken' = "none" /\ profile' = "none"
    /\ UNCHANGED <<app, adapterVars, authUser, initPhase, pageVarsOfApp, carried>>

SessionNext ==
    \/ AdapterInit \/ FinishInit \/ LoadResources
    \/ Logout \/ SessionEnds \/ TokenAges
    \/ \E kind \in Kinds : Request(kind)
    \/ ReportRequest \/ GrantRefresh \/ RefreshArrives \/ RefreshFails \/ ProfileAnswer

SessionSpec == SessionInit /\ [][SessionNext]_sessionVars

-----------------------------------------------------------------------------
SessionTypeOK ==
    /\ token \in {"none", "live", "ageing", "expired"} /\ tokens \in 0 .. MaxTokens
    /\ initPhase \in {"init", "update", "done", "failed"}
    /\ refresh \in {"no", "asked", "granted"} /\ (refresh = "no" => waiters = {})
    /\ profile \in {"none", "user", "known"} /\ (profile = "known" => Admitted)
    /\ sso \in BOOLEAN /\ authUser \in BOOLEAN /\ appUser \in BOOLEAN
    /\ listening \in BOOLEAN /\ authInitialized \in BOOLEAN /\ appReady \in BOOLEAN

\* The dashboard shows its pages only while the authenticator has a user and a
\* token, whenever the session ends: during init, while a token is refreshed, or
\* after.  (The reporting App no longer listens once it has a user.)
NoPageWithoutUser == app = "dashboard" /\ Admitted => authUser /\ token # "none"

\* When App learns that init is done, it takes the authenticator's user, also if
\* the session ended between the event of its login and the end of init, which
\* the reporting App does not hear.
AdmittedTruly ==
    ~authInitialized /\ authInitialized' =>
        appUser' = authUser' /\ (appUser' => token' # "none")

\* A request of the dashboard's API clients never leaves with a token that is
\* about to expire, however requests, refreshes and the end of the session
\* interleave.
RequestsAreFresh == app = "dashboard" => carried["api"] \in {"none", "live"}

\* The dashboard's pages are shown only with a user, and its API clients' requests
\* sent only with a token that lasts.  (The reporting pages, and the requests for
\* trajectories, take the token they find.)
SessionIsTrue == [](NoPageWithoutUser /\ RequestsAreFresh) /\ [][AdmittedTruly]_sessionVars
=============================================================================
