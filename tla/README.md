# A TLA+ verification project for rmf-web

rmf-web is the web front end of a robotics fleet manager (RMF). An **api server**
(`packages/api-server`, Python asyncio plus the thread that spins rclpy and one
timer thread for each running rx timer) turns ROS messages into events, saves
them, derives health from them, and pushes them over socket.io. The
**dashboard** and the **reporting** app (React) show them, on components of
`packages/react-components`; both log in through `packages/rmf-auth`. The
dashboard also talks to a trajectory server over a WebSocket of its own, and a
**reporting server** collects what the api server logs.

Nearly everything that can go wrong here is a matter of order: callbacks on
three kinds of threads, coroutines that interleave at each await, answers that
come late or in another order, forms that are closed before their answer. These
modules model that order. Paths below are relative to `src/packages/`.

## 1. Inventory

| component | state it keeps | operations | talks to |
|---|---|---|---|
| **ROS gateway** `api-server/api_server/gateway.py` | the spin thread, its finish future, subscriptions, service clients | `spin_background`, `stop_spinning`, `subscribe_all`, `unsubscribe_all`, `call_service` | event hub (from the spin thread), RMF |
| **Event hub** `rmf_io/events.py` | one rx Subject per state and health; a BehaviorSubject for the map | `on_next`, `subscribe`, `dispose` | its observers run on the publishing thread |
| **Book keeper** `rmf_io/book_keeper.py` | `_pending_tasks`, its subscriptions | `start`, `stop`, `_create_task`, one `_record_*` per subject | event hub, database |
| **Health watchdog** `rmf_io/health_watchdog.py`, `rmf_io/operators/` | an rx pipeline per device | a state, the heartbeat timer | states in, health out |
| **Server life cycle** `app.py` | `shutdown_cbs` | `on_startup`, `on_signal`, `on_shutdown` | starts and stops the above |
| **FastIO** `fast_io/`, `routes/utils.py` | `session["subscriptions"]`, watch requests | `on_connect`, `_on_subscribe`, `_on_unsubscribe`, `emit` | socket.io, routes |
| **Device routes** `routes/` | none | watch coroutines, GET, POST | database, event hub |
| **Tasks** `routes/tasks/`, `services/tasks.py`, `models/tasks.py` | task summaries | submit, cancel, list, watch | ROS services, book keeper |
| **Users and roles** `routes/admin.py`, `models/user.py`, `permissions.py` | users, roles, permissions | the admin routes | database |
| **Socket.io client** `api-client/lib/index.ts` | `_subscriptions` | `subscribe`, `unsubscribe` | FastIO |
| **Tasks page** `dashboard/src/components/tasks/`, `react-components/lib/tasks/` | page, rows, details, the form and its tasks | paging, refresh, submit, cancel, files | task routes, socket.io client |
| **Robots page** `dashboard/.../robots/`, `react-components/lib/robots/` | page, rows, the selected robot | paging, refresh, selection | REST |
| **Map page** `dashboard/.../dashboard/`, `schedule-visualizer/`, `rmf-app/` | pushed states, images, trajectories, overlays | refresh, levels, layers | socket.io client, trajectory socket |
| **Labels and paths of the map** `react-components/lib/map/`, `lib/utils/geometry.ts` | placed entities | placement; splines | none |
| **Panels and request forms** `react-components/lib/{lifts,commands}/` | fields of the forms, the grid | pick, request, clean up | REST |
| **Trajectory socket** `dashboard/src/managers/trajectory-socket-manager.ts` | `_ongoingRequest`, listeners | `send`, `_listenOnce` | trajectory server |
| **Negotiation status** `.../negotiation-status-manager.ts` | the table of conflicts | pushed updates, `removeOldConflicts` | same socket |
| **Session** `rmf-auth/lib/keycloak.ts`, `app.tsx`, `rmf-ingress.ts` | user, token | `init`, `refreshToken`, `logout` | keycloak-js |
| **Admin pages** `dashboard/.../admin/` | users, roles, permissions, dialogs | search, create, delete, assign | admin routes |
| **Report pages** `reporting/src/components/`, `react-components/lib/reports/` | rows, dates, table page | search, more rows, menu | reporting server |
| **Reporting server** `reporting-server/` | raw and parsed logs | save a batch, parse, query, clean | fluentd, database |

What is hard in each, and what makes it correct:

* **Book keeper.** `_create_task` runs three statements on the publishing thread
  while the loop may already run, finish and forget the task. Correct: `stop()`
  misses no save it could know of; rows end at the latest event; a fleet and its
  robots agree, until a gather fails and its other saves go on without the
  transaction; no save is suspended for ever.
* **Life cycle.** Two coroutines may run `on_shutdown`; one callback blocks the
  loop to join a thread that feeds the loop. Correct: the shutdown ends, and the
  database closes after the saves.
* **FastIO and watches.** A watch reads a row, sends it, and only then attaches
  to a subject another thread feeds; listeners share one session entry. Correct:
  a watch is a channel that loses and doubles nothing in the middle, nobody
  starves, and there is silence after the last unsubscribe.
* **Watchdog.** A state and a timer race through operators without a lock.
  Correct: no false alarm, no missed death, no stale mode.
* **Trajectory socket.** Replies without ids on a socket two managers share.
  Correct: a request gets its reply, and none waits for ever.
* **Pages over REST and pushes.** Answers cross, refreshes belong to an older
  render, subscriptions are replaced, dialogs are closed before their answer.
  Correct: when all is answered a page shows what it was asked for last, every
  dialog can be used or waits for an answer of its own, what a page says
  happened did happen.
* **Tasks.** A service call that times out though RMF accepted it; a row with two
  writers. Correct: no summary but a late stub replaces a newer one.
* **Session.** Refreshes and logouts cross. Correct: no page without a user, no
  request with a token about to expire.
* **Log intake.** A batch that fails half way and is sent again. Correct: what is
  accepted is saved, and a row is doubled only for a known cause.
* **Geometry.** Labels must not overlap and paths must be the splines planned.

`PROJECT.json` lists the hazards line by line, each with the properties for it.

## 2. Modules

Each module models the code of its header; each action is one handler up to its
next await, one effect of a commit, or one step of a thread. Data is reduced to
what the properties tell apart: an event is its number, a row the number of the
event that wrote it, a user, role or robot a name.

**Server.**

* `BookKeeper`: `OnEvent`, `CreateTask`, `AddDoneCallback`, `AddPending` are the rx
  lambda and the three statements of `_create_task` on a publishing thread;
  `Begin`, `Commit`, `SaveFails`, `Return`, `DoneCallback` the asyncio task;
  `StopBegin`, `Dispose`, `StopWait`, `StopReturn` are `stop()`. `Commit` writes all
  rows of an event, since `_record_fleet_state` uses a transaction. When one save
  of its gather raises (`SaveFails`) the transaction rolls back, but the gather
  cancels none of the others: they stay in `late`, and each writes its row outside
  the transaction (`WriteLate`) or raises as well (`LateFails`), at any later time.
* `Shutdown` extends it with `shutdown_cbs`, the coroutines that run
  `on_shutdown`, the join of the spin thread, and the connections.
* `HealthWatchdog`: one device. `State`, `SpinCombine`, `SpinArm`, `SpinMode` are a
  state on the spin thread, `TimerFires`, `TimerCloses`, `TimerCombine`, `TimerArm`
  the timer, which has a thread of its own (`app.py:187` passes no scheduler). The
  history `raced` remembers that a state came between a timer's check of its window
  and the end of what it then does.
* `Watch`: browser, connection, FastIO, watch coroutine and the pipeline of
  `rx_watcher` (`Handle` for `observe_on`, `Emit` for the task that emits).
  `replaying` tells the map, whose subject replays, from a device.
* `Feed`: the **abstract specification** of a watch, in a page: a channel with at
  most one state from before it opened, then every state published while it is
  open, once and in order; what is under way is lost from the front when the
  connection breaks and from the back when the watch is closed. `Watch!Channel`
  is `INSTANCE Feed` with the mapping of connection, request, queue and messages.
* `LogIntake`: fluentd's chunks and retries (external), the route, where the database
  may fail at any line, the parser, and the rows of the robots of one name, which it
  gets or creates by name and model.

**Pages, over the routes they call.**

* `TaskPage`: the page and the details over `submit_task` (which writes its stub also
  of a task RMF refused), `cancel_task` (which the page may call again before it
  answered), `get_tasks` (which may fail), the two writers of a row, and the watch of
  summaries: its read, its emit and its attach are three steps.
* `TaskForm`: the form, its files and `submitTasks`, mounted and unmounted.
* `RobotPage`, `ResourceMap`, `NegotiationStatus`, `TrajectorySocket`, `Panels`,
  `RequestForms`, `Session`: one component of the inventory each.
* `UserPage`, `UserList`, `RoleList`: the admin pages with the admin routes, where
  each await of a route is a step and a transaction is one. Any GET may fail
  (`RefreshFails`, `UsersFail`, `RolesFail`, `PermsFail`) and the page then keeps what
  it shows; the answer to a change may be lost after it was made (`NoRefresh`,
  `LoseAnswer`, `LoseRoleChange`).
* `Reports`: one report of the menu, its searches over a range that may end before,
  at or after now or be open, its further rows, its table.

**Algorithms.**

* `Labels`: placement against the entity manager, for labels that are shown,
  hidden, moved and zoomed.
* `Selection`: one operator, `Kept(s, S)`, the elements of a sequence that are in a
  set, in their order (the filters of the pages, queries and queues). It is a
  recursive function, about which one can prove things, where `SelectSeq` is not.
* `SplinePath`: `segmentToCoefficientSet`, `resolveSpline`, `bezierControlPoints` and
  `trajectoryPath` in exact integers (velocities are multiples of the durations).

**Instances.** `MCBookKeeper`, `MCShutdown`, `MCWatch`, `MCHealthWatchdog`,
`MCTrajectorySocket`, `MCPanels` give constants their values. `MCDashboard` and
`MCBackOffice` check the parts of one app in one run: `mounted` picks the part
at work, the others stay as they start. The parts share no variable and no
part's guard reads another's, so their interleaving adds no behaviour of any
part; where two do share state they are one module (`TaskPage` with its routes,
`TrajectorySocket` with both managers) or extend one another (`Shutdown`).

How the parts rest on each other: `TaskPage` takes from `BookKeeper` that events of
one task are saved in order with one connection, and from `Watch` that a
subscriber is told the row and then every event. `ResourceMap` has the listeners of
the trajectory manager itself (`trajListener`, `trajQueued`): the page asks at each
change and in an interval without waiting, so any number of requests may be in
flight, and from the third on two of them take one answer, as `TrajectorySocket`
shows for one manager that is alone. `NegotiationStatus`
keeps its own subscription on the same socket; the trajectories its manager asks
for are requests of `TrajectorySocket`.

## 3. Runs

| run | question | states |
|---|---|---|
| `BookKeeper` | one connection, two publishing threads, `stop()` at any time, saves that fail: are the rows the latest, do fleet and robots agree but for what a failed gather leaves running, is `stop()` sound, does everything end? | @BK |
| `BookKeeperPool` | *violation*: two connections, an older state overwrites a newer one | |
| `Shutdown` | does the lifespan event close the server gracefully, and does it end? | @SD |
| `ShutdownSignal` | *violation*: a signal closes the database under pending saves | |
| `WatchTwo` | two listeners, one reconnection, with and without replay: do server and client **implement `Feed`**, is nobody starved, who is not told the latest? | @WT |
| `WatchLive` | one listener, reads that fail: does every event arrive, every unsubscribe end, and is it silent after? | |
| `WatchShared` | *violation*: a watch outlives both unsubscribes | |
| `Dashboard` | what an operator sees: eleven parts: types, 12 properties of order, 2 of progress | @DB |
| `BackOffice` | what an administrator sees and what runs behind it: six parts | @BO |
| `WatchdogRace` | *violation*: a state races the timer, and the silence that follows is never noticed | |
| `TrajectoryThree` | *violation*: a third request takes another's reply | |
| `LiftRequest` | *violation*: "End Session" is picked and another type is sent | |

Each property of a passing run has a mutant in `PROJECT.json`: a plausible bug of
the code it is about, defined beside the definition it replaces, under which
TLC finds the property violated.

### Bounds, and why they are enough

* `BookKeeper`: a fleet of one robot with two events, a health with one. Two tasks
  of one thread overlap, and two threads race the loop and `stop()`.
* `Shutdown`: a map that may be None and a health that both threads publish, an
  event each: a save is pending at every callback.
* `WatchTwo`: two requests, so that one replaces the other in the session; two
  states, so that one is published before and one after the attach. To keep it
  in reach, `TwoSpec` of `MCWatch` lets the browser come back only while it can
  still subscribe, then with one listener and a device: what is checked of
  two listeners and of replay is about one connection. Listeners are symmetric.
  `WatchLive` drops the second listener and keeps two requests and failures.
* tasks page: two tasks, two pages of one, two fetches, or one and a cancellation, and
  one click on the list or on auto refresh: answers cross, and the watch of a row is
  opened twice.
* form: two forms, an edit, files of one and of two tasks (so that a file may have
  fewer than the one selected), two submissions.
* robots: four robots of two fleets with a common name, pages of two, three
  requests. Map: two building maps, of which the second has a level
  less, three requests in flight, which is where answers begin to be mixed; the fleet is
  the only device, doors being subscribed to and drawn the same way. Labels: three of 2 x 1 that overlap, two scales. Paths: three knots
  of four poses and four velocities with durations 1 and 2. Panels: none or two columns,
  three lifts, then one of them with other levels. Forms: two fleets that share a place, three picks.
  Negotiations: versions 9, 10, 11 with one retained, for which the string order
  and the numeric order differ. Socket: three requests of one manager and one of
  the other, a pushed message. Session: three tokens.
* admin: two users, a search that finds one, two queries, and two more inputs or
  openings of the dialog that creates a user; two roles, a permission, two requests
  of each kind. Reports: rows -1 .. 1, answers of two rows, so that a full answer and
  one that is not occur, three requests; the range begins at the first row and ends
  anywhere, also in the future or not at all.
  Intake: three lines, two tries, two models with one name, one fault, of the
  connection or the database. Watchdog: a lift with a
  healthy, two faulty and an unknown mode, `LIVELINESS` 3: every distance between
  two states below, at and above it, up to more than twice it.

`CHECK_DEADLOCK FALSE` is said where the bounds let a behaviour end. The run
`WatchdogRace` keeps the check: its clock goes on for ever.

### Fairness

Weak fairness only, and only of what a scheduler or a peer does: a thread inside
`_create_task` has non-blocking statements left; the asyncio loop runs every
ready callback; the database and RMF answer, with success or an error or the
timeout of the code; a message on an unbroken connection arrives; fluentd
flushes and retries; the trajectory server answers. No event, click, signal,
`stop()` or reconnection is forced. Liveness is stated as `[]<>` of rest where
the number of calls is bounded (`EveryTaskEnds`, `EverySubmissionReturns`,
`EveryRequestEnds`, `EveryLineEnds`), as `~>` otherwise.

One assumption deserves a warning: `_create_task` calls `loop.create_task` from a
foreign thread, which does not wake an idle loop. That the loop wakes for some
other message or timer is taken from its environment.

### What some properties leave out, on purpose

A property that holds except in a named case names the case, since that is how
the code behaves. The exceptions are history variables or conditions on the
state, set by the very step that makes the case, and the mutants show that what is
left is not empty. All of them:

* **Book keeper and server.** A row is `Torn` when a save that a failed gather left
  running wrote it last; then it may be behind its events, or newer than its
  fleet's row, until the next event of its key is saved (`RowsAreLatest`,
  `FleetRowsAgree`). `CleanStop` says nothing of threads caught inside a callback,
  `AtMostOneLate` and `ClosedGracefully` bound what comes of them; the spin thread can
  be one of them, and its update be unsaved when the database closes. What a failed
  gather left running is waited for by nobody.
* **Watches.** `FreshOrGap` lists four ways a listener may miss the latest state.
* **Watchdog.** `SilenceIsNoticed`, `DeadMeansSilent` and `HealthIsCurrent` say nothing
  from a state that comes between a timer's check and its end (`raced`) to the next
  state that puts both halves right; `ModeIsCurrent` holds all the while.
* **Tasks page.** `PageSettles`: two fetches at once, a fetch that failed, a form that
  submitted on another page (`astray`). `ShownIsCurrent`: events between the row a watch
  read and its attach, or not saved by then (`behind`). `OnlyStubsGoBack`: the stub of
  a submission whose answer was slower than the book keeper. `StubsHaveTasks`: the stub
  of a refused task. `CancelIsTrue`: a timeout, and a second click.
* **Form.** `SelectionInRange`: a file with fewer tasks than the number of the one
  selected takes the page away (`crashed`).
* **Map.** `TrajectoriesSettle`: the last answer an error (`trajFailed`), or three requests
  without an answer at once (`mixed`), until all are answered and the map asks again.
  `MapIsDrawn`: a load of images that failed, or the slower load of an older map.
  `LabelsFollowOverlay`: after the map was blank and drawn anew. `LabelsApart`: a label
  that found no room keeps its old place.
* **Robots page.** Without a click, another robot may be selected by the answer to a
  refresh: a namesake in another fleet, or one selected before. `RobotsSettle` speaks of
  the time when the answer to the last request is applied.
* **Panels and forms.** A lift is sent to a level its form *offered* since it was mounted
  or used: under an open form the map may change, and with it the levels the lift
  has, or the lift itself. In a panel narrower than a column no lift is shown. A
  delivery form that was used for another fleet mixes the places of two
  (`PlacesOfTarget`, `RequestIsSound`).
* **Negotiations.** `NewestStay`: a version with more digits is pruned before an older
  one with fewer: sorted as strings, 10 goes and 9 stays.
* **Trajectory socket.** What `RepliesInOrder` says of the order of a manager's replies it
  says while that manager never had more than two requests in flight (`crowded`).
* **Session.** Only the dashboard's pages and its API clients' requests: the reporting
  App does not listen once it has a user, and trajectory requests take the token
  they find.
* **User, users, roles.** `UserSettles`, `UserListSettles`, `RoleListSettles`,
  `PermissionsSettle`: requests that overlapped, a last request that failed, the lost
  answer to a change, a change by somebody else or from another card, and in the list
  of users a query that a dialog had kept. `UntouchedRolesStay`, `RefusalIsTrue`: loads
  of roles that overlapped or failed, and a Save while they load.
* **Reports.** `RowAtItsOffset`: a range that went on after the rows there were, in which
  rows added meanwhile move the others (no row is left out between two even
  then). `OneSearch`: requests that overlapped.
* **Intake.** A row is saved twice for a health, for a summary of an ambiguous
  robot, or after a fault of the connection or the database; a name is ambiguous
  after a summary before every state of it, or after two models.

## 4. Proofs

What is proved holds for all values of the constants that satisfy the module's
assumption. In each module the argument is one inductive invariant, proved with
one step per action, and the properties follow from it.

* **`BookKeeperProofs`**: `TypeCorrect`, `InductiveInvariant`, and from it
  `PendingIsComplete`, `StopIsClean`, `PendingStaysLive`, `LateIsBounded` and their
  conjunction `StopStaysSound`. `PendingComplete` is not inductive alone: a done
  callback could take an unfinished task out of the set in an unreachable state
  (excluded by `CallbackInv`), and `create_task` could revive a finished event
  (`HandInv`). `CleanStop` needs `StopInv`: what `stop()` waits for covers every
  unfinished save but those of threads caught in a callback. `PendingIsLive`
  needs `LiveInv`, `AtMostOneLate` needs `LateInv`.
  `RowsStayLatest` and `FleetRowsStayTogether` assume `OneWriter`: one connection,
  one publishing thread for each key, and no row of two keys. `OrderInv` then
  follows an event from its thread (`HeldInv`) through the order of creation
  (`BornInv`) and the connection (`QueueInv`) to its rows (`DbInv`); what a failed
  gather left running is of its own event, and tears the row it writes (`LeftInv`).
  Without one connection `RowsAreLatest` is false, as `BookKeeperPool` shows.
  `ServerRunsTheBookKeeper`: `ShutdownSpec => Spec`, step by step, so all of this
  also holds of the book keeper in its server. With it `ClosesGracefully`, for any
  callbacks in any order, where one coroutine runs `on_shutdown` (`OneRunner`; with
  two it is false, as `ShutdownSignal` shows): `LifeInv` relates what is left of
  `shutdown_cbs` to what is stopped, joined and closed.
* **`HealthWatchdogProofs`**: `TypeCorrect`, `InductiveInvariant`, `ModeStaysCurrent`
  (from `ModeInv`, whatever the threads do), and `NoFalseAlarm`, `NoMissedDeath`,
  `AlarmStaysTrue`, `HealthStaysCurrent` (from `QuietInv`). `QuietInv` says of the two
  threads, until they race, that the armed timer is that of the current window; the
  race of `WatchdogRace` breaks just that.
* **`FeedProofs`**: `FeedInOrder` and the action property `NeverGoesBack`: the channel
  shows no watch an older state, or one twice, for any number of watches, subjects
  and broken connections.
* **`WatchProofs`**: `WatchTypeCorrect`, and `WatchImplementsFeed`: the client, the
  connection, FastIO, the coroutine of a watch and its pipeline implement that
  channel, for any listeners, requests and reconnections. Under the mapping most
  steps stutter; the rest are one step of `Feed` each, and the invariant is what
  the simulation needs: session and handlers know only requests that were made (`RequestInv`), a row and
  what was read of it are not ahead of what was published (`SavedInv`), and a watch
  that has sent nothing has nothing under way, in whatever queue, task or message,
  nor has one of a connection that broke (`TransitInv`).
  What is proved of `Feed` thereby holds of the watches themselves (`WatchesStayInOrder`,
  `WatchesNeverGoBack`). The listeners need a second invariant (`ListenerInv`) that
  follows them to the session. `NobodyStarves` counts: a path has as many listeners, and
  unsubscribes on their way, as watches that feed it and subscribes on their way
  (`EnoughWatches`), so sharing the one session entry starves nobody.
  `SilentAfterUnsubscribe` is about one listener for each path (`OneListenerEach`; with
  two it is false, as `WatchShared` shows): the messages about a path then alternate, and
  it is fed by the watch in its session entry or by none (`TakesTurns`).
  `EveryListenerIsFreshOrInGap` needs a third (`FreshInv`): the newest of what was sent,
  queued or read is the newest published since the watch attached, or the row it read
  (`DeliveryInv`); a listener shows what the watch that called it last got last
  (`ToldInv`); one nobody called is asked for, or waits for a watch that has sent it
  nothing (`WaitInv`). So the four exceptions of `FreshOrGap` are the only ones.
* **`SelectionProofs`**: what `Kept` gives of `Append`, of a tail, of a longer set and
  of sequences without doubles. Its induction is over the smallest index at which a
  fact fails (`NatMin`), since the library's induction theorems cannot be
  instantiated here.
* **`SocketProofs`**: `NegoTypeCorrect`, `NegotiationsStayKept`: keys are sorted as
  strings, which on versions of up to six digits is the order of the versions padded
  to six, and then of their digits (`PaddedIs`); what is removed is the smallest of
  the resolved in that order, which among as many digits is the oldest. `SocketInvariant`,
  `RepliesStayInOrder`: a request that was sent listens or waits (`PlaceInv`), what
  is waited for listens and is not resolved (`PromiseInv`), the listeners
  before the one called next are resolved and those that came since are not
  (`CallInv`), and of a manager
  that was never crowded the listeners are in the order of sending and one is called
  with each message (`OrderInv`). The proof corrected the property: that requests of
  one manager are resolved in the order they were sent, however many are in
  flight, is **false**. After the double resolution of `TrajectoryThree` nothing is
  ongoing while a fourth request still waits, so a fifth sent then listens at once,
  before the fourth. `NeverOvertaken` now speaks of managers that were never
  `crowded`, and of them says more: strictly before, at every state.
* **`PagesProofs`**, the pages of the dashboard.
  `RequestsInvariant`, `RequestsStaySound`, `RequestsTypeCorrect`: the list of places
  is always that of some fleet and holds what is picked.
  `FormInvariant`, `FormStaysSound`: a submission that has not failed lacks only what
  is not answered (`Accounted`), and a form that can be used again was told of the
  failure of each earlier submission (`ToldOfFailure`).
  `SessionInvariant`, `AdmissionIsTrue`, `SessionStaysTrue`: adds who listens for
  `userChanged`, what App knows once it asked the authenticator, and that a waiting
  API request holds no token yet.
  `KnotsInvariant`, `PathStaysSpline`: the curve drawn is the
  spline at every point of any grid, as polynomial identities, without gap or kink.
  `MapStaysSettled`: the last request for trajectories is for what is shown
  (`LastAsked`), and the images of the newest map are loaded, on their way or
  accounted for (`ImagesOfNewest`).
  `RobotPageStaysSound`: the request made last is for the page shown
  (`LastIsForPage`), and once applied the rows are those (`AppliedIsShown`).
  `PageStaysTrue`, `RowsGoBackToStubs`: a row is not ahead of the book keeper
  (`RowsFollow`), only visible tasks are shown or about to be (`ShownIsSeen`), and
  the last summary on its way is the last event (`WatchIsCurrent`).
  `PanelsTypeCorrect`, `LiftsStayReachable`: the place of a lift is the quotient and
  the remainder of its number by the columns, and the form at the place of a lift
  proposes a level of that lift unless it is strange.
  `LabelsInvariant`, `LabelsTypeCorrect`, `LabelsStayApart`: a box keeps its shape
  however far it is moved aside (by induction over the rounds of `Tried`), a label
  that found room and does not wait is drawn at its entity (`DrawnAtEntity`), and
  only the preferred box is at distance 0.
  `DashboardRunsItsParts`: `MCDashboard` implements the specification of each part,
  so all of this holds of what the run checks. Hence `DashboardTypeCorrect`, where the
  form needs one more invariant, who waits for which file (`PickShape`), and
  `DashboardStaysSound`: every property of the run `Dashboard` but its liveness.
* **`BackOfficeProofs`**, the pages of the administrator.
  `ReportsStaySound`, by `AskInv` (a request remembers rows of its own report, each
  at its place, and is answered with those that follow) and `OneAtATime` (requests
  that do not overlap are of the last search); `IntakeStaysSound`, by `PostInv` (what
  of a post was handled is saved or in error), `SavedOnce` (without a cause a chunk
  is handled once) and `RobotInv`.
  `UserPageInvariant`, `UserPageStaysSound`, `UserListInvariant`, `UserListStaysSound`,
  `RoleListInvariant`, `RoleListStaysSound`: in each the list shown is the server's,
  or a change that is done will be followed by a request, or one request is under
  way and its answer is not stale (`Fresh`, `ListFollows`, `ListInv`, `Current`).
  The dialogs need more: the lists of a dialog that is open and loaded hold each role
  at most once and all of the user's that were not taken out (`Listing`); a card of a
  role that was deleted will be unmounted, or was mounted for a role already gone
  (`Doomed`, `Ghost`).
  `BackOfficeRunsItsParts`, `BackOfficeTypeCorrect`, `BackOfficeStaysSound`, as for the
  dashboard. Four types are not a matter of shape: a role is in the lists of a dialog
  at most twice even while it loads, with marks left of earlier lists (`TwiceInv`), no
  name is listed twice (`NamesInv`), a table is on a page it has (`RangeInv`), and a
  chunk that waits has a try left (`TriesInv`).

Only model-checked: all liveness, which like `ENABLED` is out of the prover's
reach. No module declares a RECURSIVE operator, and but
for `Kept` and `Tried` nothing is proved by induction over data.

## 5. What the violations say

1. `BookKeeperPool`: saves of one device are not ordered, so with a pool of more
   than one connection the database may keep the older state.
2. `ShutdownSignal`: a signal makes two coroutines share `shutdown_cbs`; one
   closes the connections while the other awaits `bookkeeper.stop()`.
3. `WatchShared`: the second subscribe of a path overwrites the first in the
   session; unsubscribing twice detaches the same watch twice.
4. `WatchdogRace`: rx operators take no lock; a timer that finds its window
   replaced arms no other. The docstring of `heartbeat.py:15-17` allows a device to
   stay alive for up to twice LIVELINESS; after such a race it stays alive for as long
   as it is silent. The docstring and the code differ the other way too: as each
   state opens a new window, without a race a device is DEAD after LIVELINESS, as
   `test_health_watchdog.py:75` has it and `SilenceIsNoticed` proves.
5. `TrajectoryThree`: all requests that wait for the ongoing one resume at once, and
   one sent later may then overtake one that was sent before (§4, `SocketProofs`).
6. `LiftRequest`: `value || first` takes the request type 0, "End Session", for
   none.

Seen while reading, without a run: `subscribeLiftHealth` of
`api-client/lib/index.ts:69` subscribes to the path of a door; the JSON logger
writes `id_` for what `health_status_parser` reads as `id`, so that a good health
is always in error (`LogIntake` models it: its batch is refused until fluentd
gives up).

## 6. Not modelled, and why

* **Generated code**: the OpenAPI client (`api-client/lib/openapi`, 5 783 lines) and
  the ROS message classes (`rmf-models`, `ros_tortoise`) have no behaviour of their
  own. They are a large share of the repository's lines.
* **Presentation**: stories, themes, markers, icons, app bars, drawers, tabs, help
  dialogs, SVG animation, click handlers of the map. Each keeps at most a flag
  that one click sets.
* **Tests, end-to-end tests and launchers**: not part of what is deployed.
* **Conversions**: ROS messages to models, a start time to seconds and
  nanoseconds, paths to route parameters, JWT decoding: pure functions that a
  unit test reaches.
* **`on_startup`** is the initial state of `Shutdown`; a signal during it is a
  hazard listed without a property, since its awaits are those of the database
  and of ROS, which the model keeps no state for.
* **The idle loop** (`book_keeper.py:120`), see Fairness: also listed without a
  property.
* **A server that lives on after fluentd lost its connection** handles the rest of
  the chunk; `LogIntake` ends the post there.
* **A fault of RMF itself** and of keycloak-js beyond an error answer.

## 7. Plan

Done: all modules above, and a theorem for every safety property of a passing run.
What would add most next, in order:

1. `on_startup` step by step in `Shutdown`, with a signal between any two.
2. A composition of `BookKeeper` and `Watch`, in place of the reduced `Save` of
   `Watch`, to show that the gap of `FreshOrGap` is the only one.
3. The panels of doors, dispensers and ingestors, which share the grid of
   `Panels`.
