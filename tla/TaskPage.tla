------------------------------ MODULE TaskPage ------------------------------
(***************************************************************************)
(* The page of the tasks (dashboard/src/components/tasks/task-page.tsx and *)
(* the list and the details of task-panel.tsx) over the task routes of the *)
(* api server (routes/tasks, gateway.py) and RMF.                          *)
(*                                                                         *)
(* A summary is the number of its event: RMF publishes 1, 2, .. of a task, *)
(* and the last of them ends it.  0 is the stub that submit_task writes.   *)
(* The book keeper saves the events of a task in order (BookKeeper, with   *)
(* one connection); a subscriber is told what Watch tells it: the row, and *)
(* then every event.  The user is no admin: the rows of a user's group are *)
(* those that submit_task put in it.                                       *)
(***************************************************************************)
EXTENDS Integers, Sequences, FiniteSets, SequencesExt, Selection

CONSTANTS
    List,        \* the tasks, in the order the page sorts them
    Old,         \* those that ended before the page was opened
    LastEvent,        \* the number of a task's last event
    PageSize,    \* rows of a page (10)
    MaxPage,     \* bound: the last page the user asks for
    MaxFetches,  \* bound: requests for a page
    MaxRequests, \* bound: requests for a page and for a cancellation, together
    MaxClicks    \* bound: clicks on the list and on auto refresh

Ids == Range(List)

ASSUME PageAssumption ==
    /\ List \in Seq(Ids) /\ IsInjective(List) /\ Old \subseteq Ids
    /\ LastEvent \in Nat \ {0} /\ PageSize \in Nat \ {0}
    /\ MaxPage \in Nat /\ MaxFetches \in Nat
    /\ MaxRequests \in Nat /\ MaxClicks \in Nat

VARIABLES
    rmf,          \* rmf[t]: the event RMF published last, 0 if none
    saved,        \* saved[t]: the event saved last
    row,          \* row[t]: the row of the database
    submit,       \* submit[t]: where the submission of t is
    submitPage,   \* submitPage[t]: the page when t was submitted
    cancels,      \* the cancellations: their task, what RMF did of them and
                  \* what the page was told
    cancelled,    \* history: tasks RMF cancelled
    page,
    fetches,      \* requests for a page without an answer
    fetched,      \* fetchedTasks: the rows of the page shown
    asked,        \* requests for a page so far
    clicks,       \* clicks on the list and on auto refresh so far
    auto,         \* autoRefreshEnabled
    updated,      \* updatedSummaries; None if there is none
    watch,        \* watch[t]: the subscription to the summary of t
    held,         \* held[t]: the row watch_task_summary read; None if none
    chan,         \* chan[t]: summaries on their way to the page
    selectedTask, \* the task of the details, as it was when it was clicked
    shownPage,    \* history: the page that fetched is of
    astray,       \* history: the last request overlaps another, failed, or is
                  \* for the page shown when a submission was sent
    behind        \* history: behind[t]: the watch of t was attached after events
                  \* that the row it read does not have

None == -1

serverVars == <<rmf, saved, row, submit, submitPage, cancels, cancelled>>
listVars   == <<page, fetches, fetched, asked, shownPage, astray>>
watchVars  == <<auto, updated, watch, held, chan, behind>>
clickVars  == <<clicks, selectedTask>>
pageVars   == <<serverVars, listVars, watchVars, clickVars>>

NoTask == [id |-> None, ver |-> None]

PageInit ==
    /\ rmf = [t \in Ids |-> IF t \in Old THEN LastEvent ELSE 0]
    /\ saved = rmf
    /\ row = [t \in Ids |-> IF t \in Old THEN [ver |-> LastEvent, grp |-> TRUE]
                                         ELSE [ver |-> None, grp |-> FALSE]]
    /\ submit = [t \in Ids |-> IF t \in Old THEN "done" ELSE "no"]
    /\ submitPage = [t \in Ids |-> 0]
    /\ cancels = <<>> /\ cancelled = {}
    /\ page = 0 /\ fetched = <<>> /\ shownPage = None
    /\ fetches = {[n |-> 1, page |-> 0, rows |-> <<>>, done |-> FALSE]} /\ asked = 1
    /\ astray = FALSE
    /\ auto = TRUE /\ selectedTask = NoTask /\ clicks = 0
    /\ updated = [t \in Ids |-> None]
    /\ watch = [t \in Ids |-> "off"] /\ held = [t \in Ids |-> None]
    /\ chan = [t \in Ids |-> <<>>] /\ behind = [t \in Ids |-> FALSE]

-----------------------------------------------------------------------------
(* RMF, the book keeper and the routes.                                    *)

\* RMF publishes an event; the watches that are on pass it on.
Publish(t, ver) ==
    /\ rmf' = [rmf EXCEPT ![t] = ver]
    /\ IF watch[t] = "on"
       THEN /\ chan' = [chan EXCEPT ![t] = Append(@, ver)]
            /\ behind' = [behind EXCEPT ![t] = FALSE]
       ELSE UNCHANGED <<chan, behind>>
    /\ UNCHANGED <<auto, updated, watch, held>>

\* submitTasks of the page, and submit_task up to the service call.
SubmitTask(t) ==
    /\ submit[t] = "no"
    /\ submit' = [submit EXCEPT ![t] = "calling"]
    /\ submitPage' = [submitPage EXCEPT ![t] = page]
    /\ UNCHANGED <<rmf, saved, row, cancels, cancelled, listVars, watchVars, clickVars>>

\* RMF takes the task, whether or not the server still waits for its answer.
Accept(t) ==
    /\ submit[t] \in {"calling", "error"} /\ rmf[t] = 0
    /\ Publish(t, 1)
    /\ UNCHANGED <<saved, row, submit, submitPage, cancels, cancelled, listVars, clickVars>>

\* call_service returns, RMF took the task or refused it, or times out after a
\* second.
CallReturns(t) ==
    /\ submit[t] = "calling"
    /\ \/ submit' = [submit EXCEPT ![t] = "error"]
       \/ rmf[t] > 0 /\ submit' = [submit EXCEPT ![t] = "returned"]
       \/ rmf[t] = 0 /\ submit' = [submit EXCEPT ![t] = "refusing"]
    /\ UNCHANGED <<rmf, saved, row, submitPage, cancels, cancelled, listVars, watchVars, clickVars>>

\* update_or_create: a stub, in the group of the task.  It is written for a task
\* that RMF refused too; only then does submit_task answer with 422.
WriteStub(t) ==
    /\ submit[t] \in {"returned", "refusing"}
    /\ row' = [row EXCEPT ![t] = [ver |-> 0, grp |-> TRUE]]
    /\ submit' = [submit EXCEPT ![t] = IF @ = "returned" THEN "ok" ELSE "refused"]
    /\ UNCHANGED <<rmf, saved, submitPage, cancels, cancelled, listVars, watchVars, clickVars>>

Summary(t) ==
    /\ 0 < rmf[t] /\ rmf[t] < LastEvent
    /\ Publish(t, rmf[t] + 1)
    /\ UNCHANGED <<saved, row, submit, submitPage, cancels, cancelled, listVars, clickVars>>

\* Mutant: the saves of a task overtake each other.
SaveAny(t) ==
    /\ \E v \in 1 .. rmf[t] :
          /\ saved' = [saved EXCEPT ![t] = v]
          /\ row' = [row EXCEPT ![t].ver = v]
    /\ UNCHANGED <<rmf, submit, submitPage, cancels, cancelled, listVars, watchVars, clickVars>>

\* Mutant: the book keeper writes the whole row, its group included.
SaveWhole(t) ==
    /\ saved[t] < rmf[t]
    /\ saved' = [saved EXCEPT ![t] = @ + 1]
    /\ row' = [row EXCEPT ![t] = [ver |-> saved[t] + 1, grp |-> FALSE]]
    /\ UNCHANGED <<rmf, submit, submitPage, cancels, cancelled, listVars, watchVars, clickVars>>

\* TaskSummary.save of the book keeper leaves the group alone.
SaveSummary(t) ==
    /\ saved[t] < rmf[t]
    /\ saved' = [saved EXCEPT ![t] = @ + 1]
    /\ row' = [row EXCEPT ![t].ver = saved[t] + 1]
    /\ UNCHANGED <<rmf, submit, submitPage, cancels, cancelled, listVars, watchVars, clickVars>>

\* The service call of cancel_task reaches RMF, which ends the task or refuses;
\* the server may have stopped waiting.
CancelAtRmf(c) ==
    LET t == cancels[c].id IN
    /\ cancels[c].at \in {"calling", "error"} /\ cancels[c].rmf = "no"
    /\ \/ /\ 0 < rmf[t] /\ rmf[t] < LastEvent
          /\ Publish(t, LastEvent)
          /\ cancelled' = cancelled \cup {t}
          /\ cancels' = [cancels EXCEPT ![c].rmf = "ok"]
       \/ /\ rmf[t] \in {0, LastEvent}
          /\ cancels' = [cancels EXCEPT ![c].rmf = "refused"]
          /\ UNCHANGED <<rmf, watchVars, cancelled>>
    /\ UNCHANGED <<saved, row, submit, submitPage, listVars, clickVars>>

-----------------------------------------------------------------------------
(* The list.                                                               *)

\* The rows that the user may see, in the order of the page.
Seen    == {t \in Ids : row[t].ver # None /\ row[t].grp}
Visible == Kept(List, Seen)

\* get_tasks: one row more than the page shows.
Window(p) ==
    LET rows == SubSeq(Visible, p * PageSize + 1, Len(Visible)) IN
    [i \in 1 .. (IF Len(rows) < PageSize + 1 THEN Len(rows) ELSE PageSize + 1) |->
        [id |-> rows[i], ver |-> row[rows[i]].ver]]

\* fetchTasks(p), up to its await.
Fetch(p) ==
    /\ asked < MaxFetches /\ asked + Len(cancels) < MaxRequests
    /\ asked' = asked + 1
    /\ fetches' = fetches \cup {[n |-> asked + 1, page |-> p, rows |-> <<>>, done |-> FALSE]}
    /\ UNCHANGED <<fetched, shownPage, watchVars, clickVars>>

\* handleRefresh, by the button.
Refresh ==
    /\ Fetch(page) /\ astray' = (fetches # {})
    /\ UNCHANGED <<page, serverVars>>

\* onChangePage, and the effect on handleRefresh.
ChangePage ==
    /\ \E p \in 0 .. MaxPage \ {page} : page' = p /\ Fetch(p)
    /\ astray' = (fetches # {})
    /\ UNCHANGED serverVars

\* The end of submitTasks: it refreshes the page it was called on.
SubmitTasksReturns(t) ==
    /\ submit[t] = "ok" /\ submit' = [submit EXCEPT ![t] = "done"]
    /\ Fetch(submitPage[t])
    /\ astray' = (fetches # {} \/ submitPage[t] # page)
    /\ UNCHANGED <<page, rmf, saved, row, submitPage, cancels, cancelled>>

\* The request fails: fetchTasks rejects, nobody handles it, and the page keeps
\* the rows it has.
FetchFails ==
    /\ \E f \in fetches : ~f.done /\ fetches' = fetches \ {f}
    /\ astray' = TRUE
    /\ UNCHANGED <<page, fetched, asked, shownPage, serverVars, watchVars, clickVars>>

\* The server answers a request.
GetTasks ==
    /\ \E f \in fetches :
          /\ ~f.done
          /\ fetches' = (fetches \ {f}) \cup {[f EXCEPT !.rows = Window(f.page), !.done = TRUE]}
    /\ UNCHANGED <<page, fetched, asked, shownPage, astray>>
    /\ UNCHANGED <<serverVars, watchVars, clickVars>>

\* The effect on fetchedTasks: unsubscribe from all, subscribe to those shown.
Subscribed(tasks, on) ==
    [t \in Ids |-> IF on /\ \E i \in DOMAIN tasks : tasks[i].id = t
                   THEN "reading" ELSE "off"]

\* results.slice(0, 10): the row that tells of a next page is not shown.
FirstRows(rows) == SubSeq(rows, 1, IF Len(rows) < PageSize THEN Len(rows) ELSE PageSize)

\* fetchTasks, from its await on: whatever answer comes is shown.
FetchReturns ==
    /\ \E f \in fetches :
          /\ f.done
          /\ fetches' = fetches \ {f}
          /\ fetched' = FirstRows(f.rows)
          /\ shownPage' = f.page
    /\ watch' = Subscribed(fetched', auto)
    /\ UNCHANGED <<page, asked, astray, auto, updated, held, chan, behind>>
    /\ UNCHANGED <<serverVars, clickVars>>

-----------------------------------------------------------------------------
(* Summaries that are pushed.                                              *)

Click == clicks < MaxClicks /\ clicks' = clicks + 1

\* "auto refresh" of the panel.
ToggleAutoRefresh ==
    /\ Click /\ UNCHANGED selectedTask
    /\ auto' = ~auto /\ watch' = Subscribed(fetched, ~auto)
    /\ UNCHANGED <<updated, held, chan, behind, serverVars, listVars>>

\* watch_task_summary reads the row, emits it if there is one, and attaches to
\* the events.  It awaits in between: what RMF publishes before the last step
\* passes it by.
ReadSummary(t) ==
    /\ watch[t] = "reading" /\ watch' = [watch EXCEPT ![t] = "emitting"]
    /\ held' = [held EXCEPT ![t] = IF t \in Range(Visible) THEN row[t].ver ELSE None]
    /\ UNCHANGED <<auto, updated, chan, behind, serverVars, listVars, clickVars>>

EmitSummary(t) ==
    /\ watch[t] = "emitting" /\ watch' = [watch EXCEPT ![t] = "attaching"]
    /\ chan' = IF held[t] = None THEN chan ELSE [chan EXCEPT ![t] = Append(@, held[t])]
    /\ UNCHANGED <<auto, updated, held, behind, serverVars, listVars, clickVars>>

\* rx_watcher
Attach(t) ==
    /\ watch[t] = "attaching" /\ watch' = [watch EXCEPT ![t] = "on"]
    /\ behind' = [behind EXCEPT ![t] = held[t] # rmf[t]]
    /\ UNCHANGED <<auto, updated, held, chan, serverVars, listVars, clickVars>>

\* setUpdatedSummaries, by the listener of a subscription.
SummaryArrives(t) ==
    /\ chan[t] # <<>> /\ chan' = [chan EXCEPT ![t] = Tail(@)]
    /\ updated' = IF watch[t] = "off" THEN updated ELSE [updated EXCEPT ![t] = Head(chan[t])]
    /\ UNCHANGED <<auto, watch, held, behind, serverVars, listVars, clickVars>>

\* The summary a row of the page shows.
Shown(i) ==
    LET t == fetched[i].id IN
    IF updated[t] # None THEN updated[t] ELSE fetched[i].ver

-----------------------------------------------------------------------------
(* The details.                                                            *)

SelectTaskClick ==
    /\ Click
    /\ \E i \in DOMAIN fetched : selectedTask' = [id |-> fetched[i].id, ver |-> Shown(i)]
    /\ UNCHANGED <<serverVars, listVars, watchVars>>

\* handleCancelTaskClick: the button goes by the summary that was clicked, and
\* may be clicked again while the server has not answered.
CancelTaskClick ==
    /\ selectedTask # NoTask /\ selectedTask.ver < LastEvent
    /\ asked + Len(cancels) < MaxRequests
    /\ cancels' = Append(cancels, [id |-> selectedTask.id, rmf |-> "no", at |-> "calling"])
    /\ UNCHANGED <<rmf, saved, row, submit, submitPage, cancelled, listVars, watchVars, clickVars>>

\* cancel_task answers, or the call times out.  A success closes the details,
\* whatever task they are of by now.
CancelTaskReturns(c) ==
    /\ cancels[c].at = "calling"
    /\ \/ /\ cancels[c].rmf = "ok" /\ cancels' = [cancels EXCEPT ![c].at = "ok"]
          /\ selectedTask' = NoTask
       \/ /\ cancels[c].rmf = "refused" /\ cancels' = [cancels EXCEPT ![c].at = "refused"]
          /\ UNCHANGED selectedTask
       \/ /\ cancels' = [cancels EXCEPT ![c].at = "error"]
          /\ UNCHANGED selectedTask
    /\ UNCHANGED <<clicks, rmf, saved, row, submit, submitPage, cancelled, listVars, watchVars>>

-----------------------------------------------------------------------------
PageNext ==
    \/ \E t \in Ids :
          \/ SubmitTask(t) \/ Accept(t) \/ CallReturns(t) \/ WriteStub(t)
          \/ SubmitTasksReturns(t)
          \/ Summary(t) \/ SaveSummary(t)
          \/ ReadSummary(t) \/ EmitSummary(t) \/ Attach(t) \/ SummaryArrives(t)
    \/ \E c \in DOMAIN cancels : CancelAtRmf(c) \/ CancelTaskReturns(c)
    \/ CancelTaskClick
    \/ Refresh \/ ChangePage \/ GetTasks \/ FetchFails \/ FetchReturns
    \/ ToggleAutoRefresh \/ SelectTaskClick

PageSpec == PageInit /\ [][PageNext]_pageVars

-----------------------------------------------------------------------------
PageTypeOK ==
    /\ rmf \in [Ids -> 0 .. LastEvent] /\ saved \in [Ids -> 0 .. LastEvent]
    /\ row \in [Ids -> [ver : None .. LastEvent, grp : BOOLEAN]]
    /\ submit \in [Ids -> {"no", "calling", "error", "returned", "ok", "done",
                          "refusing", "refused"}]
    /\ submitPage \in [Ids -> 0 .. MaxPage]
    /\ cancelled \subseteq Ids /\ page \in 0 .. MaxPage
    /\ Len(fetched) \in 0 .. PageSize /\ shownPage \in None .. MaxPage
    /\ \A f \in fetches : Len(f.rows) \in 0 .. PageSize + 1
    /\ updated \in [Ids -> None .. LastEvent]
    /\ watch \in [Ids -> {"off", "reading", "emitting", "attaching", "on"}]
    /\ held \in [Ids -> None .. LastEvent]
    /\ \A c \in DOMAIN cancels : /\ cancels[c].rmf \in {"no", "ok", "refused"}
                                /\ cancels[c].at \in {"calling", "ok", "refused", "error"}

\* Once the answers are in, the rows are of the page whose number is shown,
\* unless two requests were under way at once, which nothing orders, the last
\* one failed, or a form submitted its tasks on another page.
PageSettles == fetches = {} /\ ~astray => shownPage = page

\* A task that submit_task answered with its id is one its user can see, on
\* whatever side of the answer the book keeper saved its events.
SubmittedIsVisible ==
    \A t \in Ids : submit[t] \in {"ok", "done"} => t \in Range(Visible)

\* A stub that no event of RMF stands behind is what a refused submission left:
\* of all the rows of the list, only such a one is of no task.
StubsHaveTasks ==
    \A t \in Ids : row[t].ver = 0 /\ rmf[t] = 0 => submit[t] = "refused"

\* A row that loses an event loses it to the stub of a submission whose answer
\* was slower than the book keeper, and to nothing else.
OnlyStubsGoBack ==
    [][\A t \in Ids : row'[t].ver < row[t].ver =>
          row'[t].ver = 0 /\ submit[t] = "returned"]_pageVars

\* With the answers in and the messages delivered, a row that is refreshed
\* automatically shows the last event, however often the page re-subscribed,
\* unless events passed between the row its watch read and the moment it was
\* attached: those the book keeper had not saved, or that came in between.
ShownIsCurrent ==
    \A i \in DOMAIN fetched :
        LET t == fetched[i].id IN
        watch[t] = "on" /\ chan[t] = <<>> /\ ~behind[t] => Shown(i) = rmf[t]

\* The page listens to the tasks it shows and to no other: no subscription of
\* an earlier page or of a list that was replaced is left behind.
WatchesWhatIsShown ==
    \A t \in Ids : watch[t] # "off" <=>
        auto /\ \E i \in DOMAIN fetched : fetched[i].id = t

\* The report of a cancellation tells what RMF did, though the button may be
\* clicked again before the answer: a success ended the task, and a refusal of a
\* task that was cancelled is an answer to the second of two clicks.  Only a time
\* out leaves the user without knowing.
CancelIsTrue ==
    \A c \in DOMAIN cancels :
        /\ cancels[c].at = "ok" => cancels[c].id \in cancelled
        /\ cancels[c].at = "refused" /\ cancels[c].id \in cancelled =>
              \E d \in DOMAIN cancels :
                  d # c /\ cancels[d].id = cancels[c].id /\ cancels[d].rmf = "ok"

\* What the page tells of the tasks is so, whatever answers, summaries, refreshes
\* and page changes cross: its rows, their summaries, what became of a
\* submission and of a cancellation.
PageIsTrue ==
    /\ PageSettles
    /\ SubmittedIsVisible
    /\ StubsHaveTasks
    /\ ShownIsCurrent
    /\ WatchesWhatIsShown
    /\ CancelIsTrue
=============================================================================
