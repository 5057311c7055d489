------------------------------ MODULE TaskForm ------------------------------
(***************************************************************************)
(* The form that creates tasks (react-components/lib/tasks/create-         *)
(* task.tsx) inside the panel that opens it (dashboard/src/components/     *)
(* tasks/task-panel.tsx), with the requests task-page.tsx sends for it.    *)
(*                                                                         *)
(* A form is mounted when the panel opens it and unmounted when it is      *)
(* closed; a promise it waits for may resolve after that, and then a       *)
(* setState of the form does nothing while one of the panel still works.   *)
(* React 16 batches the setStates of an event handler only: after an await *)
(* each setState renders at once.                                          *)
(***************************************************************************)
EXTENDS Integers, Sequences, FiniteSets, SequencesExt

CONSTANTS
    Files,          \* what a file may hold: a list of tasks, <<>> if it is bad
    MaxForms,       \* bound: forms mounted
    MaxEdits,       \* bound: edits of a task
    MaxPicks,       \* bound: clicks on Select File
    MaxSubmissions  \* bound: presses of Submit

Types == {"clean", "loop", "delivery"}

\* A task of the form.  Only a new one has no type yet.
Task == [type : Types \cup {"none"}, filled : BOOLEAN]

ASSUME FormAssumption ==
    /\ Files \subseteq Seq([type : Types, filled : {TRUE}])
    /\ MaxForms \in Nat /\ MaxEdits \in Nat
    /\ MaxPicks \in Nat /\ MaxSubmissions \in Nat

VARIABLES
    form,             \* the form that is mounted, 0 if none
    forms,            \* forms mounted so far
    tasks,            \* the tasks of the mounted form
    edits,            \* edits of a task so far
    selectedTaskIdx,
    submitting,
    dialog,           \* the browser's file dialog is open
    listeners,        \* the forms that listen to the file input, in order
    reading,          \* those of them whose listener is reading the file
    file,             \* the file picked last
    picks,            \* clicks on Select File so far
    submissions,      \* presses of Submit, in order
    crashed           \* a render threw, and React unmounted everything

form_vars == <<form, forms, tasks, edits, selectedTaskIdx, submitting>>
pick_vars == <<dialog, listeners, reading, file, picks>>
formVars  == <<form_vars, pick_vars, submissions, crashed>>

DefaultTask == [type |-> "none", filled |-> FALSE]

FormInit ==
    /\ form = 0 /\ forms = 0
    /\ tasks = <<>> /\ edits = 0 /\ selectedTaskIdx = 1 /\ submitting = FALSE
    /\ dialog = FALSE /\ listeners = <<>> /\ reading = <<>>
    /\ file = <<>> /\ picks = 0
    /\ submissions = <<>> /\ crashed = FALSE

\* The user acts on the page: not under the file dialog, nor after a crash.
UserCanAct == ~dialog /\ ~crashed

-----------------------------------------------------------------------------
(* The form.                                                               *)

\* "Create task": a new form, with one task.
OpenForm ==
    /\ UserCanAct /\ form = 0 /\ forms < MaxForms
    /\ forms' = forms + 1 /\ form' = forms + 1
    /\ tasks' = <<DefaultTask>> /\ selectedTaskIdx' = 1 /\ submitting' = FALSE
    /\ UNCHANGED <<edits, pick_vars, submissions, crashed>>

Unmount ==
    /\ form' = 0 /\ tasks' = <<>> /\ selectedTaskIdx' = 1 /\ submitting' = FALSE
    /\ UNCHANGED <<forms, edits>>

\* Cancel, or a click beside the form, which also works while it submits.
CloseForm ==
    /\ UserCanAct /\ form # 0
    /\ Unmount
    /\ UNCHANGED <<pick_vars, submissions, crashed>>

\* updateTasks: the selected task is replaced.
UpdateTask(task) ==
    /\ UserCanAct /\ form # 0
    /\ edits < MaxEdits /\ edits' = edits + 1
    /\ tasks' = [tasks EXCEPT ![selectedTaskIdx] = task]
    /\ UNCHANGED <<form, forms, selectedTaskIdx, submitting>>
    /\ UNCHANGED <<pick_vars, submissions, crashed>>

\* handleTaskTypeChange: a new type resets the description.
ChangeType ==
    \E type \in Types : UpdateTask([type |-> type, filled |-> FALSE])

\* handleTaskDescriptionChange, from the form of the task's type.
ChangeDescription(type) ==
    /\ UserCanAct /\ form # 0 /\ tasks[selectedTaskIdx].type = type
    /\ UpdateTask([type |-> type, filled |-> TRUE])

DeliveryTaskForm == ChangeDescription("delivery")
LoopTaskForm     == ChangeDescription("loop")
CleanTaskForm    == ChangeDescription("clean")

SelectTask ==
    /\ UserCanAct /\ form # 0
    /\ selectedTaskIdx' \in DOMAIN tasks
    /\ UNCHANGED <<form, forms, tasks, edits, submitting>>
    /\ UNCHANGED <<pick_vars, submissions, crashed>>

-----------------------------------------------------------------------------
(* Tasks from a file.                                                      *)

\* handleSelectFileClick and tasksFromFile: one more listener.
SelectFile ==
    /\ UserCanAct /\ form # 0 /\ picks < MaxPicks
    /\ listeners' = Append(listeners, form)
    /\ dialog' = TRUE /\ picks' = picks + 1
    /\ UNCHANGED <<form_vars, reading, file, submissions, crashed>>

\* No event tells of a dismissed dialog: its listener stays on the input.
DismissDialog ==
    /\ dialog /\ dialog' = FALSE
    /\ UNCHANGED <<form_vars, listeners, reading, file, picks, submissions, crashed>>

\* The input event: every listener starts to read the file.  (The reads of a
\* file end before another is picked.)
PickFile ==
    /\ dialog /\ dialog' = FALSE
    /\ reading = <<>> /\ reading' = listeners
    /\ file' \in Files
    /\ UNCHANGED <<form_vars, listeners, picks, submissions, crashed>>

\* setTasks(newTasks), a render, which throws if the task selected is not among
\* the new ones, then setSelectedTaskIdx(0), which does nothing to a form that
\* React took off the page.
LoadTasks(newTasks) ==
    /\ tasks' = newTasks
    /\ crashed' = (selectedTaskIdx > Len(newTasks))
    /\ selectedTaskIdx' = IF crashed' THEN selectedTaskIdx ELSE 1

\* A read ends: its listener is removed and its form takes the tasks.
FileRead ==
    /\ reading # <<>> /\ reading' = Tail(reading)
    /\ listeners' = Tail(listeners)
    /\ IF Head(reading) = form /\ file # <<>> /\ ~crashed
       THEN LoadTasks(file)
       ELSE UNCHANGED <<tasks, selectedTaskIdx, crashed>>
    /\ UNCHANGED <<form, forms, edits, submitting, dialog, file, picks, submissions>>

-----------------------------------------------------------------------------
(* Submission: one request per task.  A submission knows the places of the *)
(* tasks that have no answer yet (waiting) and that RMF lacks (missing).   *)

Untyped == {i \in DOMAIN tasks : tasks[i].type = "none"}

Submission ==
    [form |-> form, untyped |-> Untyped, waiting |-> DOMAIN tasks,
     missing |-> DOMAIN tasks, failed |-> FALSE, settled |-> FALSE]

\* handleSubmit up to its await, and submitTasks of the page.
SubmitTasks ==
    /\ UserCanAct /\ form # 0 /\ ~submitting
    /\ Len(submissions) < MaxSubmissions
    /\ submitting' = TRUE
    /\ submissions' = Append(submissions, Submission)
    /\ UNCHANGED <<form, forms, tasks, edits, selectedTaskIdx, pick_vars, crashed>>

\* The server answers the request for task i.  One without a type is refused;
\* after a time out RMF may have accepted it all the same.
Answer(n, i) ==
    LET s == submissions[n] IN
    /\ i \in s.waiting
    /\ \E ok \in BOOLEAN, accepts \in BOOLEAN :
          /\ i \in s.untyped => ~accepts
          /\ ok => accepts
          /\ submissions' = [submissions EXCEPT ![n] =
                 [s EXCEPT !.waiting = @ \ {i},
                           !.missing = IF accepts THEN @ \ {i} ELSE @,
                           !.failed  = @ \/ ~ok]]
    /\ UNCHANGED <<form_vars, pick_vars, crashed>>

\* Mutant: a failed request is not caught.
SettledIfAll(s) == s.waiting = {} /\ ~s.failed

\* Promise.all: all requests succeeded, or one failed.
Settled(s) == s.failed \/ s.waiting = {}

\* Mutant: the catch leaves the form submitting.
StopSubmittingOnSuccess(s) ==
    submitting' = (submitting /\ (form # s.form \/ s.failed))

\* setSubmitting(false), by the form that submitted if it is still mounted.
StopSubmitting(s) == submitting' = (submitting /\ form # s.form)

\* The rest of handleSubmit: onFail reports, onSuccess closes the form too.
SubmitReturns(n) ==
    LET s == submissions[n] IN
    /\ ~s.settled /\ Settled(s)
    /\ submissions' = [submissions EXCEPT ![n].settled = TRUE]
    /\ IF s.failed \/ crashed
       THEN StopSubmitting(s) /\ UNCHANGED <<form, forms, tasks, edits, selectedTaskIdx>>
       ELSE Unmount
    /\ UNCHANGED <<pick_vars, crashed>>

-----------------------------------------------------------------------------
FormUser ==
    \/ OpenForm \/ CloseForm \/ SelectTask \/ SelectFile
    \/ ChangeType \/ DeliveryTaskForm \/ LoopTaskForm \/ CleanTaskForm
    \/ DismissDialog \/ PickFile \/ SubmitTasks

Answers == \E n \in DOMAIN submissions : \E i \in submissions[n].waiting : Answer(n, i)
Returns == \E n \in DOMAIN submissions : SubmitReturns(n)

FormNext == FormUser \/ FileRead \/ Answers \/ Returns

\* The server answers every request, and the browser runs what is ready.
FormFairness == WF_formVars(FileRead) /\ WF_formVars(Answers) /\ WF_formVars(Returns)

FormSpec == FormInit /\ [][FormNext]_formVars

-----------------------------------------------------------------------------
FormTypeOK ==
    /\ form \in 0 .. forms /\ forms \in 0 .. MaxForms
    /\ tasks \in Seq(Task) /\ edits \in 0 .. MaxEdits /\ selectedTaskIdx \in Nat \ {0}
    /\ submitting \in BOOLEAN /\ dialog \in BOOLEAN /\ crashed \in BOOLEAN
    /\ listeners \in Seq(1 .. forms) /\ IsPrefix(reading, listeners)
    /\ file \in Files \cup {<<>>} /\ picks \in 0 .. MaxPicks
    /\ \A n \in DOMAIN submissions :
          /\ submissions[n].form \in 1 .. forms
          /\ submissions[n].waiting \in SUBSET Nat
          /\ submissions[n].missing \in SUBSET Nat

\* However forms are opened, closed and filled from files whose promises come
\* late, the form on the screen has the task it shows, but in one case: a file of
\* fewer tasks than the number of the task selected was loaded.  The form renders
\* the new tasks before it selects the first, the render throws and React takes
\* the page away.  A file that is bad or empty never does that.
SelectionInRange ==
    /\ form # 0 /\ ~crashed => selectedTaskIdx \in DOMAIN tasks
    /\ crashed => tasks \in Files \ {<<>>} /\ selectedTaskIdx > Len(tasks)

\* A form that says it is submitting waits for a submission of its own: no
\* failure and no closing of an earlier form leaves it disabled for ever.
NoStuckForm ==
    submitting => \E n \in DOMAIN submissions :
        submissions[n].form = form /\ ~submissions[n].settled

\* "Successfully created task" is only said when RMF has every task.
SuccessIsTrue ==
    \A n \in DOMAIN submissions :
        LET s == submissions[n] IN
        s.settled /\ ~s.failed => s.missing = {}

\* A form sends its tasks once more only after an error was reported: what RMF
\* gets twice, it got from a user who was told of a failure.
TwiceOnlyAfterError ==
    \A m, n \in DOMAIN submissions :
        m < n /\ submissions[m].form = submissions[n].form =>
            submissions[m].failed /\ submissions[m].settled

\* Every press of Submit is answered by a report, one request after the other
\* failing or not, the form still there or not.
EverySubmissionReturns == []<>(\A n \in DOMAIN submissions : submissions[n].settled)

\* A form can be used, waits for an answer of its own, or crashed on a file with
\* too few tasks; and what it reports of its tasks is what RMF has.
FormIsSound ==
    /\ SelectionInRange
    /\ NoStuckForm
    /\ SuccessIsTrue
    /\ TwiceOnlyAfterError
=============================================================================
