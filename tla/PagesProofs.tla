---------------------------- MODULE PagesProofs -----------------------------
(* Proofs about the pages of the dashboard.  The request forms, for any    *)
(* fleets, places and dispensers; the form of new tasks, for any files and *)
(* any number of forms, edits and submissions; the session of a user, for  *)
(* any number of tokens; the paths on the map, for any trajectory; the map, *)
(* for any building maps, doors and answers; the page of the robots and that *)
(* of the tasks, for any rows, page sizes, clicks and order of the answers; *)
(* the panel of the lifts, for any building maps and lifts; the labels of  *)
(* the map, for any labels, places and scales; and the dashboard they are  *)
(* parts of (MCDashboard).                                                 *)
EXTENDS MCDashboard, SocketProofs, SelectionProofs, FiniteSetTheorems,
        SequenceTheorems, TLAPS

-----------------------------------------------------------------------------
(* RequestForms.                                                           *)

\* The fields fit together, and what is picked is in a list of places, which is
\* always that of some fleet.  A loop form keeps no dispensers.
FieldsInv ==
    /\ formKind \in {"loop", "delivery"}
    /\ target \in InList(FleetNames)
    /\ listOfPlaces \in {PlacesOf[f] : f \in InList(FleetNames)}
    /\ from \in InList(listOfPlaces) \cup {Blank}
    /\ to \in InList(listOfPlaces) \cup {Blank}
    /\ PlacesOfTarget
    /\ DispensersMatch

RequestsInv == FieldsInv /\ RequestIsSound

-----------------------------------------------------------------------------
\* The default of a field is in the list of places (loop-request-form.tsx 24-40).
LEMMA DefaultIsListed ==
    ASSUME NEW f \in InList(FleetNames), NEW i \in {1, 2}
    PROVE  Default(PlacesOf[f], i) \in InList(PlacesOf[f]) \cup {Blank}
<1>1. PlacesOf[f] \in Seq(InList(PlacesOf[f]))
  BY RequestFormsAssumption
<1>2. CASE Len(PlacesOf[f]) >= 2
  <2>1. i \in DOMAIN PlacesOf[f]
    BY <1>1, <1>2
  <2> QED
    BY <2>1, <1>2 DEF Default, InList
<1>3. CASE ~(Len(PlacesOf[f]) >= 2)
  BY <1>3 DEF Default
<1> QED
  BY <1>2, <1>3

LEMMA KeptIsListed ==
    ASSUME NEW f \in InList(FleetNames), NEW i \in {1, 2}, NEW place
    PROVE  KeptPlace(place, PlacesOf[f], i) \in InList(PlacesOf[f]) \cup {Blank}
BY DefaultIsListed DEF KeptPlace

LEMMA FirstFleet == FleetNames[1] \in InList(FleetNames)
<1>1. FleetNames \in Seq(InList(FleetNames)) /\ FleetNames # <<>>
  BY RequestFormsAssumption
<1>2. 1 \in DOMAIN FleetNames
  BY <1>1
<1> QED
  BY <1>2 DEF InList

-----------------------------------------------------------------------------
LEMMA FieldsInit == RequestsInit => FieldsInv
<1> SUFFICES ASSUME RequestsInit PROVE FieldsInv
  OBVIOUS
<1>1. /\ target \in InList(FleetNames) /\ listOfPlaces = PlacesOf[target]
      /\ formKind \in {"loop", "delivery"} /\ fromDispenser = Blank /\ toDispenser = Blank
  BY FirstFleet DEF RequestsInit
<1>2. /\ from \in InList(listOfPlaces) \cup {Blank}
      /\ to \in InList(listOfPlaces) \cup {Blank}
  BY <1>1, DefaultIsListed DEF RequestsInit
<1> QED
  BY <1>1, <1>2 DEF FieldsInv, PlacesOfTarget, DispensersMatch

\* Another fleet: its places, and no dispensers.
LEMMA ChangeFleetKeepsFields ==
    ASSUME FieldsInv, ChangeFleet PROVE FieldsInv'
<1>1. /\ target' \in InList(FleetNames) /\ listOfPlaces' = PlacesOf[target']
      /\ formKind' = formKind
  BY DEF ChangeFleet
<1>2. fromDispenser' = Blank /\ toDispenser' = Blank
  BY DEF ChangeFleet, DispenserAfter
<1>3. /\ from' \in InList(listOfPlaces') \cup {Blank}
      /\ to' \in InList(listOfPlaces') \cup {Blank}
  BY <1>1, DefaultIsListed, KeptIsListed DEF ChangeFleet
<1> QED
  BY <1>1, <1>2, <1>3 DEF FieldsInv, PlacesOfTarget, DispensersMatch

\* A request was sent: the form is cleaned up.
LEMMA SendKeepsFields ==
    ASSUME FieldsInv, SendRequest PROVE FieldsInv'
<1>1. formKind' = formKind /\ listOfPlaces' = listOfPlaces
  BY DEF SendRequest
<1>2. fromDispenser' = Blank /\ toDispenser' = Blank
  BY DEF SendRequest
<1>3. PICK f \in InList(FleetNames) : listOfPlaces = PlacesOf[f]
  BY DEF FieldsInv
<1>4. /\ from' \in InList(listOfPlaces') \cup {Blank}
      /\ to' \in InList(listOfPlaces') \cup {Blank}
  BY <1>1, <1>3, DefaultIsListed DEF SendRequest
<1>5. target' \in InList(FleetNames)
  BY FirstFleet DEF SendRequest, TargetAfter, FieldsInv
<1>6. PlacesOfTarget'
  <2>1. CASE formKind = "loop"
    BY <2>1, <1>1 DEF FieldsInv, PlacesOfTarget, SendRequest, TargetAfter
  <2>2. CASE formKind = "delivery"
    <3>1. target' = FleetNames[1] /\ fleetLeft' = (fleetLeft \/ target # FleetNames[1])
      BY <2>2 DEF SendRequest, TargetAfter
    <3>2. CASE fleetLeft'
      BY <3>1, <3>2, <2>2, <1>1 DEF PlacesOfTarget
    <3>3. CASE ~fleetLeft'
      <4>1. ~fleetLeft /\ target = FleetNames[1]
        BY <3>1, <3>3
      <4> QED
        BY <4>1, <3>1, <1>1 DEF FieldsInv, PlacesOfTarget
    <3> QED
      BY <3>2, <3>3
  <2> QED
    BY <2>1, <2>2 DEF FieldsInv
<1> QED
  BY <1>1, <1>2, <1>3, <1>4, <1>5, <1>6 DEF FieldsInv, DispensersMatch

\* What is sent fits together, because the fields did.
LEMMA SentIsSound ==
    ASSUME FieldsInv, SendRequest PROVE RequestIsSound'
<1>1. /\ sentRequest'.fleet = target /\ sentRequest'.from = from /\ sentRequest'.to = to
      /\ sentRequest'.fromDispenser = fromDispenser /\ sentRequest'.toDispenser = toDispenser
      /\ sentRequest'.loops = numLoops
  BY DEF SendRequest
<1>2. formKind' = formKind /\ from # to /\ from # Blank /\ to # Blank
  BY DEF SendRequest, Valid
<1>3. fleetLeft' \/ {from, to} \subseteq InList(PlacesOf[target])
  <2> SUFFICES ASSUME ~fleetLeft' PROVE {from, to} \subseteq InList(PlacesOf[target])
    OBVIOUS
  <2>1. ~fleetLeft
    BY DEF SendRequest
  <2>2. listOfPlaces = PlacesOf[target]
    BY <2>1 DEF FieldsInv, PlacesOfTarget
  <2> QED
    BY <2>2, <1>2 DEF FieldsInv
<1>4. formKind = "loop" => numLoops > 0
  BY DEF SendRequest, Valid
<1>5. formKind # "loop" => /\ fromDispenser \in DispensersOf[target][from]
                           /\ toDispenser \in DispensersOf[target][to]
  <2> SUFFICES ASSUME formKind # "loop"
               PROVE  /\ fromDispenser \in DispensersOf[target][from]
                      /\ toDispenser \in DispensersOf[target][to]
    OBVIOUS
  <2>1. fromDispenser # Blank /\ toDispenser # Blank
    BY DEF SendRequest, Valid, FieldsInv
  <2> QED
    BY <2>1, <1>2 DEF FieldsInv, DispensersMatch, DispensersAt
<1> QED
  BY <1>1, <1>2, <1>3, <1>4, <1>5 DEF RequestIsSound

-----------------------------------------------------------------------------
\* The fields and the last request, whatever is picked in whatever order.
THEOREM RequestsInvariant == RequestsSpec => []RequestsInv
<1>1. RequestsInit => RequestsInv
  BY FieldsInit DEF RequestsInit, RequestsInv, RequestIsSound
<1>2. RequestsInv /\ [RequestsNext]_requestVars => RequestsInv'
  <2> SUFFICES ASSUME RequestsInv, [RequestsNext]_requestVars PROVE RequestsInv'
    OBVIOUS
  <2> USE DEF RequestsInv
  <2>1. CASE ChangeFleet
    <3>1. RequestIsSound'
      BY <2>1 DEF ChangeFleet, RequestIsSound
    <3> QED
      BY <2>1, <3>1, ChangeFleetKeepsFields
  <2>2. CASE PickFrom
    BY <2>2 DEF PickFrom, DispenserAfter, FieldsInv, PlacesOfTarget, DispensersMatch,
                DispensersAt, RequestIsSound
  <2>3. CASE PickTo
    BY <2>3 DEF PickTo, DispenserAfter, FieldsInv, PlacesOfTarget, DispensersMatch,
                DispensersAt, RequestIsSound
  <2>4. CASE PickDispensers
    BY <2>4 DEF PickDispensers, FieldsInv, PlacesOfTarget, DispensersMatch,
                DispensersAt, RequestIsSound
  <2>5. CASE TypeLoops
    BY <2>5 DEF TypeLoops, FieldsInv, PlacesOfTarget, DispensersMatch, DispensersAt,
                RequestIsSound
  <2>6. CASE SendRequest
    BY <2>6, SendKeepsFields, SentIsSound
  <2>7. CASE UNCHANGED requestVars
    BY <2>7 DEF requestVars, FieldsInv, PlacesOfTarget, DispensersMatch, DispensersAt,
                RequestIsSound
  <2> QED
    BY <2>1, <2>2, <2>3, <2>4, <2>5, <2>6, <2>7 DEF RequestsNext
<1> QED
  BY <1>1, <1>2, PTL DEF RequestsSpec

\* In whatever order the fields of a form are filled, changed and cleaned up,
\* they fit together, and so does what is sent (lib/commands).
THEOREM RequestsStaySound == RequestsSpec => []RequestsAreSound
<1>1. RequestsInv => RequestsAreSound
  BY DEF RequestsInv, FieldsInv, RequestsAreSound
<1> QED
  BY <1>1, RequestsInvariant, PTL

\* What is picked is what the lists offer.
THEOREM RequestsTypeCorrect == RequestsSpec => []RequestsTypeOK
<1>1. RequestsInv => RequestsTypeOK
  BY DEF RequestsInv, FieldsInv, RequestsTypeOK
<1> QED
  BY <1>1, RequestsInvariant, PTL

-----------------------------------------------------------------------------
(* TaskForm.                                                               *)

Submissions == [form : Nat \ {0}, untyped : SUBSET Nat, waiting : SUBSET Nat,
                missing : SUBSET Nat, failed : BOOLEAN, settled : BOOLEAN]

\* What the form on the screen shows, and the files it is filled from.
ScreenInv ==
    /\ forms \in Nat /\ form \in 0 .. forms
    /\ submitting \in BOOLEAN /\ crashed \in BOOLEAN
    /\ file \in Files \cup {<<>>}
    /\ tasks \in Seq(Task)
    /\ SelectionInRange

SubmissionsShape ==
    /\ submissions \in Seq(Submissions)
    /\ \A n \in DOMAIN submissions : submissions[n].form <= forms

\* A submission that has not failed lacks only what was not answered yet; it is
\* settled once it failed or has every answer.
Accounted(s) ==
    /\ ~s.failed => s.missing \subseteq s.waiting
    /\ s.settled => Settled(s)

AnswersInv == \A n \in DOMAIN submissions : Accounted(submissions[n])

\* A form that can be used and does not submit was told that all its earlier
\* submissions failed.
ToldOfFailure ==
    \A n \in DOMAIN submissions :
        ~crashed /\ submissions[n].form = form /\ ~submitting =>
            submissions[n].failed /\ submissions[n].settled

FormInv ==
    /\ ScreenInv /\ SubmissionsShape /\ AnswersInv
    /\ NoStuckForm /\ TwiceOnlyAfterError /\ ToldOfFailure

-----------------------------------------------------------------------------
LEMMA SubmissionFields ==
    ASSUME NEW s \in Submissions
    PROVE  /\ s.form \in Nat \ {0} /\ s.waiting \in SUBSET Nat /\ s.missing \in SUBSET Nat
           /\ s.failed \in BOOLEAN /\ s.settled \in BOOLEAN
BY DEF Submissions

\* The tasks and the selection (create-task.tsx): every step of the form keeps
\* the selected task among the tasks.
LEMMA ScreenStep ==
    ASSUME FormInv, [FormNext]_formVars PROVE ScreenInv'
<1> USE DEF FormInv, ScreenInv, SelectionInRange
<1>1. CASE OpenForm
  <2>1. DefaultTask \in Task
    BY DEF DefaultTask, Task, Types
  <2>2. tasks' = <<DefaultTask>> /\ selectedTaskIdx' = 1
    BY <1>1 DEF OpenForm
  <2>3. tasks' \in Seq(Task) /\ selectedTaskIdx' \in DOMAIN tasks'
    BY <2>1, <2>2
  <2>4. submitting' \in BOOLEAN /\ crashed' \in BOOLEAN
    BY <1>1, Zenon DEF OpenForm
  <2>5. forms' \in Nat /\ form' \in 0 .. forms' /\ file' = file /\ ~crashed'
    BY <1>1 DEF OpenForm, pick_vars, UserCanAct
  <2> QED
    BY <2>3, <2>4, <2>5
<1>2. ASSUME Unmount, ~crashed, UNCHANGED <<crashed, file>> PROVE ScreenInv'
  <2>1. submitting' \in BOOLEAN /\ crashed' \in BOOLEAN
    BY <1>2, Zenon DEF Unmount
  <2>2. tasks' \in Seq(Task) /\ form' = 0 /\ forms' = forms /\ file' = file
    BY <1>2 DEF Unmount
  <2> QED
    BY <1>2, <2>1, <2>2
<1>3. ASSUME NEW task \in Task, UpdateTask(task) PROVE ScreenInv'
  <2>1. tasks' = [tasks EXCEPT ![selectedTaskIdx] = task]
    BY <1>3 DEF UpdateTask
  <2>3. selectedTaskIdx \in DOMAIN tasks /\ tasks \in Seq(Task)
    BY <1>3 DEF UpdateTask, UserCanAct
  <2>2. tasks' \in Seq(Task) /\ DOMAIN tasks' = DOMAIN tasks
    BY <2>1, <2>3
  <2>4. ~crashed' /\ selectedTaskIdx' \in DOMAIN tasks'
    BY <1>3, <2>2, <2>3 DEF UpdateTask, UserCanAct
  <2> QED
    BY <1>3, <2>2, <2>4 DEF UpdateTask, pick_vars
<1>4. CASE SelectTask
  <2>1. ~crashed' /\ selectedTaskIdx' \in DOMAIN tasks'
    BY <1>4 DEF SelectTask, UserCanAct
  <2> QED
    BY <1>4, <2>1 DEF SelectTask, pick_vars
<1>5. CASE ChangeType
  <2>1. PICK type \in Types : UpdateTask([type |-> type, filled |-> FALSE])
    BY <1>5 DEF ChangeType
  <2>2. [type |-> type, filled |-> FALSE] \in Task
    BY DEF Task
  <2> QED
    BY <2>1, <2>2, <1>3
<1>6. CASE DeliveryTaskForm \/ LoopTaskForm \/ CleanTaskForm
  <2>1. PICK type \in Types : UpdateTask([type |-> type, filled |-> TRUE])
    BY <1>6 DEF DeliveryTaskForm, LoopTaskForm, CleanTaskForm, ChangeDescription, Types
  <2>2. [type |-> type, filled |-> TRUE] \in Task
    BY DEF Task
  <2> QED
    BY <2>1, <2>2, <1>3
<1>7. CASE SelectFile \/ DismissDialog
  BY <1>7 DEF SelectFile, DismissDialog, form_vars
<1>8. CASE PickFile
  BY <1>8 DEF PickFile, form_vars
<1>9. CASE FileRead
  <2>1. UNCHANGED <<form, forms, submitting, file>>
    BY <1>9 DEF FileRead
  <2>2. CASE Head(reading) = form /\ file # <<>> /\ ~crashed
    <3>1. LoadTasks(file)
      BY <1>9, <2>2 DEF FileRead
    <3>2. file \in Seq([type : Types, filled : {TRUE}])
      BY <2>2, FormAssumption
    <3>3. [type : Types, filled : {TRUE}] \subseteq Task
      BY DEF Task
    <3> HIDE DEF Task
    <3>4. file \in Seq(Task)
      <4> DEFINE Complete == [type : Types, filled : {TRUE}]
      <4> HIDE DEF Complete
      <4>1. file \in Seq(Complete) /\ Complete \subseteq Task
        BY <3>2, <3>3 DEF Complete
      <4> QED
        BY <4>1
    <3>5. 1 \in DOMAIN file
      BY <3>4, <2>2
    <3>6. crashed' \in BOOLEAN
      <4>1. crashed' = TRUE \/ crashed' = FALSE
        BY <3>1 DEF LoadTasks
      <4> QED
        BY <4>1, Zenon
    <3>7. /\ tasks' = file /\ file \in Files \ {<<>>}
          /\ crashed' => selectedTaskIdx' > Len(file)
          /\ ~crashed' => selectedTaskIdx' = 1
      BY <2>2, <3>1 DEF LoadTasks
    <3>8. submitting' \in BOOLEAN
      BY <2>1, Zenon
    <3> QED
      BY <2>1, <3>4, <3>5, <3>6, <3>7, <3>8
  <2>3. CASE ~(Head(reading) = form /\ file # <<>> /\ ~crashed)
    BY <1>9, <2>1, <2>3 DEF FileRead
  <2> QED
    BY <2>2, <2>3
<1>10. CASE SubmitTasks
  BY <1>10 DEF SubmitTasks, pick_vars
<1>11. CASE Answers
  BY <1>11 DEF Answers, Answer, form_vars, pick_vars
<1>12. CASE Returns
  <2>1. PICK n \in DOMAIN submissions : SubmitReturns(n)
    BY <1>12 DEF Returns
  <2>2. UNCHANGED <<crashed, file>>
    BY <2>1 DEF SubmitReturns, pick_vars
  <2>3. CASE Unmount /\ ~crashed
    BY <2>2, <2>3, <1>2
  <2>4. CASE StopSubmitting(submissions[n]) /\ UNCHANGED <<form, forms, tasks, edits, selectedTaskIdx>>
    <3>1. submitting' \in BOOLEAN
      BY <2>4, Zenon DEF StopSubmitting
    <3> QED
      BY <2>2, <2>4, <3>1
  <2> QED
    BY <2>1, <2>3, <2>4 DEF SubmitReturns
<1>13. CASE CloseForm
  BY <1>13, <1>2 DEF CloseForm, pick_vars, UserCanAct
<1>14. CASE UNCHANGED formVars
  BY <1>14 DEF formVars, form_vars, pick_vars
<1> QED
  BY <1>1, <1>4, <1>5, <1>6, <1>7, <1>8, <1>9, <1>10, <1>11, <1>12, <1>13, <1>14
  DEF FormNext, FormUser

-----------------------------------------------------------------------------
\* One request is answered, for a submission that may be of an earlier form.
LEMMA FormAnswerStep ==
    ASSUME FormInv, NEW n \in DOMAIN submissions, NEW i \in submissions[n].waiting, Answer(n, i)
    PROVE  /\ SubmissionsShape' /\ AnswersInv'
           /\ NoStuckForm' /\ TwiceOnlyAfterError' /\ ToldOfFailure'
<1> DEFINE s == submissions[n]
<1>1. PICK ok \in BOOLEAN, accepts \in BOOLEAN :
         /\ ok => accepts
         /\ submissions' = [submissions EXCEPT ![n] =
                [s EXCEPT !.waiting = @ \ {i},
                          !.missing = IF accepts THEN @ \ {i} ELSE @,
                          !.failed  = @ \/ ~ok]]
  BY DEF Answer
<1> DEFINE r == [s EXCEPT !.waiting = @ \ {i}, !.missing = IF accepts THEN @ \ {i} ELSE @,
                          !.failed  = @ \/ ~ok]
<1>2. submissions \in Seq(Submissions) /\ s \in Submissions
  BY DEF FormInv, SubmissionsShape
<1>3. r \in Submissions /\ r.form = s.form /\ r.settled = s.settled
      /\ r.waiting = s.waiting \ {i}
      /\ r.missing = (IF accepts THEN s.missing \ {i} ELSE s.missing)
  BY <1>2 DEF Submissions
<1>4. r.failed = (s.failed \/ ~ok)
  BY <1>2 DEF Submissions
<1> HIDE DEF r, s
<1>5. /\ submissions' = [submissions EXCEPT ![n] = r]
      /\ UNCHANGED <<form, forms, submitting, crashed>>
  BY <1>1 DEF r, s, Answer, form_vars
<1>6. /\ submissions' \in Seq(Submissions) /\ DOMAIN submissions' = DOMAIN submissions
      /\ submissions'[n] = r
      /\ \A m \in DOMAIN submissions : m # n => submissions'[m] = submissions[m]
  BY <1>2, <1>3, <1>5
<1>7. \A m \in DOMAIN submissions :
          /\ submissions'[m].form = submissions[m].form
          /\ submissions'[m].settled = submissions[m].settled
          /\ submissions[m].failed => submissions'[m].failed
  BY <1>3, <1>4, <1>6 DEF s
<1>8. SubmissionsShape'
  BY <1>5, <1>6, <1>7 DEF FormInv, SubmissionsShape
<1>9. AnswersInv'
  <2>1. Accounted(s)
    BY DEF FormInv, AnswersInv, s
  <2>2. ~r.failed => r.missing \subseteq r.waiting
    <3> SUFFICES ASSUME ~r.failed PROVE r.missing \subseteq r.waiting
      OBVIOUS
    <3>1. ~s.failed /\ ok
      BY <1>4
    <3>2. accepts /\ s.missing \subseteq s.waiting
      BY <3>1, <2>1, <1>1 DEF Accounted
    <3> QED
      BY <3>2, <1>3
  <2>3. r.settled => Settled(r)
    BY <2>1, <1>3, <1>4 DEF Accounted, Settled, s
  <2>4. Accounted(r)
    BY <2>2, <2>3 DEF Accounted
  <2> QED
    BY <2>4, <1>6 DEF FormInv, AnswersInv
<1>10. NoStuckForm'
  BY <1>5, <1>6, <1>7 DEF FormInv, NoStuckForm
<1>11. TwiceOnlyAfterError'
  BY <1>6, <1>7 DEF FormInv, TwiceOnlyAfterError
<1>12. ToldOfFailure'
  BY <1>5, <1>6, <1>7 DEF FormInv, ToldOfFailure
<1> QED
  BY <1>8, <1>9, <1>10, <1>11, <1>12

\* A submission returns to the form on the screen, or to one that is gone.
LEMMA FormReturnStep ==
    ASSUME FormInv, NEW n \in DOMAIN submissions, SubmitReturns(n)
    PROVE  /\ SubmissionsShape' /\ AnswersInv'
           /\ NoStuckForm' /\ TwiceOnlyAfterError' /\ ToldOfFailure'
<1> DEFINE s == submissions[n]
           r == [s EXCEPT !.settled = TRUE]
<1>1. /\ ~s.settled /\ Settled(s) /\ submissions' = [submissions EXCEPT ![n] = r]
      /\ crashed' = crashed /\ forms' = forms
  BY DEF SubmitReturns, Unmount
<1>2. submissions \in Seq(Submissions) /\ s \in Submissions
  BY DEF FormInv, SubmissionsShape
<1>3. /\ r \in Submissions /\ r.form = s.form /\ r.settled /\ r.failed = s.failed
      /\ r.missing = s.missing /\ r.waiting = s.waiting
  BY <1>2 DEF Submissions
<1> HIDE DEF r, s
<1>6. /\ submissions' \in Seq(Submissions) /\ DOMAIN submissions' = DOMAIN submissions
      /\ submissions'[n] = r
      /\ \A m \in DOMAIN submissions : m # n => submissions'[m] = submissions[m]
  BY <1>1, <1>2, <1>3
<1>7. \A m \in DOMAIN submissions :
          /\ submissions'[m].form = submissions[m].form
          /\ submissions'[m].failed = submissions[m].failed
          /\ submissions[m].settled => submissions'[m].settled
  BY <1>3, <1>6 DEF s
<1>8. SubmissionsShape'
  BY <1>1, <1>6, <1>7 DEF FormInv, SubmissionsShape
<1>9. AnswersInv'
  <2>1. Accounted(r)
    BY <1>1, <1>3 DEF FormInv, AnswersInv, Accounted, Settled, s
  <2> QED
    BY <2>1, <1>6 DEF FormInv, AnswersInv
<1>11. TwiceOnlyAfterError'
  BY <1>6, <1>7 DEF FormInv, TwiceOnlyAfterError
<1>4. \A m \in DOMAIN submissions : submissions[m].form = s.form /\ m # n =>
          submissions[m].failed /\ submissions[m].settled
  <2> SUFFICES ASSUME NEW m \in DOMAIN submissions, submissions[m].form = s.form, m # n
               PROVE  submissions[m].failed /\ submissions[m].settled
    OBVIOUS
  <2>1. m \in Int /\ n \in Int
    BY <1>2
  <2>2. CASE m < n
    BY <2>2 DEF FormInv, TwiceOnlyAfterError, s
  <2>3. CASE n < m
    BY <2>3, <1>1 DEF FormInv, TwiceOnlyAfterError, s
  <2> QED
    BY <2>1, <2>2, <2>3
<1>5. CASE s.failed \/ crashed
  <2>1. submitting' = (submitting /\ form # s.form) /\ form' = form
    BY <1>5 DEF SubmitReturns, StopSubmitting, s
  <2>2. NoStuckForm'
    <3> SUFFICES ASSUME submitting'
                 PROVE  \E m \in DOMAIN submissions : submissions'[m].form = form
                                                     /\ ~submissions'[m].settled
      BY <2>1, <1>6 DEF NoStuckForm
    <3>1. submitting /\ form # s.form
      BY <2>1
    <3>2. PICK m \in DOMAIN submissions : submissions[m].form = form /\ ~submissions[m].settled
      BY <3>1 DEF FormInv, NoStuckForm
    <3>3. m # n
      BY <3>1, <3>2 DEF s
    <3> QED
      BY <3>2, <3>3, <1>6
  <2>3. ToldOfFailure'
    <3> SUFFICES ASSUME NEW m \in DOMAIN submissions, ~crashed, submissions[m].form = form,
                        ~submitting'
                 PROVE  submissions'[m].failed /\ submissions'[m].settled
      BY <1>1, <1>6, <1>7, <2>1 DEF ToldOfFailure
    <3>1. CASE ~submitting
      BY <3>1, <1>7 DEF FormInv, ToldOfFailure
    <3>2. CASE form = s.form /\ m # n
      BY <3>2, <1>4, <1>7
    <3>3. CASE m = n
      BY <3>3, <1>5, <1>3, <1>6
    <3> QED
      BY <2>1, <3>1, <3>2, <3>3
  <2> QED
    BY <1>8, <1>9, <1>11, <2>2, <2>3
<1>10. CASE ~(s.failed \/ crashed)
  <2>1. form' = 0 /\ submitting' = FALSE
    BY <1>10 DEF SubmitReturns, Unmount, s
  <2>2. NoStuckForm'
    BY <2>1 DEF NoStuckForm
  <2>3. ToldOfFailure'
    <3>1. \A m \in DOMAIN submissions' : submissions'[m].form # 0
      <4> SUFFICES ASSUME NEW m \in DOMAIN submissions' PROVE submissions'[m].form # 0
        OBVIOUS
      <4>1. submissions'[m] \in Submissions
        BY <1>6
      <4> QED
        BY <4>1, SubmissionFields
    <3> QED
      BY <2>1, <3>1 DEF ToldOfFailure
  <2> QED
    BY <1>8, <1>9, <1>11, <2>2, <2>3
<1> QED
  BY <1>5, <1>10

\* Submit is pressed: all earlier submissions of the form have failed.
LEMMA FormSubmitStep ==
    ASSUME FormInv, SubmitTasks
    PROVE  /\ SubmissionsShape' /\ AnswersInv'
           /\ NoStuckForm' /\ TwiceOnlyAfterError' /\ ToldOfFailure'
<1> DEFINE n == Len(submissions) + 1
           r == Submission
<1>1. /\ ~crashed /\ ~submitting /\ submitting' = TRUE /\ form # 0
      /\ submissions' = Append(submissions, r)
      /\ UNCHANGED <<form, forms, crashed>>
  BY DEF SubmitTasks, UserCanAct
<1>2. /\ submissions \in Seq(Submissions) /\ form \in Nat \ {0} /\ form <= forms
      /\ tasks \in Seq(Task)
  BY <1>1 DEF FormInv, SubmissionsShape, ScreenInv
<1>3. /\ r \in Submissions /\ r.form = form /\ ~r.settled /\ ~r.failed
      /\ r.missing = r.waiting
  <2>1. DOMAIN tasks \in SUBSET Nat /\ Untyped \in SUBSET Nat
    BY <1>2 DEF Untyped
  <2> QED
    BY <2>1, <1>2 DEF Submission, Submissions
<1> HIDE DEF r
<1>4. /\ submissions' \in Seq(Submissions) /\ DOMAIN submissions' = 1 .. n
      /\ DOMAIN submissions = 1 .. n - 1 /\ n \in Nat \ {0}
      /\ submissions'[n] = r
      /\ \A m \in 1 .. n - 1 : submissions'[m] = submissions[m]
  BY <1>1, <1>2, <1>3
<1> HIDE DEF n
<1>5. \A m \in 1 .. n : m = n \/ m \in 1 .. n - 1
  BY <1>4
<1>6. SubmissionsShape'
  BY <1>1, <1>2, <1>3, <1>4, <1>5 DEF FormInv, SubmissionsShape
<1>7. AnswersInv'
  <2>1. Accounted(r)
    BY <1>3 DEF Accounted
  <2> QED
    BY <2>1, <1>4, <1>5 DEF FormInv, AnswersInv
<1>8. NoStuckForm'
  BY <1>1, <1>3, <1>4 DEF NoStuckForm
<1>9. TwiceOnlyAfterError'
  <2> SUFFICES ASSUME NEW l \in 1 .. n, NEW m \in 1 .. n, l < m,
                      submissions'[l].form = submissions'[m].form
               PROVE  submissions'[l].failed /\ submissions'[l].settled
    BY <1>4 DEF TwiceOnlyAfterError
  <2>1. l \in 1 .. n - 1 /\ submissions'[l] = submissions[l]
    BY <1>4
  <2>2. CASE m = n
    <3>1. submissions[l].form = form
      BY <2>1, <2>2, <1>3, <1>4
    <3> QED
      BY <3>1, <2>1, <1>1, <1>4 DEF FormInv, ToldOfFailure
  <2>3. CASE m \in 1 .. n - 1
    BY <2>1, <2>3, <1>4 DEF FormInv, TwiceOnlyAfterError
  <2> QED
    BY <2>2, <2>3, <1>5
<1>10. ToldOfFailure'
  BY <1>1 DEF ToldOfFailure
<1> QED
  BY <1>6, <1>7, <1>8, <1>9, <1>10

-----------------------------------------------------------------------------
\* The form, its files and its submissions, in whatever order answers come.
THEOREM FormInvariant == FormSpec => []FormInv
<1>1. FormInit => FormInv
  <2> SUFFICES ASSUME FormInit PROVE FormInv
    OBVIOUS
  <2>1. submissions = <<>> /\ tasks = <<>> /\ form = 0 /\ forms = 0 /\ file = <<>>
        /\ submitting = FALSE /\ crashed = FALSE
    BY DEF FormInit
  <2>4. submitting \in BOOLEAN /\ crashed \in BOOLEAN
    BY <2>1, Zenon
  <2>5. tasks \in Seq(Task) /\ 0 \in Nat /\ 0 \in 0 .. 0
    BY <2>1
  <2>2. ScreenInv
    BY <2>1, <2>4, <2>5 DEF ScreenInv, SelectionInRange
  <2>3. SubmissionsShape
    BY <2>1 DEF SubmissionsShape
  <2> QED
    BY <2>1, <2>2, <2>3 DEF FormInv, AnswersInv, NoStuckForm, TwiceOnlyAfterError, ToldOfFailure
<1>2. FormInv /\ [FormNext]_formVars => FormInv'
  <2> SUFFICES ASSUME FormInv, [FormNext]_formVars PROVE FormInv'
    OBVIOUS
  <2>1. ScreenInv'
    BY ScreenStep
  <2>2. ASSUME UNCHANGED <<form, forms, submitting, submissions>>, crashed => crashed'
        PROVE  FormInv'
    BY <2>1, <2>2 DEF FormInv, SubmissionsShape, AnswersInv, NoStuckForm,
                      TwiceOnlyAfterError, ToldOfFailure
  <2>3. CASE OpenForm
    <3>1. /\ submitting' = FALSE /\ submissions' = submissions /\ crashed' = crashed
          /\ form' = forms + 1 /\ forms' = forms + 1 /\ forms \in Nat
      BY <2>3 DEF OpenForm, FormInv, ScreenInv
    <3>2. \A n \in DOMAIN submissions :
             submissions[n].form \in Nat /\ submissions[n].form <= forms
      <4> SUFFICES ASSUME NEW n \in DOMAIN submissions
                   PROVE  submissions[n].form \in Nat /\ submissions[n].form <= forms
        OBVIOUS
      <4>1. submissions[n] \in Submissions /\ submissions[n].form <= forms
        BY DEF FormInv, SubmissionsShape
      <4> QED
        BY <4>1, SubmissionFields
    <3>3. SubmissionsShape'
      BY <3>1, <3>2 DEF FormInv, SubmissionsShape
    <3>4. ToldOfFailure'
      BY <3>1, <3>2 DEF ToldOfFailure
    <3> QED
      BY <2>1, <3>1, <3>3, <3>4 DEF FormInv, AnswersInv, NoStuckForm, TwiceOnlyAfterError
  <2>4. CASE CloseForm
    <3>1. /\ submitting' = FALSE /\ submissions' = submissions /\ crashed' = crashed
          /\ form' = 0 /\ forms' = forms
      BY <2>4 DEF CloseForm, Unmount
    <3>2. \A n \in DOMAIN submissions : submissions[n].form # 0
      <4> SUFFICES ASSUME NEW n \in DOMAIN submissions PROVE submissions[n].form # 0
        OBVIOUS
      <4>1. submissions[n] \in Submissions
        BY DEF FormInv, SubmissionsShape
      <4> QED
        BY <4>1, SubmissionFields
    <3>4. ToldOfFailure'
      BY <3>1, <3>2 DEF ToldOfFailure
    <3> QED
      BY <2>1, <3>1, <3>4 DEF FormInv, SubmissionsShape, AnswersInv, NoStuckForm, TwiceOnlyAfterError
  <2>5. CASE SelectTask \/ SelectFile \/ DismissDialog \/ PickFile
    BY <2>5, <2>2 DEF SelectTask, SelectFile, DismissDialog, PickFile, form_vars
  <2>6. CASE ChangeType \/ DeliveryTaskForm \/ LoopTaskForm \/ CleanTaskForm
    BY <2>6, <2>2 DEF ChangeType, DeliveryTaskForm, LoopTaskForm, CleanTaskForm,
                      ChangeDescription, UpdateTask
  <2>7. CASE FileRead
    <3>1. UNCHANGED <<form, forms, submitting, submissions>>
      BY <2>7 DEF FileRead
    <3>2. crashed => crashed'
      BY <2>7 DEF FileRead
    <3> QED
      BY <3>1, <3>2, <2>2
  <2>8. CASE SubmitTasks
    BY <2>8, <2>1, FormSubmitStep DEF FormInv
  <2>9. CASE Answers
    <3>1. PICK n \in DOMAIN submissions : \E i \in submissions[n].waiting : Answer(n, i)
      BY <2>9 DEF Answers
    <3>2. PICK i \in submissions[n].waiting : Answer(n, i)
      BY <3>1
    <3> QED
      BY <3>2, <2>1, FormAnswerStep DEF FormInv
  <2>10. CASE Returns
    <3>1. PICK n \in DOMAIN submissions : SubmitReturns(n)
      BY <2>10 DEF Returns
    <3> QED
      BY <3>1, <2>1, FormReturnStep DEF FormInv
  <2>11. CASE UNCHANGED formVars
    BY <2>11, <2>2 DEF formVars, form_vars
  <2> QED
    BY <2>3, <2>4, <2>5, <2>6, <2>7, <2>8, <2>9, <2>10, <2>11 DEF FormNext, FormUser
<1> QED
  BY <1>1, <1>2, PTL DEF FormSpec

\* A form can be used, waits for an answer of its own, or crashed on a file of
\* fewer tasks than the number of the one selected, and on nothing else; and what
\* it reports of its tasks is what RMF has (create-task.tsx 397-485).
THEOREM FormStaysSound == FormSpec => []FormIsSound
<1>1. FormInv => FormIsSound
  <2> SUFFICES ASSUME FormInv PROVE FormIsSound
    OBVIOUS
  <2>1. SuccessIsTrue
    <3> SUFFICES ASSUME NEW n \in DOMAIN submissions,
                        submissions[n].settled, ~submissions[n].failed
                 PROVE  submissions[n].missing = {}
      BY DEF SuccessIsTrue
    <3>1. Accounted(submissions[n])
      BY DEF FormInv, AnswersInv
    <3> QED
      BY <3>1 DEF Accounted, Settled
  <2> QED
    BY <2>1 DEF FormInv, ScreenInv, FormIsSound
<1> QED
  BY <1>1, FormInvariant, PTL

-----------------------------------------------------------------------------
(* Session.                                                                *)

Tokens == {"none", "live", "ageing", "expired"}

\* The types, those of the history and of the requests that wait included.  A
\* request of an API client holds no token: the interceptor reads it later.
SessionShape ==
    /\ SessionTypeOK
    /\ app \in {"dashboard", "reporting"}
    /\ profileToken \in Tokens
    /\ carried \in [Kinds -> Tokens]
    /\ \A w \in waiters :
          w.kind \in Kinds /\ w.held \in Tokens /\ (w.kind = "api" => w.held = "none")

\* A profile is asked for only by a mounted page.
ProfileInv == profileToken # "none" \/ profile # "none" => Admitted

\* The dashboard always listens, so what App knows of the user, once it asked
\* the authenticator, is what the authenticator knows; before it shows nothing.
UserInv ==
    /\ app = "dashboard" => listening
    /\ authInitialized => initPhase = "done"
    /\ app = "dashboard" /\ authInitialized /\ appUser => authUser /\ token # "none"

SessionInv == SessionShape /\ ProfileInv /\ UserInv /\ RequestsAreFresh

-----------------------------------------------------------------------------
\* RmfApp and UserProfileProvider (rmf-app.tsx): mounting keeps what a profile
\* is asked for to mounted pages.
LEMMA MountKeepsProfile ==
    ASSUME ProfileInv, token' \in Tokens, profileToken \in Tokens,
           profile \in {"none", "user", "known"}, MountRmfApp
    PROVE  ProfileInv' /\ profileToken' \in Tokens /\ profile' \in {"none", "user", "known"}
BY DEF ProfileInv, MountRmfApp, profileVars, Tokens

\* Every step of Keycloak, the adapter and App keeps the invariant.
LEMMA SessionStep ==
    ASSUME SessionInv, [SessionNext]_sessionVars PROVE SessionInv'
<1> USE SessionAssumption
<1> USE DEF SessionInv, SessionShape, SessionTypeOK, UserInv, RequestsAreFresh, Tokens, Kinds
<1>1. CASE AdapterInit
  <2>1. ProfileInv' /\ profileToken' \in Tokens /\ profile' \in {"none", "user", "known"}
    BY <1>1, MountKeepsProfile DEF AdapterInit
  <2> QED
    <3>5. \/ authUser' = TRUE /\ UserChanged(TRUE)
          \/ UNCHANGED <<authUser, appUser, listening>>
      BY <1>1 DEF AdapterInit
    <3>1. /\ appUser' \in BOOLEAN /\ listening' \in BOOLEAN /\ authUser' \in BOOLEAN
          /\ app = "dashboard" => listening'
      BY <3>5 DEF UserChanged
    <3>2. UNCHANGED <<app, sso, authInitialized, appReady, refresh, waiters, carried>>
      BY <1>1 DEF AdapterInit
    <3>3. ~authInitialized /\ initPhase' \in {"update", "failed"}
      BY <1>1 DEF AdapterInit
    <3>4. \/ token' = "live" /\ tokens < MaxTokens /\ tokens' = tokens + 1
          \/ UNCHANGED <<token, tokens>>
      BY <1>1 DEF AdapterInit
    <3>6. token' \in Tokens /\ tokens' \in 0 .. MaxTokens
      BY <3>4
    <3> QED
      BY <2>1, <3>1, <3>2, <3>3, <3>6 DEF ProfileInv
<1>2. CASE FinishInit
  <2>1. ProfileInv' /\ profileToken' \in Tokens /\ profile' \in {"none", "user", "known"}
    BY <1>2, MountKeepsProfile DEF FinishInit
  <2> QED
    BY <1>2, <2>1 DEF FinishInit, AskAuthenticator, ProfileInv
<1>3. CASE LoadResources
  <2>1. ProfileInv' /\ profileToken' \in Tokens /\ profile' \in {"none", "user", "known"}
    BY <1>3, MountKeepsProfile DEF LoadResources, adapterVars
  <2> QED
    BY <1>3, <2>1 DEF LoadResources, adapterVars, ProfileInv
<1>4. CASE Logout
  <2>1. ProfileInv' /\ profileToken' \in Tokens /\ profile' \in {"none", "user", "known"}
    BY <1>4, MountKeepsProfile DEF Logout
  <2> QED
    BY <1>4, <2>1 DEF Logout, UserChanged, ProfileInv
<1>5. CASE SessionEnds
  <2>1. sso' \in BOOLEAN
    BY <1>5 DEF SessionEnds
  <2>2. UNCHANGED <<app, token, tokens, authUser, initPhase, pageVarsOfApp, profileVars,
                    refresh, waiters, carried>>
    BY <1>5 DEF SessionEnds
  <2> QED
    BY <2>1, <2>2 DEF pageVarsOfApp, profileVars, ProfileInv, Admitted
<1>13. CASE TokenAges
  BY <1>13 DEF TokenAges, pageVarsOfApp, profileVars, ProfileInv, Admitted
<1>6. ASSUME NEW kind \in Kinds, Request(kind) PROVE SessionInv'
  <2> USE <1>6 DEF Request, NoRefresh, pageVarsOfApp, profileVars, ProfileInv, Admitted
  <2>1. initPhase = "done" /\ app = "dashboard"
    OBVIOUS
  <2>2. CASE token = "live"
    BY <2>1, <2>2
  <2>3. CASE token # "live"
    BY <2>1, <2>3
  <2> QED
    BY <2>2, <2>3
<1>7. CASE ReportRequest
  BY <1>7 DEF ReportRequest, adapterVars, pageVarsOfApp, profileVars, ProfileInv, Admitted
<1>8. CASE GrantRefresh
  BY <1>8 DEF GrantRefresh, pageVarsOfApp, profileVars, ProfileInv, Admitted
<1>9. CASE RefreshArrives
  BY <1>9 DEF RefreshArrives, pageVarsOfApp, profileVars, ProfileInv, Admitted
<1>10. CASE RefreshFails
  <2>1. ProfileInv' /\ profileToken' \in Tokens /\ profile' \in {"none", "user", "known"}
    BY <1>10, MountKeepsProfile DEF RefreshFails
  <2> QED
    <3>1. UNCHANGED <<app, sso, tokens, initPhase, authInitialized, appReady, carried>>
      BY <1>10 DEF RefreshFails
    <3>2. refresh' = "no" /\ waiters' = {}
      BY <1>10 DEF RefreshFails
    <3>3. \/ UNCHANGED <<token, authUser, appUser, listening>>
          \/ token' = "none" /\ authUser' = FALSE /\ UserChanged(FALSE)
      BY <1>10 DEF RefreshFails
    <3>4. CASE UNCHANGED <<token, authUser, appUser, listening>>
      BY <2>1, <3>1, <3>2, <3>4 DEF ProfileInv
    <3>5. CASE token' = "none" /\ authUser' = FALSE /\ UserChanged(FALSE)
      BY <2>1, <3>1, <3>2, <3>5 DEF ProfileInv, UserChanged
    <3> QED
      BY <3>3, <3>4, <3>5
<1>11. CASE ProfileAnswer
  BY <1>11 DEF ProfileAnswer, adapterVars, pageVarsOfApp, ProfileInv, Admitted
<1>12. CASE UNCHANGED sessionVars
  BY <1>12 DEF sessionVars, ProfileInv, Admitted
<1> QED
  BY <1>1, <1>2, <1>3, <1>4, <1>5, <1>6, <1>7, <1>8, <1>9, <1>10, <1>11, <1>12, <1>13
     DEF SessionNext

\* The invariant of the session, from the start of the tab on.
THEOREM SessionInvariant == SessionSpec => []SessionInv
<1>1. SessionInit => SessionInv
  <2> SUFFICES ASSUME SessionInit PROVE SessionInv
    OBVIOUS
  <2>1. SessionShape
    <3>1. sso \in BOOLEAN /\ appReady \in BOOLEAN
      BY Zenon DEF SessionInit
    <3>2. /\ token = "none" /\ tokens = 0 /\ tokens \in 0 .. MaxTokens
          /\ initPhase = "init" /\ refresh = "no" /\ waiters = {}
          /\ profile = "none" /\ profileToken = "none" /\ app \in {"dashboard", "reporting"}
      BY SessionAssumption DEF SessionInit
    <3>3. authUser = FALSE /\ appUser = FALSE /\ listening = TRUE /\ authInitialized = FALSE
      BY DEF SessionInit
    <3>4. carried \in [Kinds -> Tokens]
      BY DEF SessionInit, Kinds, Tokens
    <3> QED
      BY <3>1, <3>2, <3>3, <3>4 DEF SessionShape, SessionTypeOK, Tokens
  <2>2. ProfileInv /\ UserInv /\ RequestsAreFresh
    BY DEF SessionInit, ProfileInv, UserInv, RequestsAreFresh, Kinds
  <2> QED
    BY <2>1, <2>2 DEF SessionInv
<1> QED
  BY <1>1, SessionStep, PTL DEF SessionSpec

\* keycloak.ts 52-68, app.tsx: when App learns that init is done, it takes the
\* authenticator's user.
THEOREM AdmissionIsTrue == SessionSpec => [][AdmittedTruly]_sessionVars
<1>1. [SessionNext]_sessionVars => [AdmittedTruly]_sessionVars
  <2> SUFFICES ASSUME [SessionNext]_sessionVars, ~authInitialized, authInitialized'
               PROVE  appUser' = authUser' /\ (appUser' => token' # "none")
    BY DEF AdmittedTruly
  <2>1. FinishInit
    BY DEF SessionNext, AdapterInit, LoadResources, Logout, SessionEnds, TokenAges, Request,
           ReportRequest, GrantRefresh, RefreshArrives, RefreshFails, ProfileAnswer,
           pageVarsOfApp, sessionVars
  <2> QED
    BY <2>1 DEF FinishInit, AskAuthenticator
<1> QED
  BY <1>1, PTL DEF SessionSpec

\* keycloak.ts, app.tsx, rmf-ingress.ts: pages and requests follow the session,
\* in whatever order it begins, is refreshed and ends.
THEOREM SessionStaysTrue == SessionSpec => SessionIsTrue
<1>1. SessionInv => NoPageWithoutUser /\ RequestsAreFresh
  BY DEF SessionInv, UserInv, NoPageWithoutUser, Admitted
<1> QED
  BY <1>1, SessionInvariant, AdmissionIsTrue, PTL DEF SessionIsTrue

-----------------------------------------------------------------------------
(* SplinePath.                                                             *)

Knots == [pose : KnotPoses, velocity : KnotVelocities, time : Nat]

\* Each knot is one the schedule may plan, some time after all those before it.
KnotsInv ==
    /\ knots \in Seq(Knots)
    /\ Len(knots) \in 1 .. MaxKnots
    /\ \A i \in Segments : knots[i + 1].time - knots[i].time \in Durations
    /\ \A i, j \in DOMAIN knots : i < j => knots[i].time < knots[j].time

-----------------------------------------------------------------------------
\* The polynomials (geometry.ts 61-83, 136-160), as identities of integers.
LEMMA BezierIdentity ==
    ASSUME NEW a \in Int, NEW b \in Int, NEW c \in Int, NEW d \in Int,
           NEW n \in Int, NEW m \in Int
    PROVE  LET cs == [a |-> a, b |-> b, c |-> c, d |-> d]
           IN Bezier(ControlPoints(cs), n, m) = 3 * Resolve(cs, n, m)
<1> DEFINE p0 == 3 * d
           p1 == c + p0
           p2 == b - p0 + 2 * p1
           p3 == 3 * a + p0 - 3 * p1 + 3 * p2
           r  == m - n
<1>1. p0 * r * r * r + 3 * p1 * r * r * n + 3 * p2 * r * n * n + p3 * n * n * n
        = 3 * (a * n * n * n + b * n * n * m + c * n * m * m + d * m * m * m)
  BY SMTT(60)
<1> QED
  BY <1>1 DEF Bezier, ControlPoints, Resolve

\* What a segment ends with: both of its poses, and the velocities there.
LEMMA EndsOfSegment ==
    ASSUME NEW x0 \in Int, NEW x1 \in Int, NEW w0 \in Int, NEW w1 \in Int
    PROVE  LET cs == Coefficients(x0, x1, w0, w1)
               p  == ControlPoints(cs)
           IN /\ cs = [a |-> cs.a, b |-> cs.b, c |-> cs.c, d |-> cs.d]
              /\ cs.a \in Int /\ cs.b \in Int /\ cs.c \in Int /\ cs.d \in Int
              /\ p[1] = 3 * x0 /\ p[4] = 3 * x1
              /\ p[2] - p[1] = w0 /\ p[4] - p[3] = w1
              /\ cs.d = x0 /\ cs.a + cs.b + cs.c + cs.d = x1
BY DEF Coefficients, ControlPoints

\* An exact division.
LEMMA ExactDivision ==
    ASSUME NEW v \in Int, NEW dt \in Nat \ {0}, v % dt = 0
    PROVE  v \div dt \in Int /\ v = dt * (v \div dt)
OBVIOUS

\* Two quotients of one vector point the same way.
LEMMA SameDirection ==
    ASSUME NEW s \in Nat \ {0}, NEW t \in Nat \ {0},
           NEW p \in Int, NEW q \in Int, NEW u \in Int, NEW v \in Int,
           s * p = t * u, s * q = t * v
    PROVE  p * v = q * u /\ p * u + q * v >= 0
OBVIOUS

-----------------------------------------------------------------------------
\* A knot is planned a duration after the last one.
THEOREM KnotsInvariant == SplineSpec => []KnotsInv
<1> USE SplineAssumption
<1>1. SplineInit => KnotsInv
  <2> SUFFICES ASSUME NEW p \in KnotPoses, NEW v \in KnotVelocities, knots = <<Knot(p, v, 0)>>
               PROVE  KnotsInv
    BY DEF SplineInit
  <2>1. Knot(p, v, 0) \in Knots
    BY DEF Knot, Knots
  <2> QED
    BY <2>1 DEF KnotsInv, Segments
<1>2. KnotsInv /\ [SplineNext]_knots => KnotsInv'
  <2> SUFFICES ASSUME KnotsInv, SplineNext PROVE KnotsInv'
    BY DEF KnotsInv, Segments
  <2> DEFINE n == Len(knots)
  <2>1. PICK p \in KnotPoses, v \in KnotVelocities, dt \in Durations :
           /\ n < MaxKnots
           /\ knots' = Append(knots, Knot(p, v, knots[n].time + dt))
    BY DEF SplineNext, AddKnot
  <2> DEFINE new == Knot(p, v, knots[n].time + dt)
  <2>7. knots \in Seq(Knots) /\ n \in Nat \ {0} /\ n \in 1 .. n
    BY DEF KnotsInv
  <2>8. \A i \in 1 .. n : knots[i] \in Knots /\ knots[i].time \in Nat
    <3>1. ASSUME NEW i \in 1 .. n PROVE knots[i] \in Knots
      BY <2>7
    <3>2. ASSUME NEW knot \in Knots PROVE knot.time \in Nat
      BY DEF Knots
    <3> QED
      BY <3>1, <3>2
  <2>9. dt \in Nat \ {0} /\ new \in Knots /\ new.time = knots[n].time + dt
    <3>1. dt \in Nat \ {0} /\ knots[n].time \in Nat
      BY <2>7, <2>8
    <3>2. knots[n].time + dt \in Nat
      BY <3>1
    <3>3. new.time = knots[n].time + dt
      BY DEF Knot
    <3>4. new \in Knots
      BY <3>2 DEF Knot, Knots
    <3> QED
      BY <3>1, <3>3, <3>4
  <2>2. /\ knots \in Seq(Knots) /\ n \in Nat \ {0} /\ new \in Knots
        /\ new.time = knots[n].time + dt /\ dt \in Nat \ {0}
    BY <2>7, <2>9
  <2>3. /\ knots' \in Seq(Knots) /\ Len(knots') = n + 1
        /\ \A i \in 1 .. n : knots'[i] = knots[i]
        /\ knots'[n + 1] = new
    BY <2>1, <2>2
  <2> HIDE DEF new
  <2>4. \A i \in 1 .. n : knots[i].time \in Nat /\ knots[i].time <= knots[n].time
    <3> SUFFICES ASSUME NEW i \in 1 .. n PROVE knots[i].time <= knots[n].time
      BY <2>8
    <3>1. CASE i = n
      BY <3>1, <2>8
    <3>2. CASE i < n
      <4>1. i \in DOMAIN knots /\ n \in DOMAIN knots
        BY <2>7
      <4>2. knots[i].time < knots[n].time
        BY <4>1, <3>2 DEF KnotsInv
      <4> QED
        BY <4>2, <2>7, <2>8
    <3> QED
      BY <3>1, <3>2, <2>7
  <2>5. \A i \in 1 .. n : knots'[i + 1].time - knots'[i].time \in Durations
    <3> SUFFICES ASSUME NEW i \in 1 .. n
                 PROVE  knots'[i + 1].time - knots'[i].time \in Durations
      OBVIOUS
    <3>1. CASE i = n
      BY <3>1, <2>1, <2>2, <2>3, <2>8
    <3>2. CASE i < n
      <4>1. i \in Segments /\ i + 1 \in 1 .. n
        BY <3>2, <2>7 DEF Segments
      <4> QED
        BY <4>1, <2>3 DEF KnotsInv
    <3> QED
      BY <3>1, <3>2, <2>2
  <2>6. \A i, j \in 1 .. n + 1 : i < j => knots'[i].time < knots'[j].time
    <3> SUFFICES ASSUME NEW i \in 1 .. n + 1, NEW j \in 1 .. n + 1, i < j
                 PROVE  knots'[i].time < knots'[j].time
      OBVIOUS
    <3>1. CASE j = n + 1
      <4>1. i \in 1 .. n /\ knots'[i] = knots[i] /\ knots'[j] = new
        BY <3>1, <2>2, <2>3
      <4>2. knots[i].time \in Nat /\ knots[n].time \in Nat /\ knots[i].time <= knots[n].time
        BY <4>1, <2>2, <2>4
      <4> QED
        BY <4>1, <4>2, <2>2
    <3>2. CASE j < n + 1
      <4>1. i \in 1 .. n /\ j \in 1 .. n /\ DOMAIN knots = 1 .. n
        BY <3>2, <2>7
      <4> QED
        BY <4>1, <2>3 DEF KnotsInv
    <3> QED
      BY <3>1, <3>2, <2>2
  <2> QED
    BY <2>1, <2>2, <2>3, <2>5, <2>6, SMTT(20) DEF KnotsInv, Segments
<1> QED
  BY <1>1, <1>2, PTL DEF SplineSpec

\* A segment of the trajectory, one coordinate of it: integers, and velocities
\* that are multiples of its duration.
LEMMA SegmentOfKnots ==
    ASSUME KnotsInv, NEW i \in Segments, NEW k \in {1, 2}
    PROVE  LET dt == knots[i + 1].time - knots[i].time
               w0 == knots[i].velocity[k] \div dt
               w1 == knots[i + 1].velocity[k] \div dt
               x0 == knots[i].pose[k]
               x1 == knots[i + 1].pose[k]
           IN /\ x0 \in Int /\ x1 \in Int /\ w0 \in Int /\ w1 \in Int
              /\ dt \in Nat \ {0}
              /\ dt * w0 = knots[i].velocity[k] /\ dt * w1 = knots[i + 1].velocity[k]
              /\ SegmentOf(knots, i, k) = Coefficients(x0, x1, w0, w1)
<1> USE SplineAssumption
<1> DEFINE dt == knots[i + 1].time - knots[i].time
<1>1. i \in 1 .. Len(knots) /\ i + 1 \in 1 .. Len(knots)
  BY DEF KnotsInv, Segments
<1>2. dt \in Durations /\ dt \in Nat \ {0}
  BY DEF KnotsInv
<1>3. /\ knots[i].pose \in Int \X Int /\ knots[i + 1].pose \in Int \X Int
      /\ knots[i].velocity \in KnotVelocities /\ knots[i + 1].velocity \in KnotVelocities
  <2>1. knots[i] \in Knots /\ knots[i + 1] \in Knots
    BY <1>1 DEF KnotsInv
  <2> QED
    BY <2>1 DEF Knots
<1>4. /\ knots[i].pose[k] \in Int /\ knots[i + 1].pose[k] \in Int
      /\ knots[i].velocity[k] \in Int /\ knots[i + 1].velocity[k] \in Int
  BY <1>3
<1>5. knots[i].velocity[k] % dt = 0 /\ knots[i + 1].velocity[k] % dt = 0
  BY <1>2, <1>3
<1> HIDE DEF dt
<1>6. /\ knots[i].velocity[k] \div dt \in Int /\ knots[i + 1].velocity[k] \div dt \in Int
      /\ dt * (knots[i].velocity[k] \div dt) = knots[i].velocity[k]
      /\ dt * (knots[i + 1].velocity[k] \div dt) = knots[i + 1].velocity[k]
  BY <1>2, <1>4, <1>5, ExactDivision
<1> QED
  BY <1>2, <1>4, <1>6 DEF dt, SegmentOf

-----------------------------------------------------------------------------
\* The coefficients and the control points of a segment, by their ends.
LEMMA PointsOfKnots ==
    ASSUME KnotsInv, NEW i \in Segments, NEW k \in {1, 2}
    PROVE  LET dt == knots[i + 1].time - knots[i].time
               cs == SegmentOf(knots, i, k)
               p  == ControlPoints(cs)
           IN /\ cs = [a |-> cs.a, b |-> cs.b, c |-> cs.c, d |-> cs.d]
              /\ cs.a \in Int /\ cs.b \in Int /\ cs.c \in Int /\ cs.d \in Int
              /\ p[1] = 3 * knots[i].pose[k] /\ p[4] = 3 * knots[i + 1].pose[k]
              /\ dt \in Nat \ {0}
              /\ p[2] - p[1] \in Int /\ p[4] - p[3] \in Int
              /\ dt * (p[2] - p[1]) = knots[i].velocity[k]
              /\ dt * (p[4] - p[3]) = knots[i + 1].velocity[k]
              /\ cs.d = knots[i].pose[k]
              /\ cs.a + cs.b + cs.c + cs.d = knots[i + 1].pose[k]
<1> DEFINE dt == knots[i + 1].time - knots[i].time
           w0 == knots[i].velocity[k] \div dt
           w1 == knots[i + 1].velocity[k] \div dt
           x0 == knots[i].pose[k]
           x1 == knots[i + 1].pose[k]
<1>1. /\ x0 \in Int /\ x1 \in Int /\ w0 \in Int /\ w1 \in Int /\ dt \in Nat \ {0}
      /\ dt * w0 = knots[i].velocity[k] /\ dt * w1 = knots[i + 1].velocity[k]
      /\ SegmentOf(knots, i, k) = Coefficients(x0, x1, w0, w1)
  BY SegmentOfKnots
<1> HIDE DEF dt, w0, w1, x0, x1
<1> DEFINE cs == Coefficients(x0, x1, w0, w1)
           p  == ControlPoints(cs)
<1>2. /\ cs = [a |-> cs.a, b |-> cs.b, c |-> cs.c, d |-> cs.d]
      /\ cs.a \in Int /\ cs.b \in Int /\ cs.c \in Int /\ cs.d \in Int
      /\ p[1] = 3 * x0 /\ p[4] = 3 * x1
      /\ p[2] - p[1] = w0 /\ p[4] - p[3] = w1
      /\ cs.d = x0 /\ cs.a + cs.b + cs.c + cs.d = x1
  BY <1>1, EndsOfSegment
<1>3. dt = knots[i + 1].time - knots[i].time /\ x0 = knots[i].pose[k] /\ x1 = knots[i + 1].pose[k]
  BY DEF dt, x0, x1
<1> HIDE DEF p, cs
<1>4. SegmentOf(knots, i, k) = cs /\ ControlPoints(cs) = p
  BY <1>1 DEF cs, p
<1> QED
  BY <1>1, <1>2, <1>3, <1>4

\* At the time of a knot the position comes from a segment the knot ends.
LEMMA SegmentAtKnot ==
    ASSUME KnotsInv, Len(knots) > 1, NEW j \in DOMAIN knots
    PROVE  LET i == SegmentAt(knots, knots[j].time)
           IN i \in Segments /\ (j = i \/ j = i + 1)
<1> DEFINE n      == Len(knots)
           t      == knots[j].time
           around == {i \in 1 .. n - 1 : knots[i].time <= t /\ t <= knots[i + 1].time}
<1>1. n \in Nat /\ n > 1 /\ DOMAIN knots = 1 .. n /\ j \in 1 .. n
  BY DEF KnotsInv
<1>2. \A i \in 1 .. n : knots[i].time \in Nat
  <2>1. ASSUME NEW i \in 1 .. n PROVE knots[i] \in Knots
    BY <1>1 DEF KnotsInv
  <2>2. ASSUME NEW knot \in Knots PROVE knot.time \in Nat
    BY DEF Knots
  <2> QED
    BY <2>1, <2>2
<1>3. \A i, l \in 1 .. n : i < l => knots[i].time < knots[l].time
  BY <1>1 DEF KnotsInv
<1>4. \A i \in around : i = j \/ i + 1 = j
  <2> SUFFICES ASSUME NEW i \in around, i # j, i + 1 # j PROVE FALSE
    OBVIOUS
  <2>1. i \in 1 .. n /\ i + 1 \in 1 .. n /\ knots[i].time <= t /\ t <= knots[i + 1].time
    BY <1>1
  <2>2. CASE j < i
    BY <2>1, <2>2, <1>1, <1>2, <1>3
  <2>3. CASE j > i + 1
    BY <2>1, <2>3, <1>1, <1>2, <1>3
  <2> QED
    BY <2>2, <2>3, <2>1, <1>1
<1>5. around # {}
  <2>1. CASE j = n
    <3>1. n - 1 \in 1 .. n - 1 /\ n - 1 \in 1 .. n /\ n \in 1 .. n /\ n - 1 + 1 = n
      BY <1>1
    <3>2. knots[n - 1].time < knots[n].time
      BY <3>1, <1>3
    <3>3. knots[n - 1].time <= t /\ t <= knots[n - 1 + 1].time
      BY <2>1, <3>1, <3>2, <1>2
    <3>4. n - 1 \in around
      BY <3>1, <3>3
    <3> QED
      BY <3>4
  <2>2. CASE j < n
    <3>1. j \in 1 .. n - 1 /\ j + 1 \in 1 .. n
      BY <2>2, <1>1
    <3>2. knots[j].time < knots[j + 1].time
      BY <3>1, <1>1, <1>3
    <3>3. knots[j].time <= t /\ t <= knots[j + 1].time
      BY <3>1, <3>2, <1>1, <1>2
    <3>4. j \in around
      BY <3>1, <3>3
    <3> QED
      BY <3>4
  <2> QED
    BY <2>1, <2>2, <1>1
<1>6. SegmentAt(knots, t) = CHOOSE i \in around : \A l \in around : i <= l
  BY <1>5 DEF SegmentAt
<1>7. \E i \in around : \A l \in around : i <= l
  <2>1. CASE j - 1 \in around
    BY <2>1, <1>1, <1>4
  <2>2. CASE j - 1 \notin around
    <3>1. \A i \in around : i = j
      BY <2>2, <1>4, <1>1
    <3>2. j \in around
      BY <3>1, <1>5
    <3>3. \A l \in around : j <= l
      BY <3>1, <1>1
    <3> QED
      BY <3>2, <3>3
  <2> QED
    BY <2>1, <2>2
<1>8. SegmentAt(knots, t) \in around
  BY <1>6, <1>7
<1> QED
  BY <1>8, <1>4, <1>1 DEF Segments

\* The times of a trajectory only grow (trajectory.ts 15-40).
THEOREM SplineTypeCorrect == SplineSpec => []SplineTypeOK
<1>1. KnotsInv => SplineTypeOK
  <2> SUFFICES ASSUME KnotsInv PROVE SplineTypeOK
    OBVIOUS
  <2>1. Len(knots) \in 1 .. MaxKnots
    BY DEF KnotsInv
  <2>2. \A i \in Segments : knots[i].time < knots[i + 1].time
    <3> SUFFICES ASSUME NEW i \in Segments PROVE knots[i].time < knots[i + 1].time
      OBVIOUS
    <3>1. i \in DOMAIN knots /\ i + 1 \in DOMAIN knots /\ i < i + 1
      BY DEF KnotsInv, Segments
    <3> QED
      BY <3>1 DEF KnotsInv
  <2>3. \A i \in Segments, k \in {1, 2} : SegmentOf(knots, i, k).d = knots[i].pose[k]
    BY PointsOfKnots
  <2> QED
    BY <2>1, <2>2, <2>3 DEF SplineTypeOK
<1> QED
  BY <1>1, KnotsInvariant, PTL

\* The path on the map is the spline of the trajectory (trajectory.ts 15-40):
\* without gap or kink, and at each knot at its time.
THEOREM PathStaysSpline == SplineSpec => []PathIsSpline
<1>1. KnotsInv => PathIsSpline
  <2> SUFFICES ASSUME KnotsInv PROVE PathIsSpline
    OBVIOUS
  <2>1. PathThroughKnots
    BY PointsOfKnots DEF PathThroughKnots
  <2>2. BezierIsSpline
    <3> SUFFICES ASSUME NEW i \in Segments, NEW k \in {1, 2}, NEW m \in 0 .. Grid
                 PROVE  LET cs == SegmentOf(knots, i, k)
                        IN Bezier(ControlPoints(cs), m, Grid) = 3 * Resolve(cs, m, Grid)
      BY DEF BezierIsSpline
    <3> DEFINE cs == SegmentOf(knots, i, k)
    <3>1. /\ cs = [a |-> cs.a, b |-> cs.b, c |-> cs.c, d |-> cs.d]
          /\ cs.a \in Int /\ cs.b \in Int /\ cs.c \in Int /\ cs.d \in Int
      BY PointsOfKnots
    <3> HIDE DEF cs
    <3>2. m \in Int /\ Grid \in Int
      BY SplineAssumption
    <3>3. Bezier(ControlPoints(cs), m, Grid) = 3 * Resolve(cs, m, Grid)
      BY <3>1, <3>2, BezierIdentity
    <3> QED
      BY <3>3 DEF cs
  <2>3. NoKink
    <3> SUFFICES ASSUME NEW i \in Segments \ {Len(knots) - 1}
                 PROVE  LET came(k)  == LET p == ControlPoints(SegmentOf(knots, i, k)) IN p[4] - p[3]
                            leaves(k) == LET p == ControlPoints(SegmentOf(knots, i + 1, k)) IN p[2] - p[1]
                        IN /\ came(1) * leaves(2) = came(2) * leaves(1)
                           /\ came(1) * leaves(1) + came(2) * leaves(2) >= 0
      BY DEF NoKink
    <3> DEFINE came(k)   == LET p == ControlPoints(SegmentOf(knots, i, k)) IN p[4] - p[3]
               leaves(k) == LET p == ControlPoints(SegmentOf(knots, i + 1, k)) IN p[2] - p[1]
               s == knots[i + 1].time - knots[i].time
               t == knots[i + 1 + 1].time - knots[i + 1].time
    <3>1. i \in Segments /\ i + 1 \in Segments
      BY DEF Segments, KnotsInv
    <3>2. \A k \in {1, 2} : /\ s \in Nat \ {0} /\ came(k) \in Int
                           /\ s * came(k) = knots[i + 1].velocity[k]
      BY <3>1, PointsOfKnots
    <3>3. \A k \in {1, 2} : /\ t \in Nat \ {0} /\ leaves(k) \in Int
                           /\ t * leaves(k) = knots[i + 1].velocity[k]
      BY <3>1, PointsOfKnots
    <3> HIDE DEF came, leaves, s, t
    <3>4. /\ s \in Nat \ {0} /\ t \in Nat \ {0}
          /\ came(1) \in Int /\ came(2) \in Int /\ leaves(1) \in Int /\ leaves(2) \in Int
          /\ s * came(1) = t * leaves(1) /\ s * came(2) = t * leaves(2)
      BY <3>2, <3>3
    <3>5. /\ came(1) * leaves(2) = came(2) * leaves(1)
          /\ came(1) * leaves(1) + came(2) * leaves(2) >= 0
      <4>1. \A p, q, u, v \in Int :
               s * p = t * u /\ s * q = t * v => p * v = q * u /\ p * u + q * v >= 0
        <5>1. s \in Nat \ {0} /\ t \in Nat \ {0}
          BY <3>4
        <5> QED
          BY <5>1, SameDirection
      <4> QED
        BY <3>4, <4>1, Zenon
    <3> QED
      BY <3>5 DEF came, leaves
  <2>4. PositionAtKnots
    <3> SUFFICES ASSUME NEW j \in DOMAIN knots, NEW k \in {1, 2}, Len(knots) > 1
                 PROVE  LET i  == SegmentAt(knots, knots[j].time)
                            dt == knots[i + 1].time - knots[i].time
                        IN Resolve(SegmentOf(knots, i, k), knots[j].time - knots[i].time, dt)
                              = knots[j].pose[k] * dt * dt * dt
      BY DEF PositionAtKnots
    <3> DEFINE i  == SegmentAt(knots, knots[j].time)
               dt == knots[i + 1].time - knots[i].time
               cs == SegmentOf(knots, i, k)
    <3>1. i \in Segments /\ (j = i \/ j = i + 1)
      BY SegmentAtKnot
    <3> HIDE DEF i
    <3>2. /\ cs = [a |-> cs.a, b |-> cs.b, c |-> cs.c, d |-> cs.d]
          /\ cs.a \in Int /\ cs.b \in Int /\ cs.c \in Int /\ cs.d \in Int
          /\ dt \in Nat \ {0}
          /\ cs.d = knots[i].pose[k]
          /\ cs.a + cs.b + cs.c + cs.d = knots[i + 1].pose[k]
      BY <3>1, PointsOfKnots
    <3> HIDE DEF cs
    <3>3. cs.a \in Int /\ cs.b \in Int /\ cs.c \in Int /\ cs.d \in Int /\ dt \in Int
      BY <3>2
    <3>4. CASE j = i
      <4>1. knots[j].time - knots[i].time = 0
        <5>1. knots[j] \in Knots
          BY DEF KnotsInv
        <5>2. knots[j].time \in Nat
          BY <5>1 DEF Knots
        <5> QED
          BY <3>4, <5>2
      <4> HIDE DEF dt
      <4>2. Resolve(cs, 0, dt) = cs.d * dt * dt * dt
        BY <3>3 DEF Resolve
      <4>3. Resolve(cs, knots[j].time - knots[i].time, dt) = knots[j].pose[k] * dt * dt * dt
        BY <4>1, <4>2, <3>2, <3>4
      <4> QED
        BY <4>3 DEF cs, dt, i
    <3>5. CASE j = i + 1
      <4>1. knots[j].time - knots[i].time = dt
        BY <3>5
      <4> HIDE DEF dt
      <4>2. Resolve(cs, dt, dt) = (cs.a + cs.b + cs.c + cs.d) * dt * dt * dt
        <5>1. PICK a \in Int, b \in Int, c \in Int, d \in Int, m \in Int :
                 cs.a = a /\ cs.b = b /\ cs.c = c /\ cs.d = d /\ dt = m
          BY <3>3
        <5>2. a * m * m * m + b * m * m * m + c * m * m * m + d * m * m * m
                = (a + b + c + d) * m * m * m
          OBVIOUS
        <5>3. Resolve(cs, m, m) = (a + b + c + d) * m * m * m
          BY <5>1, <5>2, Zenon DEF Resolve
        <5> QED
          BY <5>1, <5>3, Zenon
      <4>3. Resolve(cs, knots[j].time - knots[i].time, dt) = knots[j].pose[k] * dt * dt * dt
        BY <4>1, <4>2, <3>2, <3>5
      <4> QED
        BY <4>3 DEF cs, dt, i
    <3> QED
      BY <3>1, <3>4, <3>5
  <2> QED
    BY <2>1, <2>2, <2>3, <2>4 DEF PathIsSpline
<1> QED
  BY <1>1, KnotsInvariant, PTL

-----------------------------------------------------------------------------
(* ResourceMap.                                                            *)

Maps == DOMAIN LevelsOf
Asked == [level |-> currentLevel.name, time |-> trajectoryTime]

LevelRefs  == [name : Levels, map : Maps]
TrajAsks   == [level : Levels, time : Times]
Listeners  == {"nobody", "left", "page"}

PageShape ==
    /\ buildingMap \in 0 .. Len(LevelsOf) /\ onPage \in BOOLEAN
    /\ fleets \in {"none", "asked", "known"}
    /\ received \in [Devices -> 0 .. MaxStates] /\ drawn \in [Devices -> 0 .. MaxStates]

LevelShape ==
    /\ currentLevel = NoLevel \/ currentLevel \in LevelRefs
    /\ currentLevel # NoLevel => currentLevel.name \in LevelsOf[currentLevel.map]
    /\ Mounted => currentLevel # NoLevel

ImageShape ==
    /\ images \in [Levels -> 0 .. Len(LevelsOf)]
    /\ imageLoads \subseteq 1 .. buildingMap
    /\ imageFailed \in BOOLEAN /\ imageLate \in BOOLEAN

TrajShape ==
    /\ trajectoryTime \in Times /\ storedTime \in Times
    /\ requests \in Seq(TrajAsks) /\ Len(requests) \in 0 .. MaxInFlight
    /\ trajListener \in Listeners /\ trajQueued \in Listeners
    /\ trajFailed \in BOOLEAN /\ mixed \in BOOLEAN

LayerShape ==
    /\ leaflet \in {"none", "first", "gone", "later"}
    /\ overlayOff \in BOOLEAN /\ unchecked \in BOOLEAN

\* Who listens has its request among those without an answer; with no more than
\* two of them, the first of them listens and the other waits for it.
QueueInv ==
    /\ trajListener # "nobody" => Len(requests) > 0
    /\ trajQueued # "nobody" => Len(requests) > 1
    /\ ~mixed => /\ Len(requests) <= 2
                 /\ Len(requests) > 0 => trajListener # "nobody"
                 /\ Len(requests) = 2 => trajQueued # "nobody"
                 /\ Mounted /\ Len(requests) = 1 => trajListener = "page"
                 /\ Mounted /\ Len(requests) = 2 => trajQueued = "page"

\* The last request is for what is shown, and so is the last answer.
LastAsked ==
    /\ requests # <<>> /\ Mounted => requests[Len(requests)] = Asked
    /\ QueueInv
    /\ TrajectoriesSettle

\* The images of the newest map are loaded, or on their way, or it is known why
\* they are not.
ImagesOfNewest ==
    Mounted => \/ buildingMap \in imageLoads \/ imageFailed \/ imageLate
               \/ \A l \in LevelsOf[buildingMap] : images[l] = buildingMap

MapInv ==
    /\ PageShape /\ LevelShape /\ ImageShape /\ TrajShape /\ LayerShape
    /\ LastAsked /\ ImagesOfNewest /\ LabelsFollowOverlay

-----------------------------------------------------------------------------
LEMMA MapConstants ==
    /\ Len(LevelsOf) \in Nat /\ Maps = 1 .. Len(LevelsOf)
    /\ \A v \in Maps : FirstLevel[v] \in LevelsOf[v] /\ LevelsOf[v] \subseteq Levels
    /\ DefaultTime \in Times /\ MaxStates \in Nat /\ MaxInFlight \in Nat
BY MapAssumption DEF Maps, Levels

\* What the page starts with and leaves behind.
LEMMA BlankMap ==
    /\ Nothing \in [Devices -> 0 .. MaxStates] /\ NoImages \in [Levels -> 0 .. Len(LevelsOf)]
    /\ 0 \in 0 .. Len(LevelsOf) /\ <<>> \in Seq(TrajAsks) /\ Len(<<>>) \in 0 .. MaxInFlight
<1>1. Nothing \in [Devices -> 0 .. MaxStates] /\ NoImages \in [Levels -> 0 .. Len(LevelsOf)]
  BY MapConstants DEF Nothing, NoImages
<1>2. Len(<<>>) = 0 /\ <<>> \in Seq(TrajAsks)
  OBVIOUS
<1> QED
  BY <1>1, <1>2, MapConstants

LEMMA MapInvMeans == MapInv => MapTypeOK /\ MapSettles
<1> SUFFICES ASSUME MapInv PROVE MapTypeOK /\ MapSettles
  OBVIOUS
<1> USE DEF MapInv
<1>1. MapTypeOK
  <2>1. /\ {trajectoryTime, storedTime} \subseteq Times /\ Len(requests) \in 0 .. MaxInFlight
        /\ {trajListener, trajQueued} \subseteq {"nobody", "left", "page"}
    BY DEF TrajShape, Listeners
  <2>2. currentLevel = NoLevel \/ currentLevel.name \in LevelsOf[currentLevel.map]
    BY DEF LevelShape
  <2> QED
    BY <2>1, <2>2 DEF MapTypeOK, PageShape, ImageShape, LayerShape
<1>2. MapIsDrawn
  <2> SUFFICES ASSUME Mounted, imageLoads = {}, ~imageFailed, ~imageLate
               PROVE  /\ \A l \in LevelsOf[buildingMap] : images[l] = buildingMap
                      /\ Displayed <=> currentLevel.name \in LevelsOf[buildingMap]
    BY DEF MapIsDrawn
  <2>1. \A l \in LevelsOf[buildingMap] : images[l] = buildingMap
    BY DEF ImagesOfNewest
  <2>2. buildingMap # 0
    BY DEF Mounted
  <2> QED
    BY <2>1, <2>2 DEF Displayed, Bounds
<1> QED
  BY <1>1, <1>2 DEF MapSettles, LastAsked

-----------------------------------------------------------------------------
(* Parts of steps.                                                         *)

\* The trajectories of what is shown are asked for.
LEMMA MapAskEffect ==
    ASSUME NEW l \in Levels, NEW t \in Times, TrajShape, QueueInv, Ask(l, t)
    PROVE  /\ requests' \in Seq(TrajAsks) /\ Len(requests') \in 0 .. MaxInFlight
           /\ trajListener' \in Listeners /\ trajQueued' \in Listeners /\ mixed' \in BOOLEAN
           /\ requests' # <<>>
           /\ requests'[Len(requests')] = [level |-> l, time |-> t]
           /\ QueueInv'
<1>1. [level |-> l, time |-> t] \in TrajAsks
  BY DEF TrajAsks
<1>2. PICK q : q = [level |-> l, time |-> t]
  OBVIOUS
<1>3. requests' = Append(requests, q) /\ requests \in Seq(TrajAsks) /\ Len(requests) < MaxInFlight
  BY <1>2 DEF Ask, Send, TrajShape
<1>4. /\ requests' \in Seq(TrajAsks) /\ Len(requests') = Len(requests) + 1 /\ requests' # <<>>
      /\ requests'[Len(requests')] = [level |-> l, time |-> t] /\ Len(requests) \in Nat
      /\ requests = <<>> <=> Len(requests) = 0
  BY <1>1, <1>2, <1>3
<1>5. trajListener' \in Listeners /\ trajQueued' \in Listeners /\ mixed' \in BOOLEAN
  BY DEF Ask, Send, TrajShape, Listeners
<1>6. /\ trajListener = "nobody" => trajListener' = "page" /\ trajQueued' = trajQueued
      /\ trajListener # "nobody" => trajListener' = trajListener /\ trajQueued' = "page"
      /\ ~mixed' => Len(requests) = 0 \/ (~mixed /\ Len(requests) <= 1)
  <2>1. /\ trajListener = "nobody" => trajListener' = "page" /\ trajQueued' = trajQueued
        /\ trajListener # "nobody" => trajListener' = trajListener /\ trajQueued' = "page"
    BY DEF Ask, Send
  <2>2. mixed' = (requests # <<>> /\ (mixed \/ Len(requests) > 1))
    BY DEF Ask, Send
  <2>3. Len(requests) = 0 \/ Len(requests) <= 1 \/ Len(requests) > 1
    BY <1>4
  <2>4. ~mixed' => Len(requests) = 0 \/ (~mixed /\ Len(requests) <= 1)
    <3>1. ~mixed' => requests = <<>> \/ (~mixed /\ ~(Len(requests) > 1))
      BY <2>2
    <3> QED
      BY <1>4, <2>3, <3>1, Zenon
  <2> QED
    BY <2>1, <2>4
<1>7. QueueInv'
  BY <1>4, <1>6 DEF QueueInv
<1> QED
  BY <1>3, <1>4, <1>5, <1>7, MapConstants

\* Drawing keeps the labels with the overlay.
LEMMA DrawEffect ==
    ASSUME LayerShape, LabelsFollowOverlay, Draw
    PROVE  LayerShape' /\ LabelsFollowOverlay'
<1>1. unchecked' = unchecked
  BY DEF Draw
<1>2. leaflet' \in {"none", "first", "gone", "later"} /\ (leaflet' = "first" => leaflet \in {"none", "first"})
  BY DEF Draw, LayerShape
<1>3. overlayOff' = overlayOff \/ overlayOff' = unchecked
  BY DEF Draw
<1>4. CASE leaflet' = leaflet
  <2>1. overlayOff' = overlayOff
    BY <1>4 DEF Draw
  <2> QED
    BY <1>1, <1>4, <2>1 DEF LayerShape, LabelsFollowOverlay
<1>5. CASE leaflet' # leaflet
  <2>1. overlayOff' = unchecked
    BY <1>5 DEF Draw
  <2> QED
    BY <1>1, <1>2, <2>1 DEF LayerShape, LabelsFollowOverlay
<1> QED
  BY <1>4, <1>5

\* The map is mounted.
LEMMA MountEffect ==
    ASSUME MapInv, MountVisualizer, buildingMap' \in Maps, onPage'
    PROVE  /\ LevelShape' /\ ImageShape' /\ TrajShape' /\ LastAsked' /\ ImagesOfNewest'
           /\ UNCHANGED layerVars
<1> USE DEF MapInv
<1>1. PICK b \in Maps : b = buildingMap'
  OBVIOUS
<1>2. FirstLevel[b] \in LevelsOf[b] /\ FirstLevel[b] \in Levels /\ b \in 1 .. Len(LevelsOf) /\ b # 0
  BY MapConstants
<1>3. /\ currentLevel' = [name |-> FirstLevel[b], map |-> b]
      /\ currentLevel'.name = FirstLevel[b] /\ currentLevel'.map = b
  BY <1>1 DEF MountVisualizer
<1>4. LevelShape'
  <2>1. currentLevel' \in LevelRefs
    BY <1>2, <1>3 DEF LevelRefs
  <2>2. currentLevel' # NoLevel
    <3>1. NoLevel.map = 0
      BY DEF NoLevel
    <3> QED
      BY <1>2, <1>3, <3>1
  <2> QED
    BY <1>2, <1>3, <2>1, <2>2 DEF LevelShape
<1>5. ImageShape'
  BY <1>1, <1>2 DEF MountVisualizer, ImageShape
<1>6. Ask(FirstLevel[b], storedTime) /\ trajectoryTime' = storedTime /\ storedTime' = storedTime
  BY <1>3 DEF MountVisualizer
<1>7. /\ requests' \in Seq(TrajAsks) /\ Len(requests') \in 0 .. MaxInFlight /\ requests' # <<>>
      /\ requests'[Len(requests')] = [level |-> FirstLevel[b], time |-> storedTime]
      /\ trajListener' \in Listeners /\ trajQueued' \in Listeners /\ mixed' \in BOOLEAN /\ QueueInv'
  BY <1>2, <1>6, MapAskEffect DEF TrajShape, LastAsked
<1>8. TrajShape'
  BY <1>6, <1>7 DEF MountVisualizer, shownVars, TrajShape
<1>9. LastAsked'
  BY <1>1, <1>2, <1>3, <1>6, <1>7 DEF LastAsked, TrajectoriesSettle, Asked, Mounted
<1>10. ImagesOfNewest' /\ UNCHANGED layerVars
  BY DEF MountVisualizer, ImagesOfNewest
<1> QED
  BY <1>4, <1>5, <1>8, <1>9, <1>10

-----------------------------------------------------------------------------
(* The steps.                                                              *)

\* What the page shows does not change.
LEMMA PageUnchanged ==
    ASSUME MapInv, UNCHANGED <<buildingMap, onPage, currentLevel>>
    PROVE  LevelShape' /\ (Mounted' <=> Mounted)
BY DEF MapInv, LevelShape, Mounted

LEMMA ImagesUnchanged ==
    ASSUME MapInv, UNCHANGED <<buildingMap, onPage, imageVars>>
    PROVE  ImageShape' /\ ImagesOfNewest'
BY DEF MapInv, imageVars, ImageShape, ImagesOfNewest, Mounted

LEMMA LayersUnchanged ==
    ASSUME MapInv, UNCHANGED layerVars PROVE LayerShape' /\ LabelsFollowOverlay'
BY DEF MapInv, layerVars, LayerShape, LabelsFollowOverlay

LEMMA TrajectoriesUnchanged ==
    ASSUME MapInv, UNCHANGED <<trajVars, currentLevel>>, Mounted' <=> Mounted
    PROVE  TrajShape' /\ LastAsked'
<1>1. TrajShape'
  BY DEF MapInv, trajVars, shownVars, TrajShape
<1>2. LastAsked'
  BY DEF MapInv, trajVars, shownVars, LastAsked, QueueInv, TrajectoriesSettle, Asked
<1> QED
  BY <1>1, <1>2

\* What is shown changes, or not, and is asked for.
LEMMA MapAskStep ==
    ASSUME MapInv, Mounted, Mounted', UNCHANGED shownVars,
           currentLevel' \in LevelRefs, trajectoryTime' \in Times, storedTime' \in Times,
           Ask(currentLevel'.name, trajectoryTime')
    PROVE  TrajShape' /\ LastAsked'
<1>1. currentLevel'.name \in Levels
  BY DEF LevelRefs
<1>2. /\ requests' \in Seq(TrajAsks) /\ Len(requests') \in 0 .. MaxInFlight /\ requests' # <<>>
      /\ requests'[Len(requests')] = [level |-> currentLevel'.name, time |-> trajectoryTime']
      /\ trajListener' \in Listeners /\ trajQueued' \in Listeners /\ mixed' \in BOOLEAN /\ QueueInv'
  BY <1>1, MapAskEffect DEF MapInv, LastAsked
<1>3. TrajShape'
  BY <1>2 DEF TrajShape, MapInv, shownVars
<1>4. LastAsked'
  BY <1>2 DEF LastAsked, TrajectoriesSettle, Asked
<1> QED
  BY <1>3, <1>4

LEMMA LevelHere ==
    ASSUME MapInv, NEW l \in LevelsOf[buildingMap], Mounted
    PROVE  LevelOf(l) \in LevelRefs /\ LevelOf(l) # NoLevel /\ LevelOf(l).name = l
           /\ LevelOf(l).map = buildingMap
<1>1. buildingMap \in Maps /\ buildingMap # 0
  BY MapConstants DEF MapInv, PageShape, Mounted
<1>2. l \in Levels
  BY <1>1, MapConstants
<1>3. NoLevel.map = 0 /\ LevelOf(l).map = buildingMap
  BY DEF NoLevel, LevelOf
<1> QED
  BY <1>1, <1>2, <1>3 DEF LevelOf, LevelRefs

LEMMA VisitStep == ASSUME MapInv, VisitPage PROVE MapInv'
<1> USE DEF MapInv
<1>1. PageShape'
  BY DEF VisitPage, PageShape
<1>2. ~Mounted
  BY DEF Mounted, VisitPage
<1>3. CASE buildingMap # 0
  <2>1. buildingMap' \in Maps /\ onPage' /\ MountVisualizer
    BY <1>3, MapConstants DEF VisitPage, PageShape
  <2>2. /\ LevelShape' /\ ImageShape' /\ TrajShape' /\ LastAsked' /\ ImagesOfNewest'
        /\ UNCHANGED layerVars
    BY <2>1, MountEffect
  <2> QED
    BY <1>1, <2>2, LayersUnchanged
<1>4. CASE buildingMap = 0
  <2>1. UNCHANGED <<currentLevel, imageVars, trajVars, layerVars, buildingMap>> /\ ~Mounted'
    BY <1>4 DEF VisitPage, Mounted
  <2>2. LayerShape' /\ LabelsFollowOverlay' /\ TrajShape' /\ LastAsked'
    BY <1>2, <2>1, LayersUnchanged, TrajectoriesUnchanged
  <2>3. LevelShape' /\ ImageShape' /\ ImagesOfNewest'
    BY <2>1 DEF LevelShape, ImageShape, ImagesOfNewest, imageVars
  <2> QED
    BY <1>1, <2>2, <2>3
<1> QED
  BY <1>3, <1>4

LEMMA LeaveStep == ASSUME MapInv, LeavePage PROVE MapInv'
<1> USE DEF MapInv
<1>1. ~Mounted'
  BY DEF LeavePage, Mounted
<1>2. PageShape'
  BY BlankMap DEF LeavePage, PageShape
<1>3. LevelShape' /\ ImagesOfNewest'
  BY <1>1 DEF LeavePage, LevelShape, ImagesOfNewest
<1>4. ImageShape'
  BY BlankMap DEF LeavePage, ImageShape
<1>5. TrajShape'
  BY MapConstants DEF LeavePage, TrajShape, OfLeft, Listeners
<1>6. LastAsked'
  <2>1. QueueInv'
    BY <1>1 DEF LeavePage, LastAsked, QueueInv, OfLeft
  <2> QED
    BY <1>1, <2>1 DEF LastAsked, TrajectoriesSettle
<1>7. LayerShape' /\ LabelsFollowOverlay'
  BY DEF LeavePage, LayerShape, LabelsFollowOverlay
<1> QED
  BY <1>2, <1>3, <1>4, <1>5, <1>6, <1>7

LEMMA BuildingMapStep == ASSUME MapInv, BuildingMapArrives PROVE MapInv'
<1> USE DEF MapInv
<1>1. /\ buildingMap' = buildingMap + 1 /\ buildingMap' \in Maps /\ buildingMap' # 0
      /\ UNCHANGED <<onPage, stateVars>>
  BY MapConstants DEF BuildingMapArrives, PageShape
<1>2. PageShape'
  BY <1>1, MapConstants DEF PageShape, stateVars
<1>3. CASE ~onPage
  <2>1. UNCHANGED <<currentLevel, imageVars, trajVars, layerVars>> /\ ~Mounted /\ ~Mounted'
    BY <1>1, <1>3 DEF BuildingMapArrives, Mounted
  <2>2. LayerShape' /\ LabelsFollowOverlay' /\ TrajShape' /\ LastAsked'
    BY <2>1, LayersUnchanged, TrajectoriesUnchanged
  <2>3. LevelShape' /\ ImagesOfNewest'
    BY <2>1 DEF LevelShape, ImagesOfNewest
  <2>4. ImageShape'
    BY <1>1, <2>1 DEF ImageShape, imageVars, PageShape
  <2> QED
    BY <1>2, <2>2, <2>3, <2>4
<1>4. CASE onPage /\ buildingMap = 0
  <2>1. MountVisualizer /\ onPage'
    BY <1>1, <1>4 DEF BuildingMapArrives
  <2>2. /\ LevelShape' /\ ImageShape' /\ TrajShape' /\ LastAsked' /\ ImagesOfNewest'
        /\ UNCHANGED layerVars
    BY <1>1, <2>1, MountEffect
  <2> QED
    BY <1>2, <2>2, LayersUnchanged
<1>5. CASE onPage /\ buildingMap # 0
  <2>1. LoadImages /\ UNCHANGED <<currentLevel, trajVars>> /\ Draw /\ Mounted /\ Mounted'
    BY <1>1, <1>5 DEF BuildingMapArrives, Mounted
  <2>2. LayerShape' /\ LabelsFollowOverlay' /\ TrajShape' /\ LastAsked'
    BY <2>1, DrawEffect, TrajectoriesUnchanged
  <2>3. LevelShape'
    BY <2>1 DEF LevelShape
  <2>4. ImageShape' /\ ImagesOfNewest'
    BY <1>1, <2>1 DEF LoadImages, ImageShape, ImagesOfNewest, PageShape
  <2> QED
    BY <1>2, <2>2, <2>3, <2>4
<1> QED
  BY <1>3, <1>4, <1>5

LEMMA ImagesStep == ASSUME MapInv, ImagesLoaded PROVE MapInv'
<1> USE DEF MapInv
<1>1. UNCHANGED <<buildingMap, onPage, currentLevel, stateVars, trajVars>> /\ Draw
  BY DEF ImagesLoaded
<1>2. /\ PageShape' /\ LevelShape' /\ TrajShape' /\ LastAsked'
      /\ LayerShape' /\ LabelsFollowOverlay'
  <2>1. PageShape'
    BY <1>1 DEF PageShape, stateVars
  <2> QED
    BY <1>1, <2>1, PageUnchanged, TrajectoriesUnchanged, DrawEffect
<1>3. PICK load \in imageLoads :
          /\ imageLoads' = imageLoads \ {load}
          /\ \/ /\ images' = [l \in Levels |-> IF l \in LevelsOf[load] THEN load ELSE 0]
                /\ imageLate' = (load < buildingMap /\
                                     (imageLate \/ \E l \in Levels : images[l] > load))
                /\ UNCHANGED imageFailed
             \/ imageFailed' = TRUE /\ UNCHANGED <<images, imageLate>>
  BY DEF ImagesLoaded
<1>4. load \in 1 .. buildingMap /\ buildingMap \in Maps /\ buildingMap \in 1 .. Len(LevelsOf)
  <2>1. load \in 1 .. buildingMap
    BY DEF ImageShape
  <2>2. buildingMap \in 0 .. Len(LevelsOf)
    BY DEF PageShape
  <2>3. buildingMap \in 1 .. Len(LevelsOf)
    BY <2>1, <2>2, MapConstants
  <2> QED
    BY <2>1, <2>3, MapConstants
<1>5. CASE imageFailed' = TRUE /\ UNCHANGED <<images, imageLate>>
  BY <1>1, <1>2, <1>3, <1>5 DEF ImageShape, ImagesOfNewest
<1>6. CASE /\ images' = [l \in Levels |-> IF l \in LevelsOf[load] THEN load ELSE 0]
           /\ imageLate' = (load < buildingMap /\
                                (imageLate \/ \E l \in Levels : images[l] > load))
           /\ UNCHANGED imageFailed
  <2>1. ImageShape'
    <3>1. images' \in [Levels -> 0 .. Len(LevelsOf)]
      BY <1>4, <1>6
    <3>2. imageLate' \in BOOLEAN
      BY <1>6
    <3> QED
      BY <1>1, <1>3, <1>6, <3>1, <3>2 DEF ImageShape
  <2>2. ImagesOfNewest'
    <3>1. CASE load = buildingMap
      <4>1. \A l \in LevelsOf[buildingMap] : l \in Levels
        BY <1>4, MapConstants
      <4> QED
        BY <1>1, <1>6, <3>1, <4>1 DEF ImagesOfNewest
    <3>2. CASE load # buildingMap
      <4>1. load < buildingMap
        BY <1>4, <3>2
      <4>2. PICK l \in LevelsOf[buildingMap] : l \in Levels
        BY <1>4, MapConstants
      <4>3. Mounted => \/ buildingMap \in imageLoads \/ imageFailed \/ imageLate
                       \/ images[l] > load
        BY <4>1, <4>2 DEF ImagesOfNewest
      <4> QED
        BY <1>1, <1>2, <1>3, <1>6, <3>2, <4>1, <4>2, <4>3 DEF ImagesOfNewest, Mounted
    <3> QED
      BY <3>1, <3>2
  <2> QED
    BY <1>2, <2>1, <2>2
<1> QED
  BY <1>3, <1>5, <1>6

LEMMA LevelStep == ASSUME MapInv, ChangeLevel PROVE MapInv'
<1> USE DEF MapInv
<1>1. /\ UNCHANGED <<buildingMap, onPage, stateVars, imageVars>> /\ Draw /\ Mounted /\ Mounted'
      /\ UNCHANGED <<shownVars, trajectoryTime, storedTime>>
  BY DEF ChangeLevel, Displayed, Mounted
<1>2. PICK l \in LevelsOf[buildingMap] : currentLevel' = LevelOf(l) /\ Ask(l, trajectoryTime)
  BY DEF ChangeLevel
<1>3. /\ currentLevel' \in LevelRefs /\ currentLevel' # NoLevel /\ currentLevel'.name = l
      /\ currentLevel'.map = buildingMap
  BY <1>1, <1>2, LevelHere
<1>4. LevelShape'
  BY <1>2, <1>3 DEF LevelShape
<1>5. TrajShape' /\ LastAsked'
  BY <1>1, <1>2, <1>3, MapAskStep DEF TrajShape
<1>6. PageShape'
  BY <1>1 DEF PageShape, stateVars
<1> QED
  BY <1>1, <1>4, <1>5, <1>6, DrawEffect, ImagesUnchanged

LEMMA AskAgainStep == ASSUME MapInv, ChangeTime \/ Interval PROVE MapInv'
<1> USE DEF MapInv
<1>1. /\ UNCHANGED <<buildingMap, onPage, stateVars, currentLevel, imageVars, layerVars>>
      /\ Mounted /\ Mounted' /\ UNCHANGED shownVars
  BY DEF ChangeTime, Interval, Displayed, Mounted
<1>2. trajectoryTime' \in Times /\ storedTime' \in Times /\ Ask(currentLevel'.name, trajectoryTime')
  <2>1. CASE ChangeTime
    BY <2>1 DEF ChangeTime
  <2>2. CASE Interval
    BY <2>2 DEF Interval, TrajShape
  <2> QED
    BY <2>1, <2>2
<1>3. currentLevel' \in LevelRefs
  BY <1>1 DEF LevelShape
<1>4. TrajShape' /\ LastAsked'
  BY <1>1, <1>2, <1>3, MapAskStep
<1>5. PageShape'
  BY <1>1 DEF PageShape, stateVars
<1> QED
  BY <1>1, <1>4, <1>5, PageUnchanged, ImagesUnchanged, LayersUnchanged

LEMMA MapAnswerStep == ASSUME MapInv, TrajectoryAnswer PROVE MapInv'
<1> USE DEF MapInv
<1>1. /\ UNCHANGED <<buildingMap, onPage, stateVars, currentLevel, imageVars, layerVars>>
      /\ requests # <<>> /\ requests' = Tail(requests)
      /\ UNCHANGED <<trajectoryTime, storedTime, mixed>>
      /\ trajListener' = trajQueued /\ trajQueued' = "nobody"
  BY DEF TrajectoryAnswer
<1>2. requests \in Seq(TrajAsks) /\ Len(requests) \in 1 .. MaxInFlight
  BY <1>1 DEF TrajShape
<1>3. /\ requests' \in Seq(TrajAsks) /\ Len(requests') = Len(requests) - 1
      /\ \A n \in 1 .. Len(requests') : requests'[n] = requests[n + 1]
      /\ Head(requests) = requests[1]
  BY <1>1, <1>2
<1>4. TrajShape'
  <2>1. trajFailed' \in BOOLEAN
    BY DEF TrajectoryAnswer, TrajShape, shownVars
  <2>2. Len(requests') \in 0 .. MaxInFlight
    BY <1>2, <1>3, MapConstants
  <2> QED
    BY <1>1, <1>3, <2>1, <2>2 DEF TrajShape, Listeners
<1>5. (Mounted' <=> Mounted) /\ Asked' = Asked /\ (Mounted => requests[Len(requests)] = Asked)
  BY <1>1 DEF LastAsked, Mounted, Asked
<1>6. LastAsked'
  <2>0. QueueInv'
    <3>1. QueueInv /\ Len(requests) \in Nat /\ Len(requests') = Len(requests) - 1
      BY <1>2, <1>3 DEF LastAsked
    <3>2. trajListener' # "nobody" => Len(requests') > 0
      BY <1>1, <3>1 DEF QueueInv
    <3>3. ~mixed' => Len(requests') <= 1
      BY <1>1, <3>1 DEF QueueInv
    <3>4. ~mixed' /\ Len(requests') > 0 => trajListener' # "nobody"
      BY <1>1, <3>1 DEF QueueInv
    <3>5. ~mixed' /\ Mounted' /\ Len(requests') = 1 => trajListener' = "page"
      BY <1>1, <1>5, <3>1 DEF QueueInv
    <3>6. Len(requests') \in Nat
      BY <1>2, <1>3
    <3> QED
      BY <1>1, <3>2, <3>3, <3>4, <3>5, <3>6 DEF QueueInv
  <2>1. CASE Len(requests) = 1
    <3>1. requests' = <<>>
      BY <1>2, <1>3, <2>1
    <3>2. Mounted /\ ~mixed => trajListener = "page"
      BY <2>1 DEF LastAsked, QueueInv
    <3>3. Mounted /\ ~mixed => trajFailed' \/ trajectories' = Asked
      BY <1>3, <1>5, <2>1, <3>2 DEF TrajectoryAnswer
    <3> QED
      BY <1>1, <1>5, <2>0, <3>1, <3>3 DEF LastAsked, TrajectoriesSettle, Asked
  <2>2. CASE Len(requests) # 1
    <3>1. Len(requests') \in 1 .. Len(requests') /\ Len(requests') + 1 = Len(requests)
      BY <1>2, <1>3, <2>2
    <3>2. requests' # <<>> /\ (Mounted => requests'[Len(requests')] = Asked')
      BY <1>2, <1>3, <1>5, <3>1
    <3> QED
      BY <1>5, <2>0, <3>2 DEF LastAsked, TrajectoriesSettle
  <2> QED
    BY <2>1, <2>2
<1>7. PageShape'
  BY <1>1 DEF PageShape, stateVars
<1> QED
  BY <1>1, <1>4, <1>6, <1>7, PageUnchanged, ImagesUnchanged, LayersUnchanged

LEMMA MapStep == ASSUME MapInv, [MapNext]_mapVars PROVE MapInv'
<1> USE DEF MapInv
<1>1. CASE ToggleOverlay
  <2>1. UNCHANGED <<buildingMap, onPage, stateVars, currentLevel, imageVars, trajVars>>
    BY <1>1 DEF ToggleOverlay
  <2>2. LayerShape' /\ LabelsFollowOverlay'
    BY <1>1 DEF ToggleOverlay, LayerShape, LabelsFollowOverlay, Unchecked
  <2>3. PageShape'
    BY <2>1 DEF PageShape, stateVars
  <2> QED
    BY <2>1, <2>2, <2>3, PageUnchanged, ImagesUnchanged, TrajectoriesUnchanged
<1>2. ASSUME UNCHANGED <<buildingMap, onPage, currentLevel, imageVars, trajVars, layerVars>>, PageShape'
      PROVE  MapInv'
  BY <1>2, PageUnchanged, ImagesUnchanged, TrajectoriesUnchanged, LayersUnchanged
<1>3. CASE GetFleets
  <2>1. PageShape'
    BY <1>3 DEF GetFleets, PageShape
  <2> QED
    BY <1>2, <1>3, <2>1 DEF GetFleets
<1>4. ASSUME NEW d \in Devices, StateArrives(d) PROVE MapInv'
  <2>1. PageShape'
    BY <1>4, MapConstants DEF StateArrives, PageShape
  <2> QED
    BY <1>2, <1>4, <2>1 DEF StateArrives
<1>5. CASE TriggerRender
  <2>1. PageShape'
    BY <1>5 DEF TriggerRender, PageShape, DrawDevice
  <2> QED
    BY <1>2, <1>5, <2>1 DEF TriggerRender
<1>6. CASE UNCHANGED mapVars
  <2>1. PageShape'
    BY <1>6 DEF mapVars, stateVars, PageShape
  <2> QED
    BY <1>2, <1>6, <2>1 DEF mapVars
<1> QED
  BY <1>1, <1>3, <1>4, <1>5, <1>6, VisitStep, LeaveStep, BuildingMapStep, ImagesStep,
     LevelStep, AskAgainStep, MapAnswerStep DEF MapNext

LEMMA MapStart == MapInit => MapInv
<1> SUFFICES ASSUME MapInit PROVE MapInv
  OBVIOUS
<1>1. ~Mounted
  BY DEF MapInit, Mounted
<1>2. PageShape
  BY BlankMap DEF MapInit, PageShape
<1>3. LevelShape /\ ImagesOfNewest
  BY <1>1 DEF MapInit, LevelShape, ImagesOfNewest
<1>4. ImageShape
  BY BlankMap DEF MapInit, ImageShape
<1>5. TrajShape
  BY BlankMap, MapConstants DEF MapInit, TrajShape, Listeners
<1>6. LastAsked
  <2>1. Len(<<>>) = 0
    OBVIOUS
  <2> QED
    BY <1>1, <2>1 DEF MapInit, LastAsked, QueueInv, TrajectoriesSettle
<1>7. LayerShape /\ LabelsFollowOverlay
  BY DEF MapInit, LayerShape, LabelsFollowOverlay
<1> QED
  BY <1>2, <1>3, <1>4, <1>5, <1>6, <1>7 DEF MapInv

\* dashboard.tsx and schedule-visualizer/index.tsx: for any building maps and any
\* number of requests under way, the trajectories, the images and the labels of
\* the map settle on what was asked for last, whatever answers, loads and changes
\* cross, but for the cases that MapSettles names: a request or a load that
\* failed, three requests at once, and the slower load of an older map.
THEOREM MapStaysSettled == MapSpec => [](MapTypeOK /\ MapSettles)
BY MapStart, MapStep, MapInvMeans, PTL DEF MapSpec

-----------------------------------------------------------------------------
(* RobotPage.                                                              *)

Rows == [robot : Robots, task : TaskStates]

RobotShape ==
    /\ taskOf \in [DOMAIN RobotList -> TaskStates]
    /\ robotPage \in Nat /\ hasMore \in BOOLEAN
    /\ rows \in Seq(Rows) /\ Len(rows) <= RobotsPerPage
    /\ robotAsks \in Nat /\ applied \in 0 .. robotAsks /\ robotClicks \in Nat
    /\ selectedRobot \in Rows \cup {NoRobot}
    /\ currentTask \in {"none", "active", "completed"}
    /\ hasConcreteEndTime \in BOOLEAN /\ effectDue \in BOOLEAN

\* The request made last, and no other for certain, is for the page of the page.
LastIsForPage ==
    \A f \in robotFetches :
        f.id \in 1 .. robotAsks /\ f.page \in Nat /\ (f.id = robotAsks => f.page = robotPage)

\* The rows and the next page are those of the page p.
ShowsPage(p) ==
    /\ [i \in DOMAIN rows |-> rows[i].robot] =
          SubSeq(RobotList, p * RobotsPerPage + 1, Upto(Len(RobotList), (p + 1) * RobotsPerPage))
    /\ NextEnabled = ((p + 1) * RobotsPerPage < Len(RobotList))

AppliedIsShown == applied = robotAsks /\ robotAsks > 0 => ShowsPage(robotPage)

RobotInv == RobotShape /\ LastIsForPage /\ AppliedIsShown /\ InfoSettles

-----------------------------------------------------------------------------
\* A slice of a sequence.
LEMMA Slice ==
    ASSUME NEW S, NEW s \in Seq(S), NEW m \in Nat \ {0}, NEW n \in 0 .. Len(s)
    PROVE  /\ SubSeq(s, m, n) \in Seq(S)
           /\ Len(SubSeq(s, m, n)) = IF m <= n THEN n - m + 1 ELSE 0
           /\ \A i \in 1 .. Len(SubSeq(s, m, n)) : SubSeq(s, m, n)[i] = s[m + i - 1]
<1>1. m \in 1 .. Len(s) + 1 \/ n < m
  OBVIOUS
<1> QED
  BY SubSeqProperties

LEMMA Offsets ==
    ASSUME NEW p \in Nat
    PROVE  p * RobotsPerPage \in Nat /\ (p + 1) * RobotsPerPage = p * RobotsPerPage + RobotsPerPage
BY RobotPageAssumption

\* The answer to a request for the page p and the rows that are kept of it.
LEMMA AnswerShowsPage ==
    ASSUME taskOf \in [DOMAIN RobotList -> TaskStates], NEW p \in Nat
    PROVE  /\ Sliced(Answered(p)) \in Seq(Rows) /\ Len(Sliced(Answered(p))) <= RobotsPerPage
           /\ [i \in DOMAIN Sliced(Answered(p)) |-> Sliced(Answered(p))[i].robot] =
                 SubSeq(RobotList, p * RobotsPerPage + 1,
                        Upto(Len(RobotList), (p + 1) * RobotsPerPage))
           /\ (Len(Answered(p)) > RobotsPerPage) = ((p + 1) * RobotsPerPage < Len(RobotList))
<1>0. PICK o, R, L, e : /\ o = p * RobotsPerPage /\ R = RobotsPerPage /\ L = Len(RobotList)
                       /\ e = (p + 1) * RobotsPerPage
  OBVIOUS
<1>1. /\ o \in Nat /\ R \in Nat \ {0} /\ L \in Nat /\ e = o + R
      /\ o = p * RobotsPerPage /\ R = RobotsPerPage /\ L = Len(RobotList)
  <2>1. L \in Nat /\ R \in Nat \ {0}
    BY <1>0, RobotPageAssumption
  <2> QED
    BY <1>0, <2>1, Offsets
<1>2. PICK all : all = [i \in DOMAIN RobotList |-> [robot |-> RobotList[i], task |-> taskOf[i]]]
  OBVIOUS
<1>3. /\ all \in Seq(Rows) /\ Len(all) = L
      /\ \A i \in 1 .. L : all[i].robot = RobotList[i]
  <2>1. RobotList \in Seq(Robots) /\ DOMAIN RobotList = 1 .. L
    BY <1>1, RobotPageAssumption
  <2>2. \A i \in 1 .. L : RobotList[i] \in Robots /\ taskOf[i] \in TaskStates
    BY <2>1 DEF Robots
  <2>3. \A i \in 1 .. L : all[i] = [robot |-> RobotList[i], task |-> taskOf[i]]
    BY <1>2, <2>1
  <2>4. \A i \in 1 .. L : all[i] \in Rows /\ all[i].robot = RobotList[i]
    <3> TAKE i \in 1 .. L
    <3>1. PICK r \in Robots, t \in TaskStates : r = RobotList[i] /\ t = taskOf[i]
      BY <2>2
    <3>2. all[i] = [robot |-> r, task |-> t]
      BY <2>3, <3>1
    <3> QED
      BY <3>1, <3>2 DEF Rows
  <2>5. all = [i \in 1 .. L |-> all[i]]
    BY <1>2, <2>1
  <2> QED
    BY <1>1, <2>4, <2>5
<1>4. PICK u \in 0 .. L, w \in 0 .. L :
         /\ u = Upto(L, o + R + 1) /\ w = Upto(L, o + R)
  BY <1>1 DEF Upto
<1>5. PICK answer : answer = SubSeq(all, o + 1, u)
  OBVIOUS
<1>6. Answered(p) = answer
  BY <1>1, <1>2, <1>4, <1>5 DEF Answered
<1>7. /\ answer \in Seq(Rows) /\ Len(answer) = IF o + 1 <= u THEN u - o ELSE 0
      /\ \A i \in 1 .. Len(answer) : answer[i] = all[o + i]
  <2>1. /\ answer \in Seq(Rows)
        /\ Len(answer) = IF o + 1 <= u THEN u - (o + 1) + 1 ELSE 0
        /\ \A i \in 1 .. Len(answer) : answer[i] = all[(o + 1) + i - 1]
    <3>1. o + 1 \in Nat \ {0} /\ u \in 0 .. Len(all)
      BY <1>1, <1>3, <1>4
    <3> QED
      BY <1>3, <1>5, <3>1, Slice
  <2>2. (IF o + 1 <= u THEN u - (o + 1) + 1 ELSE 0) = IF o + 1 <= u THEN u - o ELSE 0
    BY <1>1, <1>4
  <2>3. \A i \in 1 .. Len(answer) : answer[i] = all[o + i]
    <3> TAKE i \in 1 .. Len(answer)
    <3>1. (o + 1) + i - 1 = o + i
      BY <1>1
    <3> QED
      BY <2>1, <3>1
  <2> QED
    BY <2>1, <2>2, <2>3
<1>8. PICK result, k, n : /\ n = Len(answer) /\ k = Upto(n, R)
                         /\ result = SubSeq(answer, 1, k)
  OBVIOUS
<1>9. Sliced(answer) = result
  BY <1>1, <1>8 DEF Sliced
<1>10. /\ n \in Nat /\ n = Len(answer) /\ n = (IF o + 1 <= u THEN u - o ELSE 0)
       /\ k \in 0 .. n /\ k <= R /\ k = IF o + 1 <= w THEN w - o ELSE 0
  <2>1. n = IF o + 1 <= u THEN u - o ELSE 0
    BY <1>7, <1>8
  <2>2. n \in Nat
    BY <2>1, <1>1, <1>4
  <2>3. k = IF n < R THEN n ELSE R
    BY <1>8 DEF Upto
  <2>4. /\ u = (IF L < o + R + 1 THEN L ELSE o + R + 1)
        /\ w = (IF L < o + R THEN L ELSE o + R)
    BY <1>4 DEF Upto
  <2> QED
    <3>1. n = Len(answer)
      BY <1>8
    <3>2. k \in 0 .. n /\ k <= R
      BY <1>1, <2>2, <2>3
    <3>3. k = IF o + 1 <= w THEN w - o ELSE 0
      <4>1. k \in Nat /\ u \in Nat /\ w \in Nat /\ R \in Nat /\ R > 0
        BY <1>1, <3>2, <2>2
      <4> QED
        <5>1. o \in Nat /\ L \in Nat /\ n \in Nat
          BY <1>1, <2>2
        <5>2. /\ u = (IF L < o + R + 1 THEN L ELSE o + R + 1)
              /\ w = (IF L < o + R THEN L ELSE o + R)
              /\ n = (IF o + 1 <= u THEN u - o ELSE 0)
              /\ k = (IF n < R THEN n ELSE R)
          BY <2>1, <2>3, <2>4
        <5>3. CASE L < o + R
          BY <4>1, <5>1, <5>2, <5>3
        <5>4. CASE ~(L < o + R)
          BY <4>1, <5>1, <5>2, <5>4
        <5> QED
          BY <5>3, <5>4
    <3> QED
      BY <2>1, <2>2, <3>1, <3>2, <3>3
<1>11. /\ result \in Seq(Rows) /\ Len(result) = k
       /\ \A i \in 1 .. k : result[i] = answer[i]
  <2>1. /\ result \in Seq(Rows) /\ Len(result) = IF 1 <= k THEN k - 1 + 1 ELSE 0
        /\ \A i \in 1 .. Len(result) : result[i] = answer[1 + i - 1]
    <3>1. 1 \in Nat \ {0} /\ k \in 0 .. Len(answer)
      BY <1>10
    <3> QED
      BY <1>7, <1>8, <3>1, Slice
  <2>2. Len(result) = k
    BY <1>10, <2>1
  <2>3. \A i \in 1 .. k : 1 + i - 1 = i
    BY <1>10
  <2> QED
    BY <2>1, <2>2, <2>3
<1>12. PICK shown : shown = SubSeq(RobotList, o + 1, w)
  OBVIOUS
<1>13. /\ shown \in Seq(Robots) /\ Len(shown) = k
       /\ \A i \in 1 .. k : shown[i] = RobotList[o + i]
  <2>1. /\ shown \in Seq(Robots) /\ Len(shown) = IF o + 1 <= w THEN w - (o + 1) + 1 ELSE 0
        /\ \A i \in 1 .. Len(shown) : shown[i] = RobotList[(o + 1) + i - 1]
    <3>1. o + 1 \in Nat \ {0} /\ w \in 0 .. Len(RobotList)
      BY <1>1, <1>4
    <3> QED
      BY <1>12, <3>1, Slice, RobotPageAssumption, SMTT(20)
  <2>2. Len(shown) = k
    BY <1>1, <1>4, <1>10, <2>1
  <2>3. \A i \in 1 .. k : (o + 1) + i - 1 = o + i
    BY <1>1, <1>10
  <2> QED
    BY <2>1, <2>2, <2>3
<1>14. \A i \in 1 .. k : result[i].robot = shown[i]
  <2> TAKE i \in 1 .. k
  <2>1. i \in 1 .. Len(answer) /\ o + i \in 1 .. L
    BY <1>1, <1>4, <1>10, SMTT(20)
  <2> QED
    BY <2>1, <1>3, <1>7, <1>11, <1>13
<1>15. [i \in DOMAIN result |-> result[i].robot] = shown
  BY <1>11, <1>13, <1>14
<1>16. (Len(answer) > R) = (o + R < L)
  <2>1. u = IF L < o + R + 1 THEN L ELSE o + R + 1
    BY <1>4 DEF Upto
  <2>2. n > R <=> o + R < L
    BY <1>1, <1>4, <1>10, <2>1
  <2> QED
    BY <1>10, <2>2
<1> QED
  BY <1>0, <1>1, <1>4, <1>6, <1>9, <1>10, <1>11, <1>12, <1>15, <1>16

-----------------------------------------------------------------------------
(* The steps.                                                              *)

\* A request for the page is the last one until its answer is applied.
LEMMA RobotAskStep ==
    ASSUME RobotInv, NEW p \in Nat, NEW robot, AskRobots(p, robot), robotPage' = p,
           applied' = applied
    PROVE  robotAsks' \in Nat /\ applied' \in 0 .. robotAsks' /\ LastIsForPage' /\ AppliedIsShown'
<1> USE DEF RobotInv, RobotShape
<1>1. PICK g : g = [id |-> robotAsks + 1, page |-> p, refreshes |-> robot]
  OBVIOUS
<1>2. g.id = robotAsks + 1 /\ g.page = p
  BY <1>1
<1>3. robotFetches' = robotFetches \cup {g} /\ robotAsks' = robotAsks + 1
  BY <1>1 DEF AskRobots
<1>4. LastIsForPage'
  <2> SUFFICES ASSUME NEW f \in robotFetches'
               PROVE  /\ f.id \in 1 .. robotAsks' /\ f.page \in Nat
                      /\ f.id = robotAsks' => f.page = robotPage'
    BY DEF LastIsForPage
  <2>1. CASE f \in robotFetches
    <3>1. f.id \in 1 .. robotAsks /\ f.page \in Nat
      BY <2>1 DEF LastIsForPage
    <3> QED
      BY <1>3, <3>1
  <2>2. CASE f = g
    BY <1>2, <1>3, <2>2
  <2> QED
    BY <1>3, <2>1, <2>2
<1>5. robotAsks' \in Nat /\ applied' \in 0 .. robotAsks' /\ applied' # robotAsks'
  BY <1>3
<1> QED
  BY <1>4, <1>5 DEF AppliedIsShown

\* What the list shows does not change.
LEMMA RobotListUnchanged ==
    ASSUME RobotInv, UNCHANGED <<robotPage, hasMore, rows, robotAsks, applied>>,
           robotFetches' \subseteq robotFetches
    PROVE  LastIsForPage' /\ AppliedIsShown'
<1>1. LastIsForPage'
  BY DEF RobotInv, LastIsForPage
<1>2. AppliedIsShown'
  BY DEF RobotInv, AppliedIsShown, ShowsPage, NextEnabled, Count
<1> QED
  BY <1>1, <1>2

\* A robot that is given to RobotInfo.
LEMMA ShowEffect ==
    ASSUME RobotShape, NEW r \in Rows, Show(r)
    PROVE  /\ selectedRobot' \in Rows \cup {NoRobot} /\ effectDue' = TRUE
           /\ currentTask' \in {"none", "active", "completed"} /\ hasConcreteEndTime' \in BOOLEAN
           /\ InfoSettles'
BY DEF Show, RobotShape, InfoSettles

LEMMA InfoUnchanged == ASSUME RobotInv, UNCHANGED infoVars PROVE InfoSettles' /\ OnlyClicksSelect
BY DEF RobotInv, infoVars, InfoSettles, OnlyClicksSelect

LEMMA AskingStep ==
    ASSUME RobotInv, ApiArrives \/ ChangeRobotPage \/ RefreshRobots
    PROVE  RobotInv' /\ OnlyClicksSelect
<1> USE DEF RobotInv
<1>1. PICK p, robot : AskRobots(p, robot) /\ robotPage' = p /\ p \in Nat
  <2>1. CASE ApiArrives
    BY <2>1 DEF ApiArrives, RobotShape
  <2>2. CASE RefreshRobots
    BY <2>2 DEF RefreshRobots, RobotShape
  <2>3. CASE ChangeRobotPage
    <3>1. robotPage' \in Nat
      BY <2>3 DEF ChangeRobotPage, RobotShape
    <3> QED
      BY <2>3, <3>1 DEF ChangeRobotPage, AskPage
  <2> QED
    BY <2>1, <2>2, <2>3
<1>2. UNCHANGED <<taskOf, hasMore, rows, applied, infoVars>>
  BY DEF ApiArrives, ChangeRobotPage, RefreshRobots
<1>3. robotAsks' \in Nat /\ applied' \in 0 .. robotAsks' /\ LastIsForPage' /\ AppliedIsShown'
  BY <1>1, <1>2, RobotAskStep
<1>4. RobotShape'
  BY <1>1, <1>2, <1>3 DEF RobotShape, infoVars
<1> QED
  BY <1>2, <1>3, <1>4, InfoUnchanged

LEMMA FirstEffectStep == ASSUME RobotInv, FirstEffect PROVE RobotInv' /\ OnlyClicksSelect
<1> USE DEF RobotInv
<1>1. UNCHANGED <<taskOf, robotPage, rows, applied, infoVars>> /\ robotAsks = 0
  BY DEF FirstEffect
<1>2. CASE AskRobots(robotPage, NoRobot.robot) /\ UNCHANGED hasMore
  <2>1. robotPage \in Nat
    BY DEF RobotShape
  <2>2. robotAsks' \in Nat /\ applied' \in 0 .. robotAsks' /\ LastIsForPage' /\ AppliedIsShown'
    BY <1>1, <1>2, <2>1, RobotAskStep
  <2>3. RobotShape'
    BY <1>1, <1>2, <2>2 DEF RobotShape, infoVars
  <2> QED
    BY <1>1, <2>2, <2>3, InfoUnchanged
<1>3. CASE hasMore' = FALSE /\ UNCHANGED <<robotFetches, robotAsks>>
  <2>1. RobotShape'
    BY <1>1, <1>3 DEF RobotShape, infoVars
  <2>2. LastIsForPage' /\ AppliedIsShown'
    BY <1>1, <1>3 DEF LastIsForPage, AppliedIsShown
  <2> QED
    BY <1>1, <2>1, <2>2, InfoUnchanged
<1> QED
  BY <1>2, <1>3 DEF FirstEffect

LEMMA RobotReturnStep == ASSUME RobotInv, RobotsReturn PROVE RobotInv' /\ OnlyClicksSelect
<1> USE DEF RobotInv
<1>1. PICK f \in robotFetches :
           /\ robotFetches' = robotFetches \ {f} /\ applied' = f.id
           /\ hasMore' = (Len(Answered(f.page)) > RobotsPerPage)
           /\ rows' = Sliced(Answered(f.page))
           /\ LET found == Namesakes(Sliced(Answered(f.page)), f.refreshes)
              IN \/ UNCHANGED <<selectedRobot, currentTask, hasConcreteEndTime, effectDue>>
                 \/ \E i \in found : Show(Sliced(Answered(f.page))[i])
  BY DEF RobotsReturn
<1>2. /\ f.id \in 1 .. robotAsks /\ f.page \in Nat /\ (f.id = robotAsks => f.page = robotPage)
  BY <1>1 DEF LastIsForPage
<1>3. UNCHANGED <<taskOf, apiReady, robotPage, robotAsks, robotClicks, newTasks>>
  BY DEF RobotsReturn
<1>4. PICK answer, result : answer = Answered(f.page) /\ result = Sliced(answer)
  OBVIOUS
<1>5. /\ result \in Seq(Rows) /\ Len(result) <= RobotsPerPage
      /\ [i \in DOMAIN result |-> result[i].robot] =
            SubSeq(RobotList, f.page * RobotsPerPage + 1,
                   Upto(Len(RobotList), (f.page + 1) * RobotsPerPage))
      /\ (Len(answer) > RobotsPerPage) = ((f.page + 1) * RobotsPerPage < Len(RobotList))
  BY <1>2, <1>4, AnswerShowsPage DEF RobotShape
<1>6. rows' = result /\ hasMore' = (Len(answer) > RobotsPerPage)
  BY <1>1, <1>4
<1>7. /\ selectedRobot' \in Rows \cup {NoRobot} /\ effectDue' \in BOOLEAN
      /\ currentTask' \in {"none", "active", "completed"} /\ hasConcreteEndTime' \in BOOLEAN
      /\ InfoSettles' /\ OnlyClicksSelect
  <2>1. CASE UNCHANGED <<selectedRobot, currentTask, hasConcreteEndTime, effectDue>>
    BY <2>1 DEF RobotShape, InfoSettles, OnlyClicksSelect
  <2>2. ASSUME NEW i \in Namesakes(result, f.refreshes), Show(result[i])
        PROVE  /\ selectedRobot' \in Rows \cup {NoRobot} /\ effectDue' \in BOOLEAN
               /\ currentTask' \in {"none", "active", "completed"} /\ hasConcreteEndTime' \in BOOLEAN
               /\ InfoSettles' /\ OnlyClicksSelect
    <3>1. i \in DOMAIN result /\ result[i].robot.name = f.refreshes.name
      BY <2>2 DEF Namesakes
    <3>2. result[i] \in Rows
      <4>1. \A j \in DOMAIN result : result[j] \in Rows
        <5>1. result \in Seq(Rows)
          BY <1>5
        <5> QED
          BY <5>1
      <4> QED
        BY <3>1, <4>1
    <3>3. selectedRobot' = result[i]
      BY <2>2 DEF Show
    <3>4. OnlyClicksSelect
      BY <1>1, <3>1, <3>3 DEF OnlyClicksSelect
    <3> QED
      BY <2>2, <3>2, <3>4, ShowEffect
  <2> QED
    BY <1>1, <1>4, <2>1, <2>2
<1>8. LastIsForPage'
  BY <1>1, <1>3 DEF LastIsForPage
<1>9. AppliedIsShown'
  <2> SUFFICES ASSUME applied' = robotAsks' PROVE ShowsPage(robotPage)'
    BY DEF AppliedIsShown
  <2>1. f.page = robotPage /\ robotPage' = robotPage
    BY <1>1, <1>2, <1>3
  <2>2. NextEnabled' = ((robotPage + 1) * RobotsPerPage < Len(RobotList))
    <3>1. PICK o \in Nat : /\ o = robotPage * RobotsPerPage
                           /\ (robotPage + 1) * RobotsPerPage = o + RobotsPerPage
      BY Offsets DEF RobotShape
    <3>2. Len(rows') \in Nat /\ ~(o + RobotsPerPage < o + Len(rows'))
      BY <1>5, <1>6, RobotPageAssumption
    <3>3. NextEnabled' = (hasMore' \/ o + RobotsPerPage < o + Len(rows'))
      BY <1>3, <3>1 DEF NextEnabled, Count
    <3>4. NextEnabled' = hasMore'
      <4>1. hasMore' \in BOOLEAN
        BY <1>6
      <4> QED
        BY <3>2, <3>3, <4>1
    <3> QED
      BY <1>5, <1>6, <2>1, <3>4
  <2> QED
    BY <1>5, <1>6, <2>1, <2>2 DEF ShowsPage
<1>10. RobotShape'
  <2>1. applied' \in 0 .. robotAsks' /\ hasMore' \in BOOLEAN
    BY <1>1, <1>2, <1>3, <1>6 DEF RobotShape
  <2> QED
    BY <1>3, <1>5, <1>6, <1>7, <2>1 DEF RobotShape
<1> QED
  BY <1>7, <1>8, <1>9, <1>10

LEMMA ClickStep == ASSUME RobotInv, ClickRobot PROVE RobotInv' /\ OnlyClicksSelect
<1> USE DEF RobotInv
<1>1. PICK i \in DOMAIN rows : Show(rows[i])
  BY DEF ClickRobot
<1>2. rows[i] \in Rows
  BY <1>1 DEF RobotShape
<1>3. UNCHANGED <<taskOf, robotPage, hasMore, rows, robotFetches, robotAsks, applied>>
  BY DEF ClickRobot
<1>4. robotClicks' \in Nat /\ robotClicks' > robotClicks
  BY DEF ClickRobot, RobotShape
<1>5. /\ selectedRobot' \in Rows \cup {NoRobot} /\ effectDue' \in BOOLEAN
      /\ currentTask' \in {"none", "active", "completed"} /\ hasConcreteEndTime' \in BOOLEAN
      /\ InfoSettles'
  BY <1>1, <1>2, ShowEffect
<1>6. RobotShape'
  BY <1>3, <1>4, <1>5 DEF RobotShape
<1>7. OnlyClicksSelect
  BY <1>4 DEF OnlyClicksSelect
<1> QED
  BY <1>3, <1>5, <1>6, <1>7, RobotListUnchanged

LEMMA EffectStep == ASSUME RobotInv, RunEffect PROVE RobotInv' /\ OnlyClicksSelect
<1> USE DEF RobotInv
<1>1. UNCHANGED <<taskOf, robotPage, hasMore, rows, robotFetches, robotAsks, applied,
                  selectedRobot, robotClicks>>
  BY DEF RunEffect
<1>2. selectedRobot.task \in TaskStates
  <2>1. NoRobot.task \in TaskStates
    BY DEF NoRobot, TaskStates
  <2>2. \A r \in Rows : r.task \in TaskStates
    BY DEF Rows
  <2> QED
    BY <2>1, <2>2 DEF RobotShape
<1>3. /\ currentTask' = IF selectedRobot.task = "idle" THEN "none" ELSE selectedRobot.task
      /\ currentTask' \in {"none", "active", "completed"}
  BY <1>2 DEF RunEffect, TaskStates
<1>4. hasConcreteEndTime' \in BOOLEAN
  <2>1. \/ hasConcreteEndTime' = FALSE
        \/ hasConcreteEndTime' = IF currentTask = "none" THEN hasConcreteEndTime
                                 ELSE currentTask \in ConcreteTasks
    BY DEF RunEffect
  <2>2. hasConcreteEndTime \in BOOLEAN /\ (currentTask \in ConcreteTasks) \in BOOLEAN
    BY DEF RobotShape
  <2> QED
    BY <2>1, <2>2, Zenon
<1>5. effectDue' = (currentTask' # currentTask)
  BY DEF RunEffect, DueAgain
<1>6. RobotShape'
  BY <1>1, <1>3, <1>4, <1>5 DEF RobotShape
<1>7. InfoSettles'
  <2> SUFFICES ASSUME ~effectDue' PROVE hasConcreteEndTime' = (currentTask' \in ConcreteTasks)
    BY <1>1, <1>3 DEF InfoSettles
  <2>1. currentTask' = currentTask
    BY <1>5
  <2>2. CASE selectedRobot.task = "idle"
    <3>1. hasConcreteEndTime' = FALSE /\ currentTask' = "none"
      BY <1>3, <2>2 DEF RunEffect
    <3>2. currentTask' \notin ConcreteTasks
      BY <3>1 DEF ConcreteTasks
    <3>3. (currentTask' \in ConcreteTasks) = FALSE
      BY <3>2
    <3> QED
      BY <3>1, <3>3, Zenon
  <2>3. CASE selectedRobot.task # "idle"
    <3>1. currentTask # "none"
      BY <1>2, <1>3, <2>1, <2>3 DEF TaskStates
    <3> QED
      BY <2>1, <2>3, <3>1 DEF RunEffect
  <2> QED
    BY <2>2, <2>3
<1>8. OnlyClicksSelect
  BY <1>1 DEF OnlyClicksSelect
<1> QED
  BY <1>1, <1>6, <1>7, <1>8, RobotListUnchanged

LEMMA RobotStep == ASSUME RobotInv, [RobotPageNext]_robotVars PROVE RobotInv' /\ OnlyClicksSelect
<1> USE DEF RobotInv
<1>1. ASSUME UNCHANGED <<robotPage, hasMore, rows, robotAsks, applied, infoVars>>,
             robotFetches' \subseteq robotFetches, taskOf' \in [DOMAIN RobotList -> TaskStates]
      PROVE  RobotInv' /\ OnlyClicksSelect
  <2>1. RobotShape'
    BY <1>1 DEF RobotShape, infoVars
  <2> QED
    BY <1>1, <2>1, RobotListUnchanged, InfoUnchanged
<1>2. CASE RobotsFail
  BY <1>1, <1>2 DEF RobotsFail, RobotShape
<1>3. CASE NewTask
  BY <1>1, <1>3 DEF NewTask, RobotShape
<1>4. CASE UNCHANGED robotVars
  BY <1>1, <1>4 DEF robotVars, infoVars, RobotShape
<1> QED
  BY <1>2, <1>3, <1>4, FirstEffectStep, AskingStep, RobotReturnStep, ClickStep, EffectStep
     DEF RobotPageNext

LEMMA RobotStart == RobotPageInit => RobotInv
<1> SUFFICES ASSUME RobotPageInit PROVE RobotInv
  OBVIOUS
<1>1. taskOf \in [DOMAIN RobotList -> TaskStates]
  BY DEF RobotPageInit, TaskStates
<1>2. rows \in Seq(Rows) /\ Len(rows) <= RobotsPerPage
  BY RobotPageAssumption DEF RobotPageInit
<1>3. RobotShape
  <2>1. selectedRobot \in Rows \cup {NoRobot}
    BY DEF RobotPageInit
  <2>2. /\ robotPage \in Nat /\ robotAsks \in Nat /\ applied \in 0 .. robotAsks
        /\ robotClicks \in Nat
    BY DEF RobotPageInit
  <2>3. /\ hasMore \in BOOLEAN /\ hasConcreteEndTime \in BOOLEAN /\ effectDue \in BOOLEAN
        /\ currentTask \in {"none", "active", "completed"}
    BY DEF RobotPageInit
  <2> QED
    BY <1>1, <1>2, <2>1, <2>2, <2>3 DEF RobotShape
<1>4. LastIsForPage /\ AppliedIsShown
  BY DEF RobotPageInit, LastIsForPage, AppliedIsShown
<1>5. InfoSettles
  <2>1. selectedRobot.task = "idle"
    BY DEF RobotPageInit, NoRobot
  <2>2. currentTask = "none" /\ ~hasConcreteEndTime /\ currentTask \notin ConcreteTasks
    BY DEF RobotPageInit, ConcreteTasks
  <2>3. hasConcreteEndTime = (currentTask \in ConcreteTasks)
    <3>1. hasConcreteEndTime = FALSE /\ (currentTask \in ConcreteTasks) = FALSE
      BY <2>2 DEF RobotPageInit
    <3> QED
      BY <3>1, Zenon
  <2> QED
    BY <2>1, <2>2, <2>3 DEF InfoSettles
<1> QED
  BY <1>3, <1>4, <1>5 DEF RobotInv

\* robot-page.tsx, robot-panel.tsx and robot-info.tsx: for any robots and any
\* size of the pages, the page settles on the robots of its number and on the
\* task of the robot that is selected, whatever order the answers come in; the
\* selection changes at a click, or to a robot of the name a refresh was made for.
THEOREM RobotPageStaysSound == RobotPageSpec => RobotPageIsSound
<1>1. RobotInv => RobotsSettle /\ InfoSettles
  BY DEF RobotInv, AppliedIsShown, ShowsPage, RobotsSettle
<1> QED
  BY <1>1, RobotStart, RobotStep, PTL DEF RobotPageSpec, RobotPageIsSound

-----------------------------------------------------------------------------
(* TaskPage.                                                               *)

Events == 0 .. LastEvent
TaskRows == [ver : None .. LastEvent, grp : BOOLEAN]
ShownRows == [id : Ids, ver : Events]
PageAsks == [n : Nat, page : 0 .. MaxPage, rows : Seq(ShownRows), done : BOOLEAN]

SubmitStates == {"no", "calling", "error", "returned", "ok", "done", "refusing", "refused"}
Cancellations == [id : Ids, rmf : {"no", "ok", "refused"}, at : {"calling", "ok", "refused", "error"}]

ServerShape ==
    /\ rmf \in [Ids -> Events] /\ saved \in [Ids -> Events] /\ row \in [Ids -> TaskRows]
    /\ submit \in [Ids -> SubmitStates]
    /\ submitPage \in [Ids -> 0 .. MaxPage] /\ cancelled \subseteq Ids

ListShape ==
    /\ page \in 0 .. MaxPage /\ shownPage \in None .. MaxPage /\ asked \in Nat
    /\ astray \in BOOLEAN
    /\ fetched \in Seq(ShownRows) /\ Len(fetched) <= PageSize
    /\ fetches \subseteq PageAsks /\ \A f \in fetches : Len(f.rows) <= PageSize + 1

WatchShape ==
    /\ auto \in BOOLEAN /\ updated \in [Ids -> None .. LastEvent]
    /\ watch \in [Ids -> {"off", "reading", "emitting", "attaching", "on"}]
    /\ held \in [Ids -> None .. LastEvent]
    /\ chan \in [Ids -> Seq(Events)] /\ behind \in [Ids -> BOOLEAN]

ClickShape == selectedTask = NoTask \/ selectedTask.id \in Ids

\* The page that is asked for is the page, unless requests crossed.
OnePage ==
    ~astray => /\ fetches = {} => shownPage = page
               /\ \A f, g \in fetches : f = g /\ f.page = page

\* A row is never ahead of the book keeper.
RowsFollow == \A t \in Ids : row[t].ver <= saved[t]

\* RMF has the tasks whose submission it did not refuse, and the book keeper is
\* never ahead of RMF.
Taken ==
    \A t \in Ids :
        /\ saved[t] <= rmf[t]
        /\ submit[t] \in {"refusing", "refused"} => rmf[t] = 0
        /\ submit[t] \in {"returned", "ok", "done"} => rmf[t] # 0

Submitted == \A t \in Ids : submit[t] \in {"ok", "done"} => t \in Seen

\* What was shown or is about to be shown is seen by the user.
ShownIsSeen ==
    /\ \A i \in DOMAIN fetched : fetched[i].id \in Seen
    /\ \A f \in fetches : \A i \in DOMAIN f.rows : f.rows[i].id \in Seen

\* What the page is told last of a task.
LastTold(t) == IF chan[t] = <<>> THEN updated[t] ELSE Last(chan[t])

\* It is the last event, if none passed by; before the watch is attached it is
\* the row that was read.
WatchIsCurrent ==
    \A t \in Ids :
        /\ watch[t] \in {"emitting", "attaching"} => held[t] \in Events
        /\ watch[t] = "attaching" => LastTold(t) = held[t]
        /\ watch[t] = "on" /\ ~behind[t] => LastTold(t) = rmf[t]

CancelInv ==
    /\ cancels \in Seq(Cancellations)
    /\ \A c \in 1 .. Len(cancels) :
          /\ cancels[c].rmf = "ok" => cancels[c].id \in cancelled
          /\ cancels[c].at = "ok" => cancels[c].rmf = "ok"
          /\ cancels[c].at = "refused" => cancels[c].rmf = "refused"
    /\ \A t \in cancelled : \E d \in 1 .. Len(cancels) : cancels[d].id = t /\ cancels[d].rmf = "ok"

PageInv ==
    /\ ServerShape /\ ListShape /\ WatchShape /\ ClickShape
    /\ OnePage /\ RowsFollow /\ Taken /\ StubsHaveTasks /\ Submitted /\ ShownIsSeen /\ WatchIsCurrent
    /\ WatchesWhatIsShown /\ CancelInv

-----------------------------------------------------------------------------
(* The rows of the list.                                                   *)

LEMMA TaskConstants ==
    /\ List \in Seq(Ids) /\ Old \subseteq Ids /\ LastEvent \in Nat \ {0}
    /\ PageSize \in Nat \ {0} /\ MaxPage \in Nat /\ None = 0 - 1
BY PageAssumption DEF None

LEMMA VisibleIsSeen ==
    /\ Visible \in Seq(Seen) /\ Len(Visible) \in Nat
    /\ Range(Visible) = Seen
<1>1. Visible \in Seq(Ids \cap Seen) /\ Ids \cap Seen = Seen
  BY TaskConstants, KeptInSeq DEF Visible, Seen
<1>2. Visible \in Seq(Seen)
  BY <1>1
<1>3. \A i \in DOMAIN Visible : Visible[i] \in Seen
  BY <1>2
<1>4. ASSUME NEW t \in Seen PROVE t \in Range(Visible)
  <2>1. PICK i \in DOMAIN List : List[i] = t
    BY DEF Seen, Ids, Range
  <2>2. i \in 1 .. Len(List)
    BY <2>1, TaskConstants
  <2>3. PICK j \in 1 .. Len(Visible) : Visible[j] = t
    BY <2>1, <2>2, TaskConstants, KeptHolds DEF Visible
  <2>4. j \in DOMAIN Visible
    BY <1>2, <2>3
  <2> QED
    BY <2>3, <2>4 DEF Range
<1> QED
  BY <1>2, <1>3, <1>4 DEF Range

\* What the server answers.
LEMMA WindowShape ==
    ASSUME ServerShape, NEW p \in Nat
    PROVE  /\ Window(p) \in Seq(ShownRows) /\ Len(Window(p)) <= PageSize + 1
           /\ \A i \in DOMAIN Window(p) : Window(p)[i].id \in Seen
<1>1. PICK o, L : o = p * PageSize /\ L = Len(Visible)
  OBVIOUS
<1>2. o \in Nat /\ L \in Nat
  BY <1>1, TaskConstants, VisibleIsSeen
<1>3. PICK listed : listed = SubSeq(Visible, o + 1, L)
  OBVIOUS
<1>4. listed \in Seq(Seen) /\ Len(listed) \in Nat /\ \A i \in 1 .. Len(listed) : listed[i] \in Seen
  <2>1. \A i \in (o + 1) .. L : Visible[i] \in Seen
    <3> TAKE i \in (o + 1) .. L
    <3>1. i \in 1 .. Len(Visible)
      BY <1>1, <1>2
    <3> QED
      BY <3>1, VisibleIsSeen
  <2>2. listed \in Seq(Seen)
    BY <1>2, <1>3, <2>1, SubSeqProperties
  <2> QED
    BY <2>2
<1>5. PICK k : k = IF Len(listed) < PageSize + 1 THEN Len(listed) ELSE PageSize + 1
  OBVIOUS
<1>6. k \in Nat /\ k <= PageSize + 1 /\ k <= Len(listed)
  BY <1>4, <1>5, TaskConstants
<1>7. PICK w : w = [i \in 1 .. k |-> [id |-> listed[i], ver |-> row[listed[i]].ver]]
  OBVIOUS
<1>8. Window(p) = w
  BY <1>1, <1>3, <1>5, <1>7 DEF Window
<1>9. \A i \in 1 .. k : w[i] \in ShownRows /\ w[i].id \in Seen
  <2> TAKE i \in 1 .. k
  <2>1. i \in 1 .. Len(listed)
    BY <1>4, <1>6
  <2>2. PICK t \in Seen : t = listed[i]
    BY <1>4, <2>1
  <2>3. t \in Ids /\ row[t].ver \in None .. LastEvent /\ row[t].ver # None
    BY <2>2 DEF Seen, ServerShape, TaskRows
  <2>4. row[t].ver \in Events
    BY <2>3, TaskConstants DEF Events
  <2>5. PICK ver \in Events : ver = row[t].ver
    BY <2>4
  <2>6. w[i] = [id |-> t, ver |-> ver]
    BY <1>7, <2>2, <2>5
  <2> QED
    BY <2>2, <2>3, <2>6 DEF ShownRows
<1>10. w \in Seq(ShownRows) /\ Len(w) = k /\ DOMAIN w = 1 .. k
  <2>1. w = [i \in 1 .. k |-> w[i]]
    BY <1>7
  <2> QED
    BY <1>6, <1>9, <2>1
<1> QED
  BY <1>6, <1>8, <1>9, <1>10

LEMMA FirstRowsShape ==
    ASSUME NEW listed \in Seq(ShownRows)
    PROVE  /\ FirstRows(listed) \in Seq(ShownRows) /\ Len(FirstRows(listed)) <= PageSize
           /\ \A i \in DOMAIN FirstRows(listed) : i \in DOMAIN listed /\ FirstRows(listed)[i] = listed[i]
<1>1. PICK k : k = IF Len(listed) < PageSize THEN Len(listed) ELSE PageSize
  OBVIOUS
<1>2. k \in 0 .. Len(listed) /\ k <= PageSize /\ Len(listed) \in Nat
  BY <1>1, TaskConstants
<1>3. PICK r : r = SubSeq(listed, 1, k)
  OBVIOUS
<1>4. FirstRows(listed) = r
  BY <1>1, <1>3 DEF FirstRows
<1>5. /\ r \in Seq(ShownRows) /\ Len(r) = (IF 1 <= k THEN k - 1 + 1 ELSE 0)
      /\ \A i \in 1 .. k - 1 + 1 : r[i] = listed[1 + i - 1]
  <2>1. \A i \in 1 .. k : listed[i] \in ShownRows
    BY <1>2
  <2>2. 1 \in Int /\ k \in Int
    BY <1>2
  <2> QED
    BY <1>3, <2>1, <2>2, SubSeqProperties
<1>6. Len(r) = k /\ DOMAIN r = 1 .. k /\ DOMAIN listed = 1 .. Len(listed)
  BY <1>2, <1>5
<1>7. \A i \in 1 .. k : i \in 1 .. Len(listed) /\ r[i] = listed[i]
  BY <1>2, <1>5
<1> QED
  BY <1>2, <1>4, <1>5, <1>6, <1>7

\* Rows are not taken away from those who see them.
LEMMA SeenGrows ==
    ASSUME \A t \in Ids : t \in Seen => row'[t].ver # None /\ row'[t].grp
    PROVE  Seen \subseteq Seen'
BY DEF Seen

-----------------------------------------------------------------------------
(* Summaries.                                                              *)

\* The last of a queue that grows or shrinks.
LEMMA Queue ==
    ASSUME NEW q \in Seq(Events), NEW e \in Events
    PROVE  /\ Append(q, e) \in Seq(Events) /\ Append(q, e) # <<>> /\ Last(Append(q, e)) = e
           /\ q # <<>> =>
                /\ Tail(q) \in Seq(Events) /\ Head(q) \in Events
                /\ Tail(q) = <<>> => Head(q) = Last(q)
                /\ Tail(q) # <<>> => Last(Tail(q)) = Last(q)
<1>1. Append(q, e) \in Seq(Events) /\ Append(q, e) # <<>> /\ Last(Append(q, e)) = e
  BY DEF Last
<1>2. ASSUME q # <<>>
      PROVE  /\ Tail(q) \in Seq(Events) /\ Head(q) \in Events
             /\ Tail(q) = <<>> => Head(q) = Last(q)
             /\ Tail(q) # <<>> => Last(Tail(q)) = Last(q)
  <2>1. /\ Tail(q) \in Seq(Events) /\ Head(q) = q[1] /\ q[1] \in Events
        /\ Len(Tail(q)) = Len(q) - 1 /\ Len(q) \in Nat \ {0}
        /\ \A i \in 1 .. Len(q) - 1 : Tail(q)[i] = q[i + 1]
    BY <1>2
  <2>2. Tail(q) = <<>> => Len(q) = 1
    BY <2>1
  <2>3. Tail(q) # <<>> => Len(q) - 1 \in 1 .. Len(q) - 1 /\ (Len(q) - 1) + 1 = Len(q)
    BY <2>1
  <2>4. Tail(q) # <<>> => Tail(q)[Len(q) - 1] = q[Len(q)]
    BY <2>1, <2>3
  <2> QED
    BY <2>1, <2>2, <2>4 DEF Last
<1> QED
  BY <1>1, <1>2

\* An event of RMF comes to those who watch.
LEMMA PublishEffect ==
    ASSUME PageInv, NEW t \in Ids, NEW ver \in Events, Publish(t, ver)
    PROVE  rmf' \in [Ids -> Events] /\ WatchShape' /\ WatchIsCurrent' /\ UNCHANGED <<auto, watch>>
<1> USE DEF PageInv
<1>1. rmf' = [rmf EXCEPT ![t] = ver] /\ UNCHANGED <<auto, updated, watch, held>>
  BY DEF Publish
<1>2. rmf' \in [Ids -> Events]
  BY <1>1 DEF ServerShape
<1>3. CASE watch[t] = "on"
  <2>1. PICK q \in Seq(Events), r \in Seq(Events) :
           /\ q = chan[t] /\ r = Append(q, ver) /\ r # <<>> /\ Last(r) = ver
           /\ chan' = [chan EXCEPT ![t] = r] /\ behind' = [behind EXCEPT ![t] = FALSE]
    <3>1. PICK q \in Seq(Events) : q = chan[t]
      BY DEF WatchShape
    <3>2. PICK r : r = Append(q, ver)
      OBVIOUS
    <3>3. r \in Seq(Events) /\ r # <<>> /\ Last(r) = ver
      BY <3>2, Queue
    <3>4. chan' = [chan EXCEPT ![t] = r] /\ behind' = [behind EXCEPT ![t] = FALSE]
      BY <1>3, <3>1, <3>2 DEF Publish
    <3> QED
      BY <3>1, <3>2, <3>3, <3>4
  <2>2. WatchShape'
    BY <1>1, <2>1 DEF WatchShape
  <2>3. WatchIsCurrent'
    <3> SUFFICES ASSUME NEW u \in Ids
                 PROVE  /\ watch'[u] \in {"emitting", "attaching"} => held'[u] \in Events
                        /\ watch'[u] = "attaching" => LastTold(u)' = held'[u]
                        /\ watch'[u] = "on" /\ ~behind'[u] => LastTold(u)' = rmf'[u]
      BY DEF WatchIsCurrent
    <3>1. CASE u = t
      <4>1. chan'[u] = r /\ rmf'[u] = ver
        BY <1>1, <2>1, <3>1 DEF WatchShape, ServerShape
      <4> QED
        BY <1>1, <1>3, <2>1, <3>1, <4>1 DEF LastTold
    <3>2. CASE u # t
      <4>1. chan'[u] = chan[u] /\ rmf'[u] = rmf[u] /\ behind'[u] = behind[u]
        BY <1>1, <2>1, <3>2 DEF WatchShape, ServerShape
      <4> QED
        BY <1>1, <4>1 DEF WatchIsCurrent, LastTold
    <3> QED
      BY <3>1, <3>2
  <2> QED
    BY <1>1, <1>2, <2>2, <2>3
<1>4. CASE watch[t] # "on"
  <2>1. UNCHANGED <<chan, behind>>
    BY <1>4 DEF Publish
  <2>2. \A u \in Ids : watch[u] = "on" => rmf'[u] = rmf[u]
    BY <1>1, <1>4 DEF ServerShape
  <2> QED
    BY <1>1, <1>2, <2>1, <2>2 DEF WatchShape, WatchIsCurrent, LastTold
<1> QED
  BY <1>3, <1>4

-----------------------------------------------------------------------------
(* The steps.  OnlyStubs is what OnlyStubsGoBack says of a step.           *)

OnlyStubs == \A t \in Ids : row'[t].ver < row[t].ver => row'[t].ver = 0 /\ submit[t] = "returned"

\* What the page has asked for and shows does not change, and no row is hidden.
LEMMA TaskListUnchanged ==
    ASSUME PageInv, UNCHANGED listVars, Seen \subseteq Seen'
    PROVE  ListShape' /\ OnePage' /\ ShownIsSeen'
<1>1. ListShape' /\ OnePage'
  BY DEF PageInv, listVars, ListShape, OnePage
<1>2. ShownIsSeen'
  BY DEF PageInv, listVars, ShownIsSeen
<1> QED
  BY <1>1, <1>2

LEMMA WatchUnchanged ==
    ASSUME PageInv, UNCHANGED <<watchVars, rmf>> PROVE WatchShape' /\ WatchIsCurrent'
BY DEF PageInv, watchVars, WatchShape, WatchIsCurrent, LastTold

LEMMA SubscribersUnchanged ==
    ASSUME PageInv, UNCHANGED <<auto, fetched>>,
           \A t \in Ids : watch'[t] # "off" <=> watch[t] # "off"
    PROVE  WatchesWhatIsShown'
BY DEF PageInv, WatchesWhatIsShown

LEMMA RowsUnchanged ==
    ASSUME PageInv, UNCHANGED <<row, saved>>
    PROVE  row' \in [Ids -> TaskRows] /\ saved' \in [Ids -> Events] /\ RowsFollow' /\ Seen' = Seen
           /\ OnlyStubs
<1>1. row' \in [Ids -> TaskRows] /\ saved' \in [Ids -> Events] /\ RowsFollow'
  BY DEF PageInv, ServerShape, RowsFollow
<1>2. Seen' = Seen
  BY DEF Seen
<1>3. OnlyStubs
  <2>1. \A t \in Ids : row[t].ver \in Int
    BY TaskConstants DEF PageInv, ServerShape, TaskRows
  <2> QED
    BY <2>1 DEF OnlyStubs
<1> QED
  BY <1>1, <1>2, <1>3

LEMMA TakenUnchanged ==
    ASSUME PageInv, UNCHANGED <<rmf, saved, row>>,
           \A t \in Ids : submit'[t] = submit[t] \/ submit'[t] \notin {"refusing", "refused", "returned", "ok", "done"},
           \A t \in Ids : submit[t] = "refused" => submit'[t] = "refused"
    PROVE  Taken' /\ StubsHaveTasks'
BY DEF PageInv, Taken, StubsHaveTasks

LEMMA CancelUnchanged ==
    ASSUME PageInv, UNCHANGED <<cancels, cancelled>> PROVE CancelInv'
BY DEF PageInv, CancelInv

\* RMF publishes, of a task that it ends or not.
LEMMA PublishStep ==
    ASSUME PageInv, NEW t \in Ids, NEW ver \in Events, Publish(t, ver),
           rmf[t] <= ver, ver # 0, submit[t] \notin {"refusing", "refused"},
           UNCHANGED <<saved, row, submit, submitPage, listVars, clickVars>>,
           cancelled' \subseteq Ids, CancelInv'
    PROVE  PageInv' /\ OnlyStubs
<1>1. rmf' \in [Ids -> Events] /\ WatchShape' /\ WatchIsCurrent' /\ UNCHANGED <<auto, watch>>
  BY PublishEffect
<1>2. RowsFollow' /\ Seen' = Seen /\ OnlyStubs
  BY RowsUnchanged
<1>3. ServerShape'
  BY <1>1 DEF PageInv, ServerShape
<1>4. Submitted'
  BY <1>2 DEF PageInv, Submitted
<1>5. ListShape' /\ OnePage' /\ ShownIsSeen'
  BY <1>2, TaskListUnchanged
<1>6. ClickShape'
  BY DEF PageInv, clickVars, ClickShape
<1>7. WatchesWhatIsShown'
  BY <1>1, SubscribersUnchanged DEF listVars
<1>8. Taken' /\ StubsHaveTasks'
  <2>1. rmf'[t] = ver /\ \A u \in Ids : u # t => rmf'[u] = rmf[u]
    BY DEF Publish, PageInv, ServerShape
  <2>2. \A u \in Ids : saved[u] \in Int /\ rmf[u] \in Int
    BY TaskConstants DEF PageInv, ServerShape, Events
  <2>3. ver \in Int
    BY TaskConstants DEF Events
  <2> QED
    BY <2>1, <2>2, <2>3 DEF PageInv, Taken, StubsHaveTasks
<1> QED
  BY <1>1, <1>2, <1>3, <1>4, <1>5, <1>6, <1>7, <1>8 DEF PageInv

\* A submission goes on.
LEMMA SubmitStep ==
    ASSUME PageInv, NEW t \in Ids, SubmitTask(t) \/ CallReturns(t)
    PROVE  PageInv' /\ OnlyStubs
<1>1. UNCHANGED <<rmf, saved, row, cancels, cancelled, listVars, watchVars, clickVars>>
  BY DEF SubmitTask, CallReturns
<1>2. /\ \A u \in Ids : submit'[u] \in {"ok", "done"} => submit[u] = submit'[u]
      /\ submit' \in [Ids -> SubmitStates]
      /\ submitPage' \in [Ids -> 0 .. MaxPage]
  <2>1. CASE SubmitTask(t)
    BY <2>1 DEF SubmitTask, PageInv, ServerShape, ListShape, SubmitStates
  <2>2. CASE CallReturns(t)
    <3>1. UNCHANGED submitPage
      BY <2>2 DEF CallReturns
    <3>2. PICK outcome \in {"error", "returned", "refusing"} : submit' = [submit EXCEPT ![t] = outcome]
      BY <2>2 DEF CallReturns
    <3> QED
      BY <3>1, <3>2 DEF PageInv, ServerShape, SubmitStates
  <2> QED
    BY <2>1, <2>2
<1>3. RowsFollow' /\ Seen' = Seen /\ OnlyStubs
  BY <1>1, RowsUnchanged
<1>4. ServerShape'
  BY <1>1, <1>2 DEF PageInv, ServerShape
<1>5. Submitted'
  BY <1>2, <1>3 DEF PageInv, Submitted
<1>6. ListShape' /\ OnePage' /\ ShownIsSeen'
  BY <1>1, <1>3, TaskListUnchanged
<1>7. ClickShape'
  BY <1>1 DEF PageInv, clickVars, ClickShape
<1>8. WatchShape' /\ WatchIsCurrent' /\ WatchesWhatIsShown' /\ CancelInv'
  BY <1>1, WatchUnchanged, SubscribersUnchanged, CancelUnchanged DEF listVars, watchVars
<1>9. Taken' /\ StubsHaveTasks'
  <2>1. \A u \in Ids : u # t => submit'[u] = submit[u]
    BY DEF SubmitTask, CallReturns, PageInv, ServerShape
  <2>2. /\ submit[t] \in {"no", "calling"}
        /\ submit'[t] \in {"refusing", "refused"} => rmf[t] = 0
        /\ submit'[t] \in {"returned", "ok", "done"} => rmf[t] # 0
    <3>1. CASE SubmitTask(t)
      BY <3>1 DEF SubmitTask, PageInv, ServerShape
    <3>2. CASE CallReturns(t)
      <4>1. rmf[t] > 0 => rmf[t] # 0
        BY TaskConstants DEF PageInv, ServerShape, Events
      <4> QED
        BY <3>2, <4>1 DEF CallReturns, PageInv, ServerShape
    <3> QED
      BY <3>1, <3>2
  <2> QED
    BY <1>1, <2>1, <2>2 DEF PageInv, Taken, StubsHaveTasks
<1> QED
  BY <1>3, <1>4, <1>5, <1>6, <1>7, <1>8, <1>9 DEF PageInv

\* A row is written.
LEMMA WriteStep ==
    ASSUME PageInv, NEW t \in Ids, WriteStub(t) \/ SaveSummary(t)
    PROVE  PageInv' /\ OnlyStubs
<1>0. UNCHANGED <<rmf, submitPage, cancels, cancelled, listVars, watchVars, clickVars>>
  BY DEF WriteStub, SaveSummary
<1>6. /\ row[t] \in TaskRows /\ saved[t] \in Events /\ rmf[t] \in Events
      /\ row[t].ver \in None .. LastEvent /\ row[t].grp \in BOOLEAN
  BY DEF PageInv, ServerShape, TaskRows
<1>1. /\ row' \in [Ids -> TaskRows] /\ saved' \in [Ids -> Events] /\ RowsFollow'
      /\ Seen \subseteq Seen' /\ OnlyStubs /\ Submitted' /\ Taken' /\ StubsHaveTasks'
      /\ submit' \in [Ids -> SubmitStates]
  <2>0. \A u \in Ids : row[u].ver \in Int /\ row[u].ver <= saved[u] /\ saved[u] \in Int
    BY TaskConstants DEF PageInv, ServerShape, TaskRows, Events, RowsFollow
  <2>1. CASE WriteStub(t)
    <3>1. PICK r : r = [ver |-> 0, grp |-> TRUE]
      OBVIOUS
    <3>2. r \in TaskRows /\ r.ver = 0 /\ r.grp
      BY <3>1, TaskConstants DEF TaskRows
    <3>3. /\ submit[t] \in {"returned", "refusing"} /\ row' = [row EXCEPT ![t] = r] /\ UNCHANGED saved
          /\ submit' = [submit EXCEPT ![t] = IF submit[t] = "returned" THEN "ok" ELSE "refused"]
      BY <2>1, <3>1 DEF WriteStub
    <3>4. row'[t] = r /\ \A u \in Ids : u # t => row'[u] = row[u]
      BY <3>3 DEF PageInv, ServerShape
    <3>5. /\ row' \in [Ids -> TaskRows] /\ saved' \in [Ids -> Events]
          /\ submit' \in [Ids -> SubmitStates]
      BY <3>2, <3>3 DEF PageInv, ServerShape, SubmitStates
    <3>6. RowsFollow'
      <4>1. saved[t] >= 0
        BY <1>6, TaskConstants DEF Events
      <4> QED
        BY <2>0, <3>2, <3>3, <3>4, <4>1 DEF RowsFollow
    <3>7. t \in Seen' /\ \A u \in Seen : u # t => u \in Seen'
      BY <3>2, <3>4, TaskConstants DEF Seen
    <3>8. OnlyStubs
      <4>1. submit[t] = "refusing" => saved[t] = 0
        <5>1. saved[t] \in Nat /\ saved[t] <= rmf[t]
          BY <1>6, TaskConstants DEF Events, PageInv, Taken
        <5> QED
          BY <5>1 DEF PageInv, Taken
      <4>2. submit[t] = "refusing" => ~(0 < row[t].ver)
        BY <2>0, <4>1
      <4>3. row'[t].ver = 0 /\ \A u \in Ids : u # t => ~(row'[u].ver < row[u].ver)
        BY <2>0, <3>2, <3>4
      <4> QED
        BY <3>3, <4>2, <4>3 DEF OnlyStubs
    <3>9. Submitted'
      <4>1. \A u \in Ids : u # t => submit'[u] = submit[u]
        BY <3>3 DEF PageInv, ServerShape
      <4> QED
        BY <3>7, <4>1 DEF PageInv, Submitted
    <3>10. Taken' /\ StubsHaveTasks'
      <4>1. submit'[t] = (IF submit[t] = "returned" THEN "ok" ELSE "refused")
        BY <3>3 DEF PageInv, ServerShape
      <4>2. \A u \in Ids : u # t => submit'[u] = submit[u]
        BY <3>3 DEF PageInv, ServerShape
      <4> QED
        BY <1>0, <3>3, <3>4, <4>1, <4>2 DEF PageInv, Taken, StubsHaveTasks
    <3> QED
      BY <3>5, <3>6, <3>7, <3>8, <3>9, <3>10
  <2>2. CASE SaveSummary(t)
    <3>1. PICK r : r = [ver |-> saved[t] + 1, grp |-> row[t].grp]
      OBVIOUS
    <3>2. saved[t] < rmf[t] /\ saved[t] + 1 \in Events /\ saved[t] + 1 \in None .. LastEvent
      BY <1>6, <2>2, TaskConstants DEF SaveSummary, Events
    <3>3. r \in TaskRows /\ r.ver = saved[t] + 1 /\ r.grp = row[t].grp
      BY <1>6, <3>1, <3>2 DEF TaskRows
    <3>4. /\ row' = [row EXCEPT ![t] = r] /\ saved' = [saved EXCEPT ![t] = saved[t] + 1]
          /\ UNCHANGED submit
      <4>1. [row[t] EXCEPT !.ver = saved[t] + 1] = r
        BY <1>6, <3>1 DEF TaskRows
      <4> QED
        BY <2>2, <4>1 DEF SaveSummary
    <3>5. row'[t] = r /\ \A u \in Ids : u # t => row'[u] = row[u]
      BY <3>4 DEF PageInv, ServerShape
    <3>6. saved'[t] = saved[t] + 1 /\ \A u \in Ids : u # t => saved'[u] = saved[u]
      BY <3>4 DEF PageInv, ServerShape
    <3>7. /\ row' \in [Ids -> TaskRows] /\ saved' \in [Ids -> Events]
          /\ submit' \in [Ids -> SubmitStates]
      BY <3>2, <3>3, <3>4 DEF PageInv, ServerShape
    <3>8. RowsFollow'
      BY <2>0, <3>3, <3>5, <3>6 DEF RowsFollow
    <3>9. Seen \subseteq Seen'
      <4>1. r.ver # None
        BY <1>6, <3>2, <3>3, TaskConstants DEF Events
      <4>2. \A u \in Seen : u \in Seen'
        <5> TAKE u \in Seen
        <5>1. CASE u = t
          BY <3>3, <3>5, <4>1, <5>1 DEF Seen
        <5>2. CASE u # t
          BY <3>5, <5>2 DEF Seen
        <5> QED
          BY <5>1, <5>2
      <4> QED
        BY <4>2
    <3>10. OnlyStubs
      <4>1. ~(r.ver < row[t].ver)
        BY <2>0, <3>3
      <4> QED
        BY <2>0, <3>5, <4>1 DEF OnlyStubs
    <3>11. Submitted'
      BY <3>4, <3>9 DEF PageInv, Submitted
    <3>12. Taken' /\ StubsHaveTasks'
      <4>1. saved[t] + 1 <= rmf[t] /\ r.ver # 0
        BY <1>6, <3>2, <3>3, TaskConstants DEF Events
      <4> QED
        BY <1>0, <3>4, <3>5, <3>6, <4>1 DEF PageInv, Taken, StubsHaveTasks
    <3> QED
      BY <3>7, <3>8, <3>9, <3>10, <3>11, <3>12
  <2> QED
    BY <2>1, <2>2
<1>2. ServerShape'
  BY <1>0, <1>1 DEF PageInv, ServerShape
<1>3. ListShape' /\ OnePage' /\ ShownIsSeen'
  BY <1>0, <1>1, TaskListUnchanged
<1>4. ClickShape'
  BY <1>0 DEF PageInv, clickVars, ClickShape
<1>5. WatchShape' /\ WatchIsCurrent' /\ WatchesWhatIsShown' /\ CancelInv'
  BY <1>0, WatchUnchanged, SubscribersUnchanged, CancelUnchanged DEF listVars, watchVars
<1> QED
  BY <1>1, <1>2, <1>3, <1>4, <1>5 DEF PageInv

\* A step that leaves the server and its rows alone.
LEMMA ServerUnchanged ==
    ASSUME PageInv, UNCHANGED serverVars
    PROVE  /\ ServerShape' /\ RowsFollow' /\ Submitted' /\ Seen' = Seen /\ CancelInv' /\ OnlyStubs
           /\ Taken' /\ StubsHaveTasks'
<1>1. RowsFollow' /\ Seen' = Seen /\ OnlyStubs
  BY RowsUnchanged DEF serverVars
<1>2. ServerShape' /\ CancelInv'
  BY CancelUnchanged DEF PageInv, serverVars, ServerShape
<1>3. Submitted'
  BY <1>1 DEF PageInv, serverVars, Submitted
<1>4. Taken' /\ StubsHaveTasks'
  BY TakenUnchanged DEF serverVars
<1> QED
  BY <1>1, <1>2, <1>3, <1>4

\* A request for a page.
LEMMA FetchEffect ==
    ASSUME PageInv, NEW p \in 0 .. MaxPage, Fetch(p), page' \in 0 .. MaxPage,
           astray' = (fetches # {}) \/ astray' = (fetches # {} \/ p # page'), Seen \subseteq Seen',
           astray' \/ p = page'
    PROVE  ListShape' /\ OnePage' /\ ShownIsSeen'
<1> USE DEF PageInv
<1>1. PICK g : g = [n |-> asked + 1, page |-> p, rows |-> <<>>, done |-> FALSE]
  OBVIOUS
<1>2. g \in PageAsks /\ g.page = p /\ g.rows = <<>>
  <2>1. <<>> \in Seq(ShownRows) /\ asked + 1 \in Nat
    BY DEF ListShape
  <2> QED
    BY <1>1, <2>1 DEF PageAsks
<1>3. fetches' = fetches \cup {g} /\ asked' = asked + 1 /\ UNCHANGED <<fetched, shownPage>>
  BY <1>1 DEF Fetch
<1>4. ListShape'
  <2>1. \A f \in fetches' : Len(f.rows) <= PageSize + 1
    <3>1. Len(<<>>) <= PageSize + 1
      BY TaskConstants
    <3> QED
      BY <1>2, <1>3, <3>1 DEF ListShape
  <2>2. astray' \in BOOLEAN
    OBVIOUS
  <2> QED
    BY <1>2, <1>3, <2>1, <2>2 DEF ListShape
<1>5. OnePage'
  <2> SUFFICES ASSUME ~astray' PROVE \A f, h \in fetches' : f = h /\ f.page = page'
    BY <1>3 DEF OnePage
  <2>1. fetches = {}
    OBVIOUS
  <2> QED
    BY <1>2, <1>3, <2>1
<1>6. ShownIsSeen'
  BY <1>2, <1>3 DEF ShownIsSeen
<1> QED
  BY <1>4, <1>5, <1>6

LEMMA FetchStep ==
    ASSUME PageInv, Refresh \/ ChangePage \/ \E t \in Ids : SubmitTasksReturns(t)
    PROVE  PageInv' /\ OnlyStubs
<1> USE DEF PageInv
<1>1. PICK p \in 0 .. MaxPage :
         /\ Fetch(p) /\ page' \in 0 .. MaxPage
         /\ astray' = (fetches # {}) \/ astray' = (fetches # {} \/ p # page')
         /\ astray' \/ p = page'
  <2>0. page \in 0 .. MaxPage /\ \A t \in Ids : submitPage[t] \in 0 .. MaxPage
    BY DEF ListShape, ServerShape
  <2>1. CASE Refresh
    BY <2>1 DEF Refresh, ListShape
  <2>2. CASE ChangePage
    BY <2>2 DEF ChangePage
  <2>3. CASE \E t \in Ids : SubmitTasksReturns(t)
    <3>1. PICK t \in Ids : SubmitTasksReturns(t)
      BY <2>3
    <3>2. PICK p \in 0 .. MaxPage : p = submitPage[t]
      BY <2>0
    <3>3. Fetch(p) /\ page' = page /\ astray' = (fetches # {} \/ p # page')
      BY <3>1, <3>2 DEF SubmitTasksReturns
    <3>4. astray' \/ p = page'
      BY <3>3
    <3> QED
      BY <2>0, <3>3, <3>4
  <2> QED
    BY <2>1, <2>2, <2>3
<1>2. UNCHANGED <<row, rmf, saved, submitPage, cancels, cancelled>>
  BY DEF Refresh, ChangePage, SubmitTasksReturns, serverVars
<1>3. UNCHANGED <<fetched, shownPage, watchVars, clickVars>>
  BY <1>1 DEF Fetch
<1>4. RowsFollow' /\ Seen' = Seen /\ OnlyStubs
  BY <1>2, RowsUnchanged
<1>5. ListShape' /\ OnePage' /\ ShownIsSeen'
  BY <1>1, <1>4, FetchEffect
<1>6. /\ submit' \in [Ids -> SubmitStates]
      /\ \A u \in Ids : submit'[u] \in {"ok", "done"} => submit[u] \in {"ok", "done"}
  BY DEF Refresh, ChangePage, SubmitTasksReturns, serverVars, ServerShape, SubmitStates
<1>7. ServerShape' /\ Submitted'
  BY <1>2, <1>4, <1>6 DEF ServerShape, Submitted
<1>8. ClickShape'
  BY <1>3 DEF clickVars, ClickShape
<1>9. WatchShape' /\ WatchIsCurrent' /\ WatchesWhatIsShown' /\ CancelInv'
  BY <1>2, <1>3, WatchUnchanged, SubscribersUnchanged, CancelUnchanged DEF watchVars
<1>10. Taken' /\ StubsHaveTasks'
  <2>1. \A u \in Ids : submit'[u] = submit[u] \/ (submit[u] = "ok" /\ submit'[u] = "done")
    BY DEF Refresh, ChangePage, SubmitTasksReturns, serverVars, ServerShape
  <2> QED
    BY <1>2, <2>1 DEF Taken, StubsHaveTasks
<1> QED
  BY <1>4, <1>5, <1>7, <1>8, <1>9, <1>10

\* The server answers a request.
LEMMA GetTasksStep == ASSUME PageInv, GetTasks PROVE PageInv' /\ OnlyStubs
<1> USE DEF PageInv
<1>1. PICK f \in fetches :
         fetches' = (fetches \ {f}) \cup {[f EXCEPT !.rows = Window(f.page), !.done = TRUE]}
  BY DEF GetTasks
<1>2. UNCHANGED <<page, fetched, asked, shownPage, astray, serverVars, watchVars, clickVars>>
  BY DEF GetTasks
<1>3. f \in PageAsks /\ f.page \in 0 .. MaxPage /\ f.page \in Nat
  BY <1>1, TaskConstants DEF ListShape, PageAsks
<1>4. PICK w : w = Window(f.page)
  OBVIOUS
<1>5. /\ w \in Seq(ShownRows) /\ Len(w) <= PageSize + 1
      /\ \A i \in DOMAIN w : w[i].id \in Seen
  BY <1>3, <1>4, WindowShape
<1>6. PICK g : g = [f EXCEPT !.rows = w, !.done = TRUE]
  OBVIOUS
<1>7. g \in PageAsks /\ g.page = f.page /\ g.rows = w
  BY <1>3, <1>5, <1>6 DEF PageAsks
<1>8. fetches' = (fetches \ {f}) \cup {g}
  BY <1>1, <1>4, <1>6
<1>9. /\ ServerShape' /\ RowsFollow' /\ Submitted' /\ Seen' = Seen /\ CancelInv' /\ OnlyStubs
      /\ Taken' /\ StubsHaveTasks'
  BY <1>2, ServerUnchanged
<1>10. ListShape'
  BY <1>2, <1>5, <1>7, <1>8 DEF ListShape
<1>11. OnePage'
  BY <1>1, <1>2, <1>7, <1>8 DEF OnePage
<1>12. ShownIsSeen'
  BY <1>2, <1>5, <1>7, <1>8, <1>9 DEF ShownIsSeen
<1>13. ClickShape'
  BY <1>2 DEF clickVars, ClickShape
<1>14. WatchShape' /\ WatchIsCurrent' /\ WatchesWhatIsShown'
  BY <1>2, WatchUnchanged, SubscribersUnchanged DEF watchVars, serverVars
<1> QED
  BY <1>9, <1>10, <1>11, <1>12, <1>13, <1>14

\* A request fails.
LEMMA FetchFailsStep == ASSUME PageInv, FetchFails PROVE PageInv' /\ OnlyStubs
<1> USE DEF PageInv
<1>1. PICK f \in fetches : fetches' = fetches \ {f}
  BY DEF FetchFails
<1>2. /\ UNCHANGED <<page, fetched, asked, shownPage, serverVars, watchVars, clickVars>>
      /\ astray' = TRUE
  BY DEF FetchFails
<1>3. /\ ServerShape' /\ RowsFollow' /\ Submitted' /\ Seen' = Seen /\ CancelInv' /\ OnlyStubs
      /\ Taken' /\ StubsHaveTasks'
  BY <1>2, ServerUnchanged
<1>4. ListShape' /\ OnePage'
  BY <1>1, <1>2 DEF ListShape, OnePage
<1>5. ShownIsSeen'
  BY <1>1, <1>2, <1>3 DEF ShownIsSeen
<1>6. ClickShape'
  BY <1>2 DEF clickVars, ClickShape
<1>7. WatchShape' /\ WatchIsCurrent' /\ WatchesWhatIsShown'
  BY <1>2, WatchUnchanged, SubscribersUnchanged DEF watchVars, serverVars
<1> QED
  BY <1>3, <1>4, <1>5, <1>6, <1>7

\* The subscriptions of a list begin anew.
LEMMA SubscribedEffect ==
    ASSUME PageInv, watch' = Subscribed(fetched', auto'), auto' \in BOOLEAN,
           UNCHANGED <<updated, held, chan, behind>>
    PROVE  WatchShape' /\ WatchIsCurrent' /\ WatchesWhatIsShown'
<1>1. \A t \in Ids : /\ watch'[t] \in {"off", "reading"}
                     /\ watch'[t] # "off" <=> auto' /\ \E i \in DOMAIN fetched' : fetched'[i].id = t
  BY DEF Subscribed
<1>2. watch' \in [Ids -> {"off", "reading", "emitting", "attaching", "on"}]
  BY DEF Subscribed
<1>3. WatchShape'
  BY <1>2 DEF PageInv, WatchShape
<1> QED
  BY <1>1, <1>3 DEF WatchIsCurrent, WatchesWhatIsShown

LEMMA FetchReturnsStep == ASSUME PageInv, FetchReturns PROVE PageInv' /\ OnlyStubs
<1> USE DEF PageInv
<1>1. PICK f \in fetches :
         fetches' = fetches \ {f} /\ fetched' = FirstRows(f.rows) /\ shownPage' = f.page
  BY DEF FetchReturns
<1>2. /\ UNCHANGED <<page, asked, astray, auto, updated, held, chan, behind, serverVars, clickVars>>
      /\ watch' = Subscribed(fetched', auto)
  BY DEF FetchReturns
<1>3. f \in PageAsks /\ f.page \in 0 .. MaxPage /\ f.rows \in Seq(ShownRows)
  BY <1>1 DEF ListShape, PageAsks
<1>4. /\ fetched' \in Seq(ShownRows) /\ Len(fetched') <= PageSize
      /\ \A i \in DOMAIN fetched' : i \in DOMAIN f.rows /\ fetched'[i] = f.rows[i]
  BY <1>1, <1>3, FirstRowsShape
<1>5. /\ ServerShape' /\ RowsFollow' /\ Submitted' /\ Seen' = Seen /\ CancelInv' /\ OnlyStubs
      /\ Taken' /\ StubsHaveTasks'
  BY <1>2, ServerUnchanged
<1>6. ListShape'
  <2>1. shownPage' \in None .. MaxPage
    BY <1>1, <1>3, TaskConstants
  <2> QED
    BY <1>1, <1>2, <1>4, <2>1 DEF ListShape
<1>7. OnePage'
  BY <1>1, <1>2 DEF OnePage
<1>8. ShownIsSeen'
  BY <1>1, <1>4, <1>5 DEF ShownIsSeen
<1>9. ClickShape'
  BY <1>2 DEF clickVars, ClickShape
<1>10. WatchShape' /\ WatchIsCurrent' /\ WatchesWhatIsShown'
  BY <1>2, SubscribedEffect DEF WatchShape
<1> QED
  BY <1>5, <1>6, <1>7, <1>8, <1>9, <1>10

LEMMA ToggleStep == ASSUME PageInv, ToggleAutoRefresh PROVE PageInv' /\ OnlyStubs
<1> USE DEF PageInv
<1>1. /\ UNCHANGED <<selectedTask, updated, held, chan, behind, serverVars, listVars>>
      /\ auto' = ~auto /\ watch' = Subscribed(fetched, ~auto)
  BY DEF ToggleAutoRefresh
<1>2. auto' \in BOOLEAN /\ watch' = Subscribed(fetched', auto')
  BY <1>1 DEF listVars
<1>3. /\ ServerShape' /\ RowsFollow' /\ Submitted' /\ Seen' = Seen /\ CancelInv' /\ OnlyStubs
      /\ Taken' /\ StubsHaveTasks'
  BY <1>1, ServerUnchanged
<1>4. ListShape' /\ OnePage' /\ ShownIsSeen'
  BY <1>1, <1>3, TaskListUnchanged
<1>5. WatchShape' /\ WatchIsCurrent' /\ WatchesWhatIsShown'
  BY <1>1, <1>2, SubscribedEffect
<1>6. ClickShape'
  BY <1>1 DEF ClickShape
<1> QED
  BY <1>3, <1>4, <1>5, <1>6

\* A subscription goes on; what is left to show is what the page is told.
LEMMA WatchingStep ==
    ASSUME PageInv, NEW t \in Ids, NEW stage \in {"emitting", "attaching", "on"},
           watch[t] # "off", watch' = [watch EXCEPT ![t] = stage], WatchShape', WatchIsCurrent',
           UNCHANGED <<auto, serverVars, listVars, clickVars>>
    PROVE  PageInv' /\ OnlyStubs
<1>1. WatchesWhatIsShown'
  <2>1. \A u \in Ids : watch'[u] # "off" <=> watch[u] # "off"
    BY DEF PageInv, WatchShape
  <2> QED
    BY <2>1, SubscribersUnchanged DEF listVars
<1>2. /\ ServerShape' /\ RowsFollow' /\ Submitted' /\ Seen' = Seen /\ CancelInv' /\ OnlyStubs
      /\ Taken' /\ StubsHaveTasks'
  BY ServerUnchanged
<1>3. ListShape' /\ OnePage' /\ ShownIsSeen'
  BY <1>2, TaskListUnchanged
<1>4. ClickShape'
  BY DEF PageInv, clickVars, ClickShape
<1> QED
  BY <1>1, <1>2, <1>3, <1>4 DEF PageInv

\* The row of a task that is shown is read.
LEMMA ReadStep == ASSUME PageInv, NEW t \in Ids, ReadSummary(t) PROVE PageInv' /\ OnlyStubs
<1> USE DEF PageInv
<1>1. /\ watch[t] = "reading" /\ watch' = [watch EXCEPT ![t] = "emitting"]
      /\ UNCHANGED <<auto, updated, chan, behind, serverVars, listVars, clickVars>>
  BY DEF ReadSummary
<1>2. t \in Seen
  <2>1. PICK i \in DOMAIN fetched : fetched[i].id = t
    BY <1>1 DEF WatchesWhatIsShown
  <2> QED
    BY <2>1 DEF ShownIsSeen
<1>3. PICK ver \in Events : ver = row[t].ver
  BY <1>2, TaskConstants DEF Seen, ServerShape, TaskRows, Events
<1>4. held' = [held EXCEPT ![t] = ver]
  BY <1>2, <1>3, VisibleIsSeen DEF ReadSummary
<1>5. WatchShape'
  <2>1. ver \in None .. LastEvent
    BY TaskConstants DEF Events
  <2> QED
    BY <1>1, <1>4, <2>1 DEF WatchShape
<1>6. WatchIsCurrent'
  <2>1. watch'[t] = "emitting" /\ held'[t] = ver
    BY <1>1, <1>4 DEF WatchShape
  <2>2. \A u \in Ids : u # t => watch'[u] = watch[u] /\ held'[u] = held[u]
    BY <1>1, <1>4 DEF WatchShape
  <2> QED
    BY <1>1, <2>1, <2>2 DEF WatchIsCurrent, LastTold, serverVars
<1> QED
  BY <1>1, <1>5, <1>6, WatchingStep

\* It is told.
LEMMA EmitStep == ASSUME PageInv, NEW t \in Ids, EmitSummary(t) PROVE PageInv' /\ OnlyStubs
<1> USE DEF PageInv
<1>1. /\ watch[t] = "emitting" /\ watch' = [watch EXCEPT ![t] = "attaching"]
      /\ UNCHANGED <<auto, updated, held, behind, serverVars, listVars, clickVars>>
  BY DEF EmitSummary
<1>2. held[t] \in Events /\ held[t] # None
  BY <1>1, TaskConstants DEF WatchIsCurrent, Events
<1>3. PICK q \in Seq(Events) : q = chan[t]
  BY DEF WatchShape
<1>4. PICK r : r = Append(q, held[t])
  OBVIOUS
<1>5. r \in Seq(Events) /\ r # <<>> /\ Last(r) = held[t]
  BY <1>2, <1>4, Queue
<1>6. chan' = [chan EXCEPT ![t] = r]
  BY <1>2, <1>3, <1>4 DEF EmitSummary
<1>7. WatchShape'
  BY <1>1, <1>5, <1>6 DEF WatchShape
<1>8. WatchIsCurrent'
  <2>1. watch'[t] = "attaching" /\ chan'[t] = r /\ held'[t] = held[t]
    BY <1>1, <1>6 DEF WatchShape
  <2>2. LastTold(t)' = held[t]
    BY <1>5, <2>1 DEF LastTold
  <2>3. \A u \in Ids : u # t => watch'[u] = watch[u] /\ chan'[u] = chan[u]
    BY <1>1, <1>6 DEF WatchShape
  <2>4. \A u \in Ids : u # t => LastTold(u)' = LastTold(u)
    BY <1>1, <2>3 DEF LastTold
  <2> QED
    BY <1>1, <1>2, <2>1, <2>2, <2>3, <2>4 DEF WatchIsCurrent, serverVars
<1> QED
  BY <1>1, <1>7, <1>8, WatchingStep

\* Events are passed on from here.
LEMMA AttachStep == ASSUME PageInv, NEW t \in Ids, Attach(t) PROVE PageInv' /\ OnlyStubs
<1> USE DEF PageInv
<1>1. /\ watch[t] = "attaching" /\ watch' = [watch EXCEPT ![t] = "on"]
      /\ behind' = [behind EXCEPT ![t] = held[t] # rmf[t]]
      /\ UNCHANGED <<auto, updated, held, chan, serverVars, listVars, clickVars>>
  BY DEF Attach
<1>2. watch'[t] = "on" /\ behind'[t] = (held[t] # rmf[t]) /\ behind' \in [Ids -> BOOLEAN]
  BY <1>1 DEF WatchShape
<1>3. \A u \in Ids : u # t => watch'[u] = watch[u] /\ behind'[u] = behind[u]
  BY <1>1 DEF WatchShape
<1>4. WatchShape'
  BY <1>1, <1>2 DEF WatchShape
<1>5. \A u \in Ids : LastTold(u)' = LastTold(u)
  BY <1>1 DEF LastTold
<1>6. rmf' = rmf /\ LastTold(t) = held[t]
  BY <1>1 DEF serverVars, WatchIsCurrent
<1>7. WatchIsCurrent'
  BY <1>1, <1>2, <1>3, <1>5, <1>6 DEF WatchIsCurrent
<1> QED
  BY <1>1, <1>4, <1>7, WatchingStep

LEMMA SummaryStep == ASSUME PageInv, NEW t \in Ids, SummaryArrives(t) PROVE PageInv' /\ OnlyStubs
<1> USE DEF PageInv
<1>1. UNCHANGED <<auto, watch, held, behind, serverVars, listVars, clickVars>>
  BY DEF SummaryArrives
<1>2. PICK q \in Seq(Events) : q = chan[t]
  BY DEF WatchShape
<1>3. PICK r, e : r = Tail(q) /\ e = Head(q)
  OBVIOUS
<1>4. /\ r \in Seq(Events) /\ e \in Events
      /\ r = <<>> => e = Last(q)
      /\ r # <<>> => Last(r) = Last(q)
  <2>1. q # <<>>
    BY <1>2 DEF SummaryArrives
  <2>2. 0 \in Events
    BY TaskConstants DEF Events
  <2> QED
    BY <1>3, <2>1, <2>2, Queue
<1>5. /\ chan' = [chan EXCEPT ![t] = r]
      /\ updated' = IF watch[t] = "off" THEN updated ELSE [updated EXCEPT ![t] = e]
  BY <1>2, <1>3 DEF SummaryArrives
<1>6. e \in None .. LastEvent
  BY <1>4, TaskConstants DEF Events
<1>7. WatchShape'
  <2>1. updated' \in [Ids -> None .. LastEvent]
    BY <1>5, <1>6 DEF WatchShape
  <2> QED
    BY <1>1, <1>4, <1>5, <2>1 DEF WatchShape
<1>8. WatchIsCurrent'
  <2>1. watch[t] # "off" => LastTold(t)' = LastTold(t)
    <3>1. q # <<>>
      BY <1>2 DEF SummaryArrives
    <3>2. chan'[t] = r /\ (watch[t] # "off" => updated'[t] = e)
      BY <1>5 DEF WatchShape
    <3> QED
      BY <1>2, <1>4, <3>1, <3>2 DEF LastTold
  <2>2. \A u \in Ids : u # t => chan'[u] = chan[u] /\ updated'[u] = updated[u]
    BY <1>5 DEF WatchShape
  <2>3. \A u \in Ids : u # t => LastTold(u)' = LastTold(u)
    BY <2>2 DEF LastTold
  <2> QED
    BY <1>1, <2>1, <2>3 DEF WatchIsCurrent, serverVars
<1>9. WatchesWhatIsShown'
  BY <1>1, SubscribersUnchanged DEF listVars
<1>10. /\ ServerShape' /\ RowsFollow' /\ Submitted' /\ Seen' = Seen /\ CancelInv' /\ OnlyStubs
      /\ Taken' /\ StubsHaveTasks'
  BY <1>1, ServerUnchanged
<1>11. ListShape' /\ OnePage' /\ ShownIsSeen'
  BY <1>1, <1>10, TaskListUnchanged
<1>12. ClickShape'
  BY <1>1 DEF clickVars, ClickShape
<1> QED
  BY <1>7, <1>8, <1>9, <1>10, <1>11, <1>12

\* A cancellation and those before it.
LEMMA OneCancel ==
    ASSUME PageInv, NEW c \in DOMAIN cancels, NEW x \in Cancellations, x.id = cancels[c].id,
           cancels' = [cancels EXCEPT ![c] = x]
    PROVE  /\ cancels' \in Seq(Cancellations) /\ Len(cancels') = Len(cancels) /\ Len(cancels) \in Nat
           /\ c \in 1 .. Len(cancels) /\ cancels'[c] = x
           /\ \A d \in 1 .. Len(cancels) : d # c => cancels'[d] = cancels[d]
           /\ \A d \in 1 .. Len(cancels) : cancels'[d].id = cancels[d].id
BY DEF PageInv, CancelInv

\* Clicks and cancellations.
LEMMA CancelStep ==
    ASSUME PageInv,
           SelectTaskClick \/ CancelTaskClick \/ \E c \in DOMAIN cancels : CancelTaskReturns(c)
    PROVE  PageInv' /\ OnlyStubs
<1> USE DEF PageInv
<1>1. UNCHANGED <<rmf, saved, row, submit, submitPage, cancelled, listVars, watchVars>>
  BY DEF SelectTaskClick, CancelTaskClick, CancelTaskReturns, serverVars
<1>2. CancelInv' /\ ClickShape'
  <2>1. CASE SelectTaskClick
    <3>1. cancels' = cancels
      BY <2>1 DEF SelectTaskClick, serverVars
    <3>2. PICK i \in DOMAIN fetched : selectedTask' = [id |-> fetched[i].id, ver |-> Shown(i)]
      BY <2>1 DEF SelectTaskClick
    <3>3. fetched[i].id \in Ids /\ selectedTask'.id = fetched[i].id
      BY <3>2 DEF ShownIsSeen, Seen
    <3> QED
      BY <1>1, <3>1, <3>3, CancelUnchanged DEF ClickShape
  <2>2. CASE CancelTaskClick
    <3>1. PICK x : x = [id |-> selectedTask.id, rmf |-> "no", at |-> "calling"]
      OBVIOUS
    <3>2. cancels' = Append(cancels, x) /\ UNCHANGED clickVars
      BY <2>2, <3>1 DEF CancelTaskClick
    <3>3. selectedTask.id \in Ids
      BY <2>2 DEF CancelTaskClick, ClickShape
    <3>4. x \in Cancellations /\ x.rmf = "no" /\ x.at = "calling"
      BY <3>1, <3>3 DEF Cancellations
    <3>5. /\ cancels' \in Seq(Cancellations) /\ Len(cancels') = Len(cancels) + 1 /\ Len(cancels) \in Nat
          /\ cancels'[Len(cancels) + 1] = x
          /\ \A d \in 1 .. Len(cancels) : cancels'[d] = cancels[d]
      BY <3>2, <3>4 DEF CancelInv
    <3>6. 1 .. Len(cancels') = 1 .. Len(cancels) \cup {Len(cancels) + 1}
      BY <3>5
    <3>7. CancelInv'
      BY <1>1, <3>4, <3>5, <3>6 DEF CancelInv
    <3> QED
      BY <3>2, <3>7 DEF ClickShape, clickVars
  <2>3. CASE \E c \in DOMAIN cancels : CancelTaskReturns(c)
    <3>1. PICK c \in DOMAIN cancels : CancelTaskReturns(c)
      BY <2>3
    <3>2. cancels[c] \in Cancellations
      BY DEF CancelInv
    <3>3. PICK how \in {"ok", "refused", "error"} :
              /\ cancels' = [cancels EXCEPT ![c].at = how]
              /\ how = "ok" => cancels[c].rmf = "ok"
              /\ how = "refused" => cancels[c].rmf = "refused"
      BY <3>1 DEF CancelTaskReturns
    <3>4. PICK x : x = [cancels[c] EXCEPT !.at = how]
      OBVIOUS
    <3>5. /\ x \in Cancellations /\ x.id = cancels[c].id /\ x.rmf = cancels[c].rmf /\ x.at = how
      BY <3>2, <3>4 DEF Cancellations
    <3>6. cancels' = [cancels EXCEPT ![c] = x]
      BY <3>3, <3>4
    <3>7. /\ cancels' \in Seq(Cancellations) /\ Len(cancels') = Len(cancels) /\ Len(cancels) \in Nat
          /\ c \in 1 .. Len(cancels) /\ cancels'[c] = x
          /\ \A d \in 1 .. Len(cancels) : d # c => cancels'[d] = cancels[d]
      BY <3>5, <3>6, OneCancel
    <3>8. CancelInv'
      BY <1>1, <3>3, <3>5, <3>7 DEF CancelInv
    <3>9. ClickShape'
      BY <3>1 DEF CancelTaskReturns, ClickShape
    <3> QED
      BY <3>8, <3>9
  <2> QED
    BY <2>1, <2>2, <2>3
<1>3. RowsFollow' /\ Seen' = Seen /\ OnlyStubs
  BY <1>1, RowsUnchanged
<1>4. ServerShape' /\ Submitted' /\ Taken' /\ StubsHaveTasks'
  BY <1>1, <1>3, TakenUnchanged DEF ServerShape, Submitted
<1>5. ListShape' /\ OnePage' /\ ShownIsSeen'
  BY <1>1, <1>3, TaskListUnchanged
<1>6. WatchShape' /\ WatchIsCurrent' /\ WatchesWhatIsShown'
  BY <1>1, WatchUnchanged, SubscribersUnchanged DEF watchVars, listVars
<1> QED
  BY <1>2, <1>3, <1>4, <1>5, <1>6

\* RMF ends a task or refuses to.
LEMMA CancelAtRmfStep ==
    ASSUME PageInv, NEW c \in DOMAIN cancels, CancelAtRmf(c) PROVE PageInv' /\ OnlyStubs
<1> USE DEF PageInv
<1>0. cancels[c] \in Cancellations
  BY DEF CancelInv
<1>1. PICK t \in Ids : t = cancels[c].id
  BY <1>0 DEF Cancellations
<1>2. cancels[c] \in Cancellations /\ cancels[c].rmf = "no" /\ cancels[c].at \in {"calling", "error"}
  BY DEF CancelInv, CancelAtRmf
<1>3. ASSUME NEW did \in {"ok", "refused"}, cancels' = [cancels EXCEPT ![c].rmf = did],
             cancelled' = (IF did = "ok" THEN cancelled \cup {t} ELSE cancelled)
      PROVE  CancelInv'
  <2>1. PICK x : x = [cancels[c] EXCEPT !.rmf = did]
    OBVIOUS
  <2>2. x \in Cancellations /\ x.id = t /\ x.rmf = did /\ x.at = cancels[c].at
    BY <1>1, <1>2, <2>1 DEF Cancellations
  <2>3. cancels' = [cancels EXCEPT ![c] = x]
    BY <1>3, <2>1
  <2>4. /\ cancels' \in Seq(Cancellations) /\ Len(cancels') = Len(cancels) /\ Len(cancels) \in Nat
        /\ c \in 1 .. Len(cancels) /\ cancels'[c] = x
        /\ \A d \in 1 .. Len(cancels) : d # c => cancels'[d] = cancels[d]
    BY <1>1, <2>2, <2>3, OneCancel
  <2>5. \A d \in 1 .. Len(cancels') :
            /\ cancels'[d].rmf = "ok" => cancels'[d].id \in cancelled'
            /\ cancels'[d].at = "ok" => cancels'[d].rmf = "ok"
            /\ cancels'[d].at = "refused" => cancels'[d].rmf = "refused"
    <3> TAKE d \in 1 .. Len(cancels')
    <3>1. CASE d = c
      BY <1>2, <1>3, <2>2, <2>4, <3>1
    <3>2. CASE d # c
      BY <1>3, <2>4, <3>2 DEF CancelInv
    <3> QED
      BY <3>1, <3>2
  <2>6. \A u \in cancelled' : \E d \in 1 .. Len(cancels') : cancels'[d].id = u /\ cancels'[d].rmf = "ok"
    <3> TAKE u \in cancelled'
    <3>1. CASE u \in cancelled
      <4>1. PICK d \in 1 .. Len(cancels) : cancels[d].id = u /\ cancels[d].rmf = "ok"
        BY <3>1 DEF CancelInv
      <4>2. d # c
        BY <1>2, <4>1
      <4> QED
        BY <2>4, <4>1, <4>2
    <3>2. CASE u \notin cancelled
      <4>1. u = t /\ did = "ok"
        BY <1>3, <3>2
      <4> QED
        BY <2>2, <2>4, <4>1
    <3> QED
      BY <3>1, <3>2
  <2> QED
    BY <2>4, <2>5, <2>6 DEF CancelInv
<1>4. UNCHANGED <<saved, row, submit, submitPage, listVars, clickVars>>
  BY DEF CancelAtRmf
<1>5. CASE 0 < rmf[t] /\ cancels' = [cancels EXCEPT ![c].rmf = "ok"] /\ Publish(t, LastEvent)
           /\ cancelled' = cancelled \cup {t}
  <2>1. CancelInv' /\ cancelled' \subseteq Ids
    BY <1>3, <1>5 DEF ServerShape
  <2>2. LastEvent \in Events /\ rmf[t] <= LastEvent /\ LastEvent # 0
    BY TaskConstants DEF Events, ServerShape
  <2>3. submit[t] \notin {"refusing", "refused"}
    BY <1>5 DEF Taken
  <2> QED
    BY <1>4, <1>5, <2>1, <2>2, <2>3, PublishStep
<1>6. CASE cancels' = [cancels EXCEPT ![c].rmf = "refused"] /\ UNCHANGED <<rmf, watchVars, cancelled>>
  <2>1. CancelInv'
    BY <1>3, <1>6
  <2>2. RowsFollow' /\ Seen' = Seen /\ OnlyStubs
    BY <1>4, RowsUnchanged
  <2>3. ServerShape' /\ Submitted' /\ Taken' /\ StubsHaveTasks'
    BY <1>4, <1>6, <2>2, TakenUnchanged DEF ServerShape, Submitted
  <2>4. ListShape' /\ OnePage' /\ ShownIsSeen'
    BY <1>4, <2>2, TaskListUnchanged
  <2>5. WatchShape' /\ WatchIsCurrent' /\ WatchesWhatIsShown'
    BY <1>4, <1>6, WatchUnchanged, SubscribersUnchanged DEF watchVars, listVars
  <2>6. ClickShape'
    BY <1>4 DEF clickVars, ClickShape
  <2> QED
    BY <2>1, <2>2, <2>3, <2>4, <2>5, <2>6
<1> QED
  BY <1>1, <1>5, <1>6 DEF CancelAtRmf

\* RMF takes a task or goes on with it.
LEMMA RmfStep ==
    ASSUME PageInv, NEW t \in Ids, Accept(t) \/ Summary(t)
    PROVE  PageInv' /\ OnlyStubs
<1> USE DEF PageInv
<1>1. PICK ver : ver = (IF Accept(t) THEN 1 ELSE rmf[t] + 1)
  OBVIOUS
<1>2. /\ Publish(t, ver)
      /\ UNCHANGED <<saved, row, submit, submitPage, cancels, cancelled, listVars, clickVars>>
  BY <1>1 DEF Accept, Summary
<1>3. ver \in Events /\ rmf[t] <= ver /\ ver # 0
  <2>1. rmf[t] \in 0 .. LastEvent
    BY DEF ServerShape, Events
  <2>2. CASE Accept(t)
    BY <1>1, <2>1, <2>2, TaskConstants DEF Accept, Events
  <2>3. CASE ~Accept(t)
    BY <1>1, <2>1, <2>3, TaskConstants DEF Summary, Events
  <2> QED
    BY <2>2, <2>3
<1>4. submit[t] \notin {"refusing", "refused"}
  BY DEF Accept, Summary, Taken
<1>5. CancelInv' /\ cancelled' \subseteq Ids
  BY <1>2, CancelUnchanged DEF ServerShape
<1> QED
  BY <1>2, <1>3, <1>4, <1>5, PublishStep

-----------------------------------------------------------------------------
LEMMA PageStep == ASSUME PageInv, [PageNext]_pageVars PROVE PageInv' /\ OnlyStubs
<1>1. CASE UNCHANGED pageVars
  <2>1. UNCHANGED <<serverVars, listVars, watchVars, clickVars>>
    BY <1>1 DEF pageVars
  <2>2. /\ ServerShape' /\ RowsFollow' /\ Submitted' /\ Seen' = Seen /\ CancelInv' /\ OnlyStubs
        /\ Taken' /\ StubsHaveTasks'
    BY <2>1, ServerUnchanged
  <2>3. ListShape' /\ OnePage' /\ ShownIsSeen'
    BY <2>1, <2>2, TaskListUnchanged
  <2>4. WatchShape' /\ WatchIsCurrent' /\ WatchesWhatIsShown'
    BY <2>1, WatchUnchanged, SubscribersUnchanged DEF serverVars, watchVars, listVars
  <2>5. ClickShape'
    BY <2>1 DEF PageInv, clickVars, ClickShape
  <2> QED
    BY <2>2, <2>3, <2>4, <2>5 DEF PageInv
<1>2. CASE PageNext
  BY <1>2, SubmitStep, WriteStep, FetchStep, GetTasksStep, FetchFailsStep, FetchReturnsStep, ToggleStep,
     ReadStep, EmitStep, AttachStep, SummaryStep, CancelStep, CancelAtRmfStep, RmfStep DEF PageNext
<1> QED
  BY <1>1, <1>2

LEMMA PageStart == PageInit => PageInv
<1> SUFFICES ASSUME PageInit PROVE PageInv
  OBVIOUS
<1> USE DEF PageInit
<1>1. PICK f : f = [n |-> 1, page |-> 0, rows |-> <<>>, done |-> FALSE]
  OBVIOUS
<1>2. fetches = {f} /\ f.page = 0 /\ f.rows = <<>>
  BY <1>1
<1>3. f \in PageAsks
  <2>1. <<>> \in Seq(ShownRows) /\ 0 \in 0 .. MaxPage
    BY TaskConstants
  <2> QED
    BY <1>1, <2>1 DEF PageAsks
<1>4. ListShape
  <2>1. Len(<<>>) <= PageSize /\ Len(<<>>) <= PageSize + 1 /\ <<>> \in Seq(ShownRows)
    BY TaskConstants
  <2>2. page \in 0 .. MaxPage /\ shownPage \in None .. MaxPage /\ asked \in Nat
    BY TaskConstants
  <2> QED
    BY <1>2, <1>3, <2>1, <2>2 DEF ListShape
<1>5. ASSUME NEW t \in Ids
      PROVE  /\ rmf[t] = (IF t \in Old THEN LastEvent ELSE 0) /\ saved[t] = rmf[t]
             /\ row[t].ver = (IF t \in Old THEN LastEvent ELSE None)
             /\ submit[t] = (IF t \in Old THEN "done" ELSE "no")
             /\ t \in Old => row[t].grp
  <2>1. CASE t \in Old
    BY <2>1
  <2>2. CASE t \notin Old
    BY <2>2
  <2> QED
    BY <2>1, <2>2
<1>6. ServerShape
  <2>1. rmf \in [Ids -> Events] /\ saved \in [Ids -> Events]
    BY TaskConstants DEF Events
  <2>2. PICK old, new : old = [ver |-> LastEvent, grp |-> TRUE] /\ new = [ver |-> None, grp |-> FALSE]
    OBVIOUS
  <2>3. old \in TaskRows /\ new \in TaskRows
    BY <2>2, TaskConstants DEF TaskRows
  <2>4. row \in [Ids -> TaskRows]
    BY <2>2, <2>3
  <2>5. /\ submit \in [Ids -> SubmitStates]
        /\ submitPage \in [Ids -> 0 .. MaxPage] /\ cancelled \subseteq Ids
    BY TaskConstants DEF SubmitStates
  <2> QED
    BY <2>1, <2>4, <2>5 DEF ServerShape
<1>7. WatchShape
  <2>1. None \in None .. LastEvent /\ <<>> \in Seq(Events)
    BY TaskConstants
  <2> QED
    BY <2>1 DEF WatchShape
<1>8. OnePage
  BY <1>2 DEF OnePage
<1>9. RowsFollow
  BY <1>5, TaskConstants DEF RowsFollow
<1>10. Submitted
  BY <1>5, TaskConstants DEF Submitted, Seen
<1>11. ShownIsSeen
  BY <1>2 DEF ShownIsSeen
<1>12. WatchIsCurrent /\ WatchesWhatIsShown
  BY DEF WatchIsCurrent, WatchesWhatIsShown
<1>13. CancelInv /\ ClickShape
  BY DEF CancelInv, ClickShape
<1>14. Taken /\ StubsHaveTasks
  BY <1>5, TaskConstants DEF Taken, StubsHaveTasks
<1> QED
  BY <1>4, <1>6, <1>7, <1>8, <1>9, <1>10, <1>11, <1>12, <1>13, <1>14 DEF PageInv

LEMMA PageInvMeans == PageInv => PageTypeOK /\ PageIsTrue
<1> SUFFICES ASSUME PageInv PROVE PageTypeOK /\ PageIsTrue
  OBVIOUS
<1> USE DEF PageInv
<1>1. PageTypeOK
  <2>1. Len(fetched) \in 0 .. PageSize /\ \A f \in fetches : Len(f.rows) \in 0 .. PageSize + 1
    <3>1. \A f \in fetches : f.rows \in Seq(ShownRows)
      BY DEF ListShape, PageAsks
    <3> QED
      BY <3>1, TaskConstants DEF ListShape
  <2>2. \A c \in DOMAIN cancels : /\ cancels[c].rmf \in {"no", "ok", "refused"}
                                  /\ cancels[c].at \in {"calling", "ok", "refused", "error"}
    <3>1. \A c \in DOMAIN cancels : cancels[c] \in Cancellations
      BY DEF CancelInv
    <3> QED
      BY <3>1 DEF Cancellations
  <2> QED
    BY <2>1, <2>2 DEF PageTypeOK, ServerShape, ListShape, WatchShape, TaskRows, Events, SubmitStates
<1>2. PageSettles
  BY DEF PageSettles, OnePage
<1>3. SubmittedIsVisible
  BY VisibleIsSeen DEF SubmittedIsVisible, Submitted
<1>4. ShownIsCurrent
  <2> SUFFICES ASSUME NEW i \in DOMAIN fetched, watch[fetched[i].id] = "on",
                      chan[fetched[i].id] = <<>>, ~behind[fetched[i].id]
               PROVE  Shown(i) = rmf[fetched[i].id]
    BY DEF ShownIsCurrent
  <2>1. PICK t \in Ids : t = fetched[i].id
    BY DEF ShownIsSeen, Seen
  <2>2. updated[t] = rmf[t] /\ rmf[t] # None
    BY <2>1, TaskConstants DEF WatchIsCurrent, LastTold, ServerShape, Events
  <2> QED
    BY <2>1, <2>2 DEF Shown
<1>5. CancelIsTrue
  <2>1. DOMAIN cancels = 1 .. Len(cancels)
    BY DEF CancelInv
  <2>2. ASSUME NEW c \in 1 .. Len(cancels), cancels[c].at = "refused", cancels[c].id \in cancelled
        PROVE  \E d \in 1 .. Len(cancels) :
                   d # c /\ cancels[d].id = cancels[c].id /\ cancels[d].rmf = "ok"
    <3>1. PICK d \in 1 .. Len(cancels) : cancels[d].id = cancels[c].id /\ cancels[d].rmf = "ok"
      BY <2>2 DEF CancelInv
    <3>2. cancels[c].rmf = "refused"
      BY <2>2 DEF CancelInv
    <3> QED
      BY <3>1, <3>2
  <2> QED
    BY <2>1, <2>2 DEF CancelInv, CancelIsTrue
<1> QED
  BY <1>1, <1>2, <1>3, <1>4, <1>5 DEF PageIsTrue

\* task-page.tsx, task-panel.tsx and routes/tasks: for any tasks and any size of
\* the pages, what the page tells of the tasks is so.
THEOREM PageStaysTrue == PageSpec => [](PageTypeOK /\ PageIsTrue)
BY PageStart, PageStep, PageInvMeans, PTL DEF PageSpec

\* A row loses an event only to the stub of a submission whose answer was slower
\* than the book keeper.
THEOREM RowsGoBackToStubs == PageSpec => OnlyStubsGoBack
<1>1. PageInv /\ [PageNext]_pageVars =>
        \A t \in Ids : row'[t].ver < row[t].ver => row'[t].ver = 0 /\ submit[t] = "returned"
  BY PageStep DEF OnlyStubs
<1>2. PageInv /\ [PageNext]_pageVars => PageInv'
  BY PageStep
<1> QED
  BY <1>1, <1>2, PageStart, PTL DEF PageSpec, OnlyStubsGoBack

-----------------------------------------------------------------------------
(* Panels.                                                                 *)

LevelsInMap(v) == UNION {LevelsOfLift(v, l) : l \in LiftsIn(v)}
FormLevels == {""} \cup UNION {LevelsInMap(v) : v \in DOMAIN LiftsOf}

FormRecords ==
    [showForms : BOOLEAN, offered : SUBSET FormLevels, destination : FormLevels, doorState : Int,
     requestType : Int, picked : Int]

\* The map, the window and the view, and the forms as records.
PanelShape ==
    /\ liftMap \in DOMAIN LiftsOf /\ columnCount \in Columns /\ isCellView \in BOOLEAN
    /\ liftForms \in [Places -> FormRecords]

\* The form at the place of a lift is a form, which has offered the levels of that
\* lift and holds one it offered; the other places have none.
FormAt(p) ==
    IF LiftAt(p) = NoLift THEN liftForms[p] = NoForm
    ELSE /\ liftForms[p].requestType # Null
         /\ LevelsOfLift(liftMap, LiftAt(p)) \subseteq liftForms[p].offered
         /\ liftForms[p].destination \in liftForms[p].offered \cup {""}

OneForm == \A p, q \in Places : liftForms[p].showForms /\ liftForms[q].showForms => p = q

PanelsInv ==
    /\ PanelShape /\ (\A p \in Places : FormAt(p)) /\ OneForm /\ DestinationReachable

-----------------------------------------------------------------------------
(* Division, of which the provers know the quotient and the remainder.     *)

LEMMA Quotient ==
    ASSUME NEW n \in Nat, NEW c \in Nat \ {0}
    PROVE  \E a \in Nat, b \in 0 .. c - 1 : n = a * c + b /\ a = n \div c
OBVIOUS

LEMMA RowsApart ==
    ASSUME NEW a \in Nat, NEW b \in Nat, NEW c \in Nat, a < b
    PROVE  a * c + c <= b * c
<1>1. PICK d \in Nat : b = a + 1 + d
  <2>1. b - a - 1 \in Nat /\ b = a + 1 + (b - a - 1)
    OBVIOUS
  <2> QED
    BY <2>1
<1>2. b * c = a * c + c + d * c
  BY <1>1
<1>3. d * c \in Nat /\ a * c \in Nat /\ b * c \in Nat
  OBVIOUS
<1> QED
  BY <1>2, <1>3

\* Two places with one number are one.
LEMMA OnePlace ==
    ASSUME NEW c \in Nat, NEW a \in Nat, NEW b \in Nat, NEW r \in Nat, NEW s \in Nat,
           r < c, s < c, a * c + r = b * c + s
    PROVE  a = b /\ r = s
<1>1. a * c \in Nat /\ b * c \in Nat
  OBVIOUS
<1>2. CASE a < b
  BY <1>1, <1>2, RowsApart
<1>3. CASE b < a
  BY <1>1, <1>3, RowsApart
<1>4. CASE a = b
  BY <1>1, <1>4
<1> QED
  BY <1>2, <1>3, <1>4

-----------------------------------------------------------------------------
(* What is shown at a place.                                               *)

LEMMA MapFacts ==
    ASSUME NEW v \in DOMAIN LiftsOf
    PROVE  /\ Len(LiftsOf[v]) \in Nat /\ DOMAIN LiftsOf[v] = 1 .. Len(LiftsOf[v])
           /\ \A i \in 1 .. Len(LiftsOf[v]) : LiftsOf[v][i] \in LiftsIn(v) /\ LiftsOf[v][i] # NoLift
           /\ \A i, j \in 1 .. Len(LiftsOf[v]) : LiftsOf[v][i] = LiftsOf[v][j] => i = j
<1>1. LiftsOf[v] \in Seq(Lifts)
  BY PanelsAssumption
<1>2. \A i \in DOMAIN LiftsOf[v] : LiftsOf[v][i] \in LiftsIn(v)
  BY DEF LiftsIn
<1> QED
  BY <1>1, <1>2, PanelsAssumption

LEMMA CellIsPlace ==
    ASSUME NEW v \in DOMAIN LiftsOf, NEW c \in Columns
    PROVE  (0 .. Len(LiftsOf[v])) \X (0 .. c) \subseteq Places
<1> DEFINE Cells(w, d) == (0 .. Len(LiftsOf[w])) \X (0 .. d)
<1>1. Places = UNION {Cells(w, d) : w \in DOMAIN LiftsOf, d \in Columns}
  BY DEF Places
<1> HIDE DEF Cells
<1>2. Cells(v, c) \subseteq Places
  BY <1>1
<1> QED
  BY <1>2 DEF Cells

LEMMA PlaceFacts == \A p \in Places : p = <<p[1], p[2]>> /\ p[1] \in Nat /\ p[2] \in Nat
<1> SUFFICES ASSUME NEW v \in DOMAIN LiftsOf, NEW c \in Columns,
                    NEW p \in (0 .. Len(LiftsOf[v])) \X (0 .. c)
             PROVE  p = <<p[1], p[2]>> /\ p[1] \in Nat /\ p[2] \in Nat
  BY DEF Places
<1>1. c \in Nat /\ Len(LiftsOf[v]) \in Nat
  BY MapFacts, PanelsAssumption
<1> QED
  BY <1>1

LEMMA ShownIsLift ==
    ASSUME NEW v \in DOMAIN LiftsOf, NEW c \in Columns, NEW cells \in BOOLEAN, NEW p \in Places
    PROVE  ShownAt(p, v, c, cells) \in LiftsIn(v) \cup {NoLift}
<1>1. c \in Nat /\ p[1] \in Nat /\ p[2] \in Nat
  BY PlaceFacts, PanelsAssumption
<1>2. PICK i : i = IF cells THEN p[1] * c + p[2] ELSE p[1]
  OBVIOUS
<1>3. p[1] * c \in Nat
  BY <1>1
<1>4. i \in Nat
  BY <1>1, <1>2, <1>3
<1>5. i <= Len(LiftsOf[v]) - 1 => i + 1 \in 1 .. Len(LiftsOf[v])
  BY <1>4, MapFacts
<1>6. ShownAt(p, v, c, cells) \in {NoLift} \/
          (i <= Len(LiftsOf[v]) - 1 /\ ShownAt(p, v, c, cells) = LiftsOf[v][i + 1])
  BY <1>2 DEF ShownAt
<1> QED
  BY <1>5, <1>6, MapFacts DEF LiftsIn

LEMMA TableHasNoColumns ==
    ASSUME NEW v, NEW c, NEW d, NEW p
    PROVE  ShownAt(p, v, c, FALSE) = ShownAt(p, v, d, FALSE)
BY DEF ShownAt

\* The place of the i-th lift.
LEMMA LiftHasAPlace ==
    ASSUME NEW v \in DOMAIN LiftsOf, NEW c \in Columns, NEW cells \in BOOLEAN,
           cells => c > 0, NEW i \in 1 .. Len(LiftsOf[v])
    PROVE  \E p \in Places : \A q \in Places :
               ShownAt(q, v, c, cells) = LiftsOf[v][i] <=> q = p
<1> DEFINE n == Len(LiftsOf[v])
<1>1. n \in Nat /\ c \in Nat /\ i \in Nat /\ i - 1 \in Nat /\ i <= n
  BY MapFacts, PanelsAssumption
<1>2. CASE ~cells
  <2>1. <<i - 1, 0>> \in Places
    <3>1. <<i - 1, 0>> \in (0 .. Len(LiftsOf[v])) \X (0 .. c)
      BY <1>1
    <3> QED
      BY <3>1, CellIsPlace
  <2>2. ASSUME NEW q \in Places
        PROVE  ShownAt(q, v, c, cells) = LiftsOf[v][i] <=> q = <<i - 1, 0>>
    <3>1. q = <<q[1], q[2]>> /\ q[1] \in Nat /\ q[2] \in Nat
      BY PlaceFacts
    <3>2. ShownAt(q, v, c, cells) =
              IF q[2] = 0 /\ q[1] <= n - 1 THEN LiftsOf[v][q[1] + 1] ELSE NoLift
      BY <1>2 DEF ShownAt
    <3>3. ASSUME q[2] = 0, q[1] <= n - 1
          PROVE  LiftsOf[v][q[1] + 1] = LiftsOf[v][i] <=> q[1] = i - 1
      <4>1. q[1] + 1 \in 1 .. n
        BY <1>1, <3>1, <3>3
      <4>2. LiftsOf[v][q[1] + 1] = LiftsOf[v][i] <=> q[1] + 1 = i
        BY <4>1, MapFacts
      <4> QED
        BY <1>1, <3>1, <4>2
    <3>4. LiftsOf[v][i] # NoLift
      BY MapFacts
    <3>5. i - 1 <= n - 1
      BY <1>1
    <3>6. q = <<i - 1, 0>> <=> q[1] = i - 1 /\ q[2] = 0
      BY <3>1
    <3> QED
      BY <3>2, <3>3, <3>4, <3>5, <3>6
  <2> QED
    BY <2>1, <2>2
<1>3. CASE cells
  <2>1. c \in Nat \ {0}
    BY <1>1, <1>3
  <2>2. PICK a \in Nat, b \in 0 .. c - 1 : i - 1 = a * c + b
    BY <1>1, <2>1, Quotient
  <2>3. PICK r \in Nat, s \in 0 .. c - 1 : n + c - 1 = r * c + s /\ r = (n + c - 1) \div c
    <3>1. n + c - 1 \in Nat
      BY <1>1, <2>1
    <3> QED
      BY <2>1, <3>1, Quotient
  <2>4. RowCount(n, c) = r
    BY <2>1, <2>3 DEF RowCount
  <2>5. a * c \in Nat /\ r * c \in Nat /\ b \in Nat /\ b < c /\ s \in Nat /\ s < c
    BY <2>1
  <2>6. a < r
    <3>1. CASE r = a
      BY <1>1, <2>1, <2>2, <2>3, <2>5, <3>1
    <3>2. CASE r < a
      <4>1. r * c + c <= a * c
        BY <1>1, <3>2, RowsApart
      <4> QED
        BY <1>1, <2>2, <2>3, <2>5, <4>1
    <3> QED
      BY <3>1, <3>2
  <2>7. a <= i - 1
    <3>1. CASE a = 0
      BY <1>1, <3>1
    <3>2. CASE a > 0
      <4>1. 0 * c + c <= a * c
        BY <1>1, <3>2, RowsApart
      <4>2. PICK d \in Nat : c = d + 1
        <5>1. c - 1 \in Nat /\ c = (c - 1) + 1
          BY <2>1
        <5> QED
          BY <5>1
      <4>3. a * c = a * d + a /\ a * d \in Nat
        BY <4>2
      <4> QED
        BY <2>2, <2>5, <4>3
    <3> QED
      BY <3>1, <3>2
  <2>8. <<a, b>> \in Places
    <3>1. <<a, b>> \in (0 .. Len(LiftsOf[v])) \X (0 .. c)
      BY <1>1, <2>5, <2>7
    <3> QED
      BY <3>1, CellIsPlace
  <2>9. ASSUME NEW q \in Places
        PROVE  ShownAt(q, v, c, cells) = LiftsOf[v][i] <=> q = <<a, b>>
    <3>1. q = <<q[1], q[2]>> /\ q[1] \in Nat /\ q[2] \in Nat
      BY PlaceFacts
    <3>2. PICK k : k = q[1] * c + q[2]
      OBVIOUS
    <3>3. k \in Nat
      <4>1. q[1] * c \in Nat
        BY <1>1, <3>1
      <4> QED
        BY <3>1, <3>2, <4>1
    <3>4. ShownAt(q, v, c, cells) =
              IF (q[1] < r /\ q[2] < c) /\ k <= n - 1 THEN LiftsOf[v][k + 1] ELSE NoLift
      BY <1>3, <2>4, <3>2 DEF ShownAt
    <3>5. ASSUME q[2] < c, k <= n - 1
          PROVE  LiftsOf[v][k + 1] = LiftsOf[v][i] <=> q[1] = a /\ q[2] = b
      <4>1. k + 1 \in 1 .. n
        BY <1>1, <3>3, <3>5
      <4>2. LiftsOf[v][k + 1] = LiftsOf[v][i] <=> k + 1 = i
        BY <4>1, MapFacts
      <4>3. k + 1 = i <=> q[1] * c + q[2] = a * c + b
        BY <1>1, <2>2, <3>2, <3>3
      <4>4. q[1] * c + q[2] = a * c + b => q[1] = a /\ q[2] = b
        <5>1. PICK x \in Nat, y \in Nat : x = q[1] /\ y = q[2]
          BY <3>1
        <5>2. y < c
          BY <3>5, <5>1
        <5>3. x * c + y = a * c + b => x = a /\ y = b
          BY <1>1, <2>5, <5>2, OnePlace
        <5> QED
          BY <5>1, <5>3
      <4> QED
        BY <4>2, <4>3, <4>4
    <3>6. LiftsOf[v][i] # NoLift
      BY MapFacts
    <3>7. q[1] = a /\ q[2] = b => k <= n - 1 /\ q[1] < r /\ q[2] < c
      BY <1>1, <2>2, <2>5, <2>6, <3>2
    <3>8. q = <<a, b>> <=> q[1] = a /\ q[2] = b
      BY <3>1
    <3> QED
      BY <3>4, <3>5, <3>6, <3>7, <3>8
  <2> QED
    BY <2>8, <2>9
<1> QED
  BY <1>2, <1>3

\* Every lift has its place, which is the only one, in a panel that is as wide as
\* a column.
LEMMA EachLiftOnce == ASSUME PanelShape PROVE EveryLiftOnce
<1> SUFFICES ASSUME isCellView => columnCount > 0, NEW i \in DOMAIN LiftsOf[liftMap]
             PROVE  Cardinality({p \in Places : LiftAt(p) = LiftsOf[liftMap][i]}) = 1
  BY DEF EveryLiftOnce
<1>1. /\ liftMap \in DOMAIN LiftsOf /\ columnCount \in Columns /\ isCellView \in BOOLEAN
      /\ i \in 1 .. Len(LiftsOf[liftMap])
  BY MapFacts DEF PanelShape
<1>2. PICK p \in Places :
          \A q \in Places : LiftAt(q) = LiftsOf[liftMap][i] <=> q = p
  BY <1>1, LiftHasAPlace DEF LiftAt
<1>3. {q \in Places : LiftAt(q) = LiftsOf[liftMap][i]} = {p}
  BY <1>2
<1> QED
  BY <1>3, FS_Singleton

-----------------------------------------------------------------------------
(* The forms.                                                              *)

LEMMA LevelsAreLevels ==
    ASSUME NEW v \in DOMAIN LiftsOf, NEW l \in LiftsIn(v)
    PROVE  LevelsOfLift(v, l) \in SUBSET FormLevels /\ "" \in FormLevels
<1>1. LevelsInMap(v) \subseteq FormLevels
  BY DEF FormLevels
<1>2. LevelsOfLift(v, l) \subseteq LevelsInMap(v)
  BY DEF LevelsInMap
<1> QED
  BY <1>1, <1>2 DEF FormLevels

LEMMA CleanFormFacts ==
    ASSUME NEW v \in DOMAIN LiftsOf, NEW l \in LiftsIn(v)
    PROVE  /\ CleanForm(v, l) \in FormRecords
           /\ CleanForm(v, l).requestType # Null /\ ~CleanForm(v, l).showForms
           /\ CleanForm(v, l).offered = LevelsOfLift(v, l)
           /\ CleanForm(v, l).destination \in LevelsOfLift(v, l)
           /\ CleanForm(v, l) # NoForm
<1>1. LiftLevels[v][l][1] \in LevelsOfLift(v, l)
  BY PanelsAssumption
<1>2. LiftLevels[v][l][1] \in FormLevels /\ LevelsOfLift(v, l) \in SUBSET FormLevels
  BY <1>1, LevelsAreLevels
<1>3. DoorModes[1] = 2 /\ RequestModes[1] = 1 /\ Null = 0 - 1
  BY DEF DoorModes, RequestModes, AGV, Null
<1>4. CleanForm(v, l) =
          [showForms |-> FALSE, offered |-> LevelsOfLift(v, l), destination |-> LiftLevels[v][l][1],
           doorState |-> 2, requestType |-> 1, picked |-> 1]
  BY <1>3 DEF CleanForm
<1>5. CleanForm(v, l).requestType = 1 /\ NoForm.requestType = 0 - 1
  BY <1>3, <1>4 DEF NoForm
<1> QED
  BY <1>1, <1>2, <1>3, <1>4, <1>5 DEF FormRecords

LEMMA NoFormFacts ==
    /\ NoForm \in FormRecords
    /\ NoForm.requestType = Null /\ ~NoForm.showForms
<1>1. "" \in FormLevels
  BY DEF FormLevels
<1>2. Null = 0 - 1 /\ Null \in Int
  BY DEF Null
<1>3. NoForm = [showForms |-> FALSE, offered |-> {}, destination |-> "", doorState |-> Null,
                requestType |-> Null, picked |-> Null]
  BY DEF NoForm
<1> QED
  BY <1>1, <1>2, <1>3 DEF FormRecords

\* The forms of a panel that is mounted.
LEMMA CleanFormsFacts ==
    ASSUME NEW v \in DOMAIN LiftsOf, NEW c \in Columns, NEW cells \in BOOLEAN,
           liftMap' = v, columnCount' = c, isCellView' = cells,
           liftForms' = CleanForms(v, c, cells)
    PROVE  PanelShape' /\ (\A p \in Places : FormAt(p)') /\ OneForm'
<1>1. ASSUME NEW p \in Places
      PROVE  /\ liftForms'[p] \in FormRecords
             /\ ~liftForms'[p].showForms /\ FormAt(p)'
  <2>1. PICK l \in LiftsIn(v) \cup {NoLift} : l = ShownAt(p, v, c, cells)
    BY ShownIsLift
  <2>2. liftForms'[p] = IF l = NoLift THEN NoForm ELSE CleanForm(v, l)
    BY <2>1 DEF CleanForms
  <2>3. LiftAt(p)' = l
    BY <2>1 DEF LiftAt
  <2>4. CASE l = NoLift
    BY <2>2, <2>3, <2>4, NoFormFacts DEF FormAt
  <2>5. CASE l # NoLift
    BY <2>1, <2>2, <2>3, <2>5, CleanFormFacts DEF FormAt
  <2> QED
    BY <2>4, <2>5
<1>2. liftForms' = [p \in Places |-> liftForms'[p]]
  BY DEF CleanForms
<1>3. PanelShape'
  BY <1>1, <1>2 DEF PanelShape
<1> QED
  BY <1>1, <1>3 DEF OneForm

\* The forms after a render: React keeps the form of a place while a lift is
\* shown there.
LEMMA RenderedFacts ==
    ASSUME PanelsInv, NEW v \in DOMAIN LiftsOf, NEW c \in Columns,
           liftMap' = v, columnCount' = c, UNCHANGED isCellView,
           liftForms' = Rendered(v, c, isCellView)
    PROVE  PanelShape' /\ (\A p \in Places : FormAt(p)') /\ OneForm'
<1> USE DEF PanelsInv
<1>1. ASSUME NEW p \in Places
      PROVE  /\ liftForms'[p] \in FormRecords
             /\ liftForms'[p].showForms => liftForms[p].showForms
             /\ FormAt(p)'
  <2>1. PICK l \in LiftsIn(v) \cup {NoLift} : l = ShownAt(p, v, c, isCellView)
    BY ShownIsLift DEF PanelShape
  <2>2. PICK f : f = liftForms[p]
    OBVIOUS
  <2>3. f \in FormRecords
    BY <2>2 DEF PanelShape
  <2>4. LiftAt(p)' = l
    BY <2>1 DEF LiftAt
  <2>5. CleanForms(v, c, isCellView)[p] = IF l = NoLift THEN NoForm ELSE CleanForm(v, l)
    BY <2>1 DEF CleanForms
  <2>6. liftForms'[p] =
            IF l = NoLift \/ f = NoForm THEN CleanForms(v, c, isCellView)[p]
            ELSE [f EXCEPT !.offered = @ \cup LevelsOfLift(v, l)]
    BY <2>1, <2>2 DEF Rendered
  <2>7. CASE l = NoLift
    BY <2>4, <2>5, <2>6, <2>7, NoFormFacts DEF FormAt
  <2>8. CASE l # NoLift /\ f = NoForm
    BY <2>1, <2>4, <2>5, <2>6, <2>8, CleanFormFacts DEF FormAt
  <2>9. CASE l # NoLift /\ f # NoForm
    <3>1. PICK g : g = [f EXCEPT !.offered = @ \cup LevelsOfLift(v, l)]
      OBVIOUS
    <3>2. g = [showForms |-> f.showForms, offered |-> f.offered \cup LevelsOfLift(v, l),
               destination |-> f.destination, doorState |-> f.doorState,
               requestType |-> f.requestType, picked |-> f.picked]
      BY <2>3, <3>1 DEF FormRecords
    <3>3. liftForms'[p] = g
      BY <2>6, <2>9, <3>1
    <3>4. LiftAt(p) # NoLift
      BY <2>2, <2>9 DEF FormAt
    <3>5. f.requestType # Null /\ f.destination \in f.offered \cup {""}
      BY <2>2, <3>4 DEF FormAt
    <3>6. g \in FormRecords
      <4>1. LevelsOfLift(v, l) \in SUBSET FormLevels
        BY <2>9, LevelsAreLevels
      <4> QED
        BY <2>3, <3>2, <4>1 DEF FormRecords
    <3>7. /\ g.requestType # Null
          /\ LevelsOfLift(v, l) \subseteq g.offered
          /\ g.destination \in g.offered \cup {""}
          /\ g.showForms = f.showForms
      BY <3>2, <3>5
    <3> QED
      BY <2>2, <2>4, <2>9, <3>3, <3>6, <3>7 DEF FormAt
  <2> QED
    BY <2>7, <2>8, <2>9
<1>2. liftForms' = [p \in Places |-> liftForms'[p]]
  BY DEF Rendered
<1>3. PanelShape'
  BY <1>1, <1>2 DEF PanelShape
<1>4. OneForm'
  BY <1>1 DEF OneForm
<1> QED
  BY <1>1, <1>3, <1>4

\* A handler of one form.
LEMMA HandlerFacts ==
    ASSUME PanelsInv, NEW p \in Places, NEW g,
           g \in FormRecords,
           liftForms' = [liftForms EXCEPT ![p] = g],
           UNCHANGED <<liftMap, columnCount, isCellView>>,
           LiftAt(p) # NoLift, g.requestType # Null,
           LevelsOfLift(liftMap, LiftAt(p)) \subseteq g.offered,
           g.destination \in g.offered \cup {""},
           g.showForms => \A q \in Places : q # p => ~liftForms[q].showForms
    PROVE  PanelShape' /\ (\A q \in Places : FormAt(q)') /\ OneForm'
<1> USE DEF PanelsInv
<1>1. liftForms'[p] = g /\ \A q \in Places : q # p => liftForms'[q] = liftForms[q]
  BY DEF PanelShape
<1>2. PanelShape'
  BY DEF PanelShape
<1>3. ASSUME NEW q \in Places PROVE FormAt(q)'
  <2>1. LiftAt(q)' = LiftAt(q)
    BY DEF LiftAt
  <2>2. CASE q = p
    BY <1>1, <2>1, <2>2 DEF FormAt
  <2>3. CASE q # p
    BY <1>1, <2>1, <2>3 DEF FormAt
  <2> QED
    BY <2>2, <2>3
<1>4. OneForm'
  BY <1>1, ZenonT(30) DEF OneForm
<1> QED
  BY <1>2, <1>3, <1>4

\* What is sent stays sent, and is sound when it is sent.
LEMMA RequestStays ==
    ASSUME DestinationReachable, UNCHANGED liftRequest PROVE DestinationReachable'
BY DEF DestinationReachable

-----------------------------------------------------------------------------
(* The steps.                                                              *)

LEMMA PanelStep == ASSUME PanelsInv, [PanelsNext]_panelVars PROVE PanelsInv'
<1> USE DEF PanelsInv
<1>1. CASE ResizePanel
  <2>1. /\ columnCount' \in Columns /\ UNCHANGED <<liftMap, isCellView, liftRequest>>
        /\ liftMap \in DOMAIN LiftsOf /\ isCellView \in BOOLEAN
    BY <1>1 DEF ResizePanel, PanelShape
  <2>2. CASE isCellView
    <3>1. liftForms' = Rendered(liftMap, columnCount', isCellView)
      BY <1>1, <2>2, isCellView = TRUE DEF ResizePanel
    <3> QED
      BY <2>1, <3>1, RenderedFacts, RequestStays
  <2>3. CASE ~isCellView
    <3>1. UNCHANGED liftForms /\ isCellView = FALSE
      BY <1>1, <2>1, <2>3 DEF ResizePanel
    <3>2. \A p : LiftAt(p)' = LiftAt(p)
      BY <2>1, <3>1, TableHasNoColumns DEF LiftAt
    <3>3. \A p \in Places : FormAt(p)'
      BY <2>1, <3>1, <3>2 DEF FormAt
    <3> QED
      BY <2>1, <3>1, <3>3, RequestStays DEF PanelShape, OneForm
  <2> QED
    BY <2>2, <2>3
<1>2. CASE NewLiftMap
  <2>1. /\ liftMap' \in DOMAIN LiftsOf /\ columnCount \in Columns
        /\ UNCHANGED <<columnCount, isCellView, liftRequest>>
        /\ liftForms' = Rendered(liftMap', columnCount, isCellView)
    BY <1>2 DEF NewLiftMap, PanelShape
  <2> QED
    BY <2>1, RenderedFacts, RequestStays
<1>3. CASE ToggleLiftView
  <2>1. /\ liftMap \in DOMAIN LiftsOf /\ columnCount \in Columns /\ isCellView' \in BOOLEAN
        /\ UNCHANGED <<liftMap, columnCount, liftRequest>>
        /\ liftForms' = CleanForms(liftMap, columnCount, isCellView')
    BY <1>3 DEF ToggleLiftView, PanelShape
  <2> QED
    BY <2>1, CleanFormsFacts, RequestStays
<1>4. CASE OpenLiftForm
  <2>1. PICK p \in Places :
            /\ LiftAt(p) # NoLift /\ liftForms' = [liftForms EXCEPT ![p].showForms = TRUE]
    BY <1>4 DEF OpenLiftForm
  <2>2. /\ \A q \in Places : ~liftForms[q].showForms
        /\ UNCHANGED <<liftMap, columnCount, isCellView, liftRequest>>
    BY <1>4 DEF OpenLiftForm
  <2>3. PICK f : f = liftForms[p]
    OBVIOUS
  <2>4. f \in FormRecords
    BY <2>3 DEF PanelShape
  <2>5. PICK g : g = [f EXCEPT !.showForms = TRUE]
    OBVIOUS
  <2>. g = [showForms |-> TRUE, offered |-> f.offered,
                      destination |-> f.destination, doorState |-> f.doorState,
                      requestType |-> f.requestType, picked |-> f.picked]
    BY <2>4, <2>5 DEF FormRecords
  <2>6. liftForms' = [liftForms EXCEPT ![p] = g]
    BY <2>1, <2>3, <2>5
  <2>7. /\ f.requestType # Null /\ LevelsOfLift(liftMap, LiftAt(p)) \subseteq f.offered
        /\ f.destination \in f.offered \cup {""}
    BY <2>1, <2>3 DEF FormAt
  <2>8. g \in FormRecords
    BY <2>4, <2>5 DEF FormRecords
  <2>9. /\ g.requestType # Null
        /\ LevelsOfLift(liftMap, LiftAt(p)) \subseteq g.offered /\ g.destination \in g.offered \cup {""}
    BY <2>5, <2>7
  <2> QED
    BY <2>1, <2>2, <2>6, <2>8, <2>9, HandlerFacts, RequestStays
<1>5. CASE PickInForm
  <2>1. UNCHANGED <<liftMap, columnCount, isCellView, liftRequest>>
    BY <1>5 DEF PickInForm
  <2>2. PICK p \in Places :
            /\ liftForms[p].showForms
            /\ \/ \E d \in LevelsOfLift(liftMap, LiftAt(p)) \cup {""} :
                     liftForms' = [liftForms EXCEPT ![p].destination = d]
               \/ \E m \in {DoorModes[1], DoorModes[2], Null} :
                     liftForms' = [liftForms EXCEPT ![p].doorState = m]
               \/ \E t \in {AGV, HUMAN, END_SESSION, Null} :
                     liftForms' = [liftForms EXCEPT ![p].requestType = TypeOr(t), ![p].picked = t]
    BY <1>5 DEF PickInForm
  <2>3. PICK f : f = liftForms[p]
    OBVIOUS
  <2>4. f \in FormRecords
    BY <2>3 DEF PanelShape
  <2>5. f.showForms /\ LiftAt(p) # NoLift
    BY <2>2, <2>3, NoFormFacts DEF FormAt
  <2>6. /\ f.requestType # Null /\ LevelsOfLift(liftMap, LiftAt(p)) \subseteq f.offered
        /\ f.destination \in f.offered \cup {""}
    BY <2>3, <2>5 DEF FormAt
  <2>7. \A q \in Places : q # p => ~liftForms[q].showForms
    BY <2>2 DEF OneForm
  <2>8. \E g : /\ g \in FormRecords
               /\ liftForms' = [liftForms EXCEPT ![p] = g]
               /\ g.requestType # Null
               /\ LevelsOfLift(liftMap, LiftAt(p)) \subseteq g.offered /\ g.destination \in g.offered \cup {""}
    <3>1. ASSUME NEW d \in LevelsOfLift(liftMap, LiftAt(p)) \cup {""},
                 liftForms' = [liftForms EXCEPT ![p].destination = d]
          PROVE  <2>8!:
      <4>1. PICK g : g = [f EXCEPT !.destination = d]
        OBVIOUS
      <4>. g = [showForms |-> f.showForms, offered |-> f.offered,
                          destination |-> d, doorState |-> f.doorState,
                          requestType |-> f.requestType, picked |-> f.picked]
        BY <2>4, <4>1 DEF FormRecords
      <4>2. d \in FormLevels
        <5>1. liftMap \in DOMAIN LiftsOf /\ LiftAt(p) \in LiftsIn(liftMap)
          BY <2>5, ShownIsLift DEF LiftAt, PanelShape
        <5>2. LevelsOfLift(liftMap, LiftAt(p)) \in SUBSET FormLevels /\ "" \in FormLevels
          BY <5>1, LevelsAreLevels
        <5> QED
          BY <3>1, <5>2
      <4>3. liftForms' = [liftForms EXCEPT ![p] = g]
        BY <2>3, <3>1, <4>1
      <4>5. g \in FormRecords
        BY <2>4, <4>1, <4>2 DEF FormRecords
      <4>6. /\ g.requestType # Null
            /\ LevelsOfLift(liftMap, LiftAt(p)) \subseteq g.offered /\ g.destination \in g.offered \cup {""}
        BY <2>6, <4>1, <4>2
      <4> QED
        BY <4>3, <4>5, <4>6
    <3>2. ASSUME NEW m \in {DoorModes[1], DoorModes[2], Null},
                 liftForms' = [liftForms EXCEPT ![p].doorState = m]
          PROVE  <2>8!:
      <4>1. PICK g : g = [f EXCEPT !.doorState = m]
        OBVIOUS
      <4>. g = [showForms |-> f.showForms, offered |-> f.offered,
                          destination |-> f.destination, doorState |-> m,
                          requestType |-> f.requestType, picked |-> f.picked]
        BY <2>4, <4>1 DEF FormRecords
      <4>2. m \in Int
        BY DEF DoorModes, Null
      <4>3. liftForms' = [liftForms EXCEPT ![p] = g]
        BY <2>3, <3>2, <4>1
      <4>5. g \in FormRecords
        BY <2>4, <4>1, <4>2 DEF FormRecords
      <4>6. /\ g.requestType # Null
            /\ LevelsOfLift(liftMap, LiftAt(p)) \subseteq g.offered /\ g.destination \in g.offered \cup {""}
        BY <2>6, <4>1, <4>2
      <4> QED
        BY <4>3, <4>5, <4>6
    <3>3. ASSUME NEW t \in {AGV, HUMAN, END_SESSION, Null},
                 liftForms' = [liftForms EXCEPT ![p].requestType = TypeOr(t), ![p].picked = t]
          PROVE  <2>8!:
      <4>1. PICK u : u = TypeOr(t)
        OBVIOUS
      <4>2. t \in Int /\ u \in Int /\ u # Null
        BY <4>1 DEF TypeOr, RequestModes, AGV, HUMAN, END_SESSION, Null
      <4>3. PICK g : g = [f EXCEPT !.requestType = u, !.picked = t]
        OBVIOUS
      <4>. g = [showForms |-> f.showForms, offered |-> f.offered,
                          destination |-> f.destination, doorState |-> f.doorState,
                          requestType |-> u, picked |-> t]
        BY <2>4, <4>3 DEF FormRecords
      <4>4. liftForms' = [liftForms EXCEPT ![p] = g]
        BY <2>3, <3>3, <4>1, <4>3
      <4>5. g \in FormRecords
        BY <2>4, <4>3, <4>2 DEF FormRecords
      <4>6. /\ g.requestType # Null
            /\ LevelsOfLift(liftMap, LiftAt(p)) \subseteq g.offered /\ g.destination \in g.offered \cup {""}
        BY <2>6, <4>3, <4>2
      <4> QED
        BY <4>4, <4>5, <4>6
    <3> QED
      BY <2>2, <3>1, <3>2, <3>3
  <2> QED
    BY <2>1, <2>5, <2>7, <2>8, HandlerFacts, RequestStays
<1>6. CASE CancelLiftForm
  <2>1. PICK p \in Places :
            liftForms[p].showForms /\ liftForms' = [liftForms EXCEPT ![p].showForms = FALSE]
    BY <1>6 DEF CancelLiftForm
  <2>2. UNCHANGED <<liftMap, columnCount, isCellView, liftRequest>>
    BY <1>6 DEF CancelLiftForm
  <2>3. PICK f : f = liftForms[p]
    OBVIOUS
  <2>4. f \in FormRecords
    BY <2>3 DEF PanelShape
  <2>5. PICK g : g = [f EXCEPT !.showForms = FALSE]
    OBVIOUS
  <2>. g = [showForms |-> FALSE, offered |-> f.offered,
                      destination |-> f.destination, doorState |-> f.doorState,
                      requestType |-> f.requestType, picked |-> f.picked]
    BY <2>4, <2>5 DEF FormRecords
  <2>6. liftForms' = [liftForms EXCEPT ![p] = g]
    BY <2>1, <2>3, <2>5
  <2>7. LiftAt(p) # NoLift
    BY <2>1, NoFormFacts DEF FormAt
  <2>8. /\ f.requestType # Null /\ LevelsOfLift(liftMap, LiftAt(p)) \subseteq f.offered
        /\ f.destination \in f.offered \cup {""}
    BY <2>3, <2>7 DEF FormAt
  <2>9. g \in FormRecords
    BY <2>4, <2>5 DEF FormRecords
  <2>10. /\ g.requestType # Null /\ ~g.showForms
         /\ LevelsOfLift(liftMap, LiftAt(p)) \subseteq g.offered /\ g.destination \in g.offered \cup {""}
    BY <2>5, <2>8
  <2> QED
    BY <2>2, <2>6, <2>7, <2>9, <2>10, HandlerFacts, RequestStays
<1>7. CASE SubmitLift
  <2>1. PICK p \in Places :
            /\ liftForms[p].showForms /\ liftForms[p].destination # ""
            /\ liftForms' = [liftForms EXCEPT ![p] = CleanedUp(p)]
            /\ IF liftForms[p].doorState = Null THEN UNCHANGED liftRequest
               ELSE liftRequest' = [lift |-> LiftAt(p), form |-> liftForms[p]]
    BY <1>7 DEF SubmitLift
  <2>2. UNCHANGED <<liftMap, columnCount, isCellView>>
    BY <1>7 DEF SubmitLift
  <2>3. LiftAt(p) # NoLift
    BY <2>1, NoFormFacts DEF FormAt
  <2>4. liftMap \in DOMAIN LiftsOf /\ LiftAt(p) \in LiftsIn(liftMap)
    BY <2>3, ShownIsLift DEF LiftAt, PanelShape
  <2>5. PICK g : g = CleanForm(liftMap, LiftAt(p))
    OBVIOUS
  <2>6. PanelShape' /\ (\A q \in Places : FormAt(q)') /\ OneForm'
    <3>1. /\ g \in FormRecords /\ g.requestType # Null /\ ~g.showForms
          /\ g.offered = LevelsOfLift(liftMap, LiftAt(p)) /\ g.destination \in g.offered
      BY <2>4, <2>5, CleanFormFacts
    <3>2. liftForms' = [liftForms EXCEPT ![p] = g]
      BY <2>1, <2>5 DEF CleanedUp
    <3> QED
      BY <2>2, <2>3, <3>1, <3>2, HandlerFacts
  <2>7. liftForms[p].destination \in liftForms[p].offered
    BY <2>1, <2>3 DEF FormAt
  <2>8. DestinationReachable'
    <3>1. CASE UNCHANGED liftRequest
      BY <3>1, RequestStays
    <3>2. CASE liftRequest' = [lift |-> LiftAt(p), form |-> liftForms[p]]
      BY <2>7, <3>2 DEF DestinationReachable
    <3> QED
      BY <2>1, <3>1, <3>2
  <2> QED
    BY <2>6, <2>8
<1>8. CASE UNCHANGED panelVars
  <2>1. \A p : LiftAt(p)' = LiftAt(p)
    BY <1>8 DEF panelVars, LiftAt
  <2> QED
    BY <1>8, <2>1 DEF panelVars, PanelShape, FormAt, OneForm, DestinationReachable
<1> QED
  BY <1>1, <1>2, <1>3, <1>4, <1>5, <1>6, <1>7, <1>8 DEF PanelsNext

LEMMA PanelsStart == PanelsInit => PanelsInv
<1> SUFFICES ASSUME PanelsInit PROVE PanelsInv
  OBVIOUS
<1> USE DEF PanelsInit
<1>1. 1 \in DOMAIN LiftsOf
  BY PanelsAssumption
<1>2. ASSUME NEW p \in Places
      PROVE  /\ liftForms[p] \in FormRecords
             /\ ~liftForms[p].showForms /\ FormAt(p)
  <2>1. PICK l \in LiftsIn(1) \cup {NoLift} : l = ShownAt(p, 1, columnCount, TRUE)
    BY <1>1, ShownIsLift
  <2>2. liftForms[p] = IF l = NoLift THEN NoForm ELSE CleanForm(1, l)
    BY <2>1 DEF CleanForms
  <2>3. LiftAt(p) = l
    BY <2>1 DEF LiftAt
  <2>4. CASE l = NoLift
    BY <2>2, <2>3, <2>4, NoFormFacts DEF FormAt
  <2>5. CASE l # NoLift
    <3>1. liftMap = 1 /\ l \in LiftsIn(1)
      BY <2>1, <2>5
    <3>2. /\ CleanForm(1, l) \in FormRecords /\ ~CleanForm(1, l).showForms
          /\ CleanForm(1, l).requestType # Null
          /\ CleanForm(1, l).offered = LevelsOfLift(1, l)
          /\ CleanForm(1, l).destination \in LevelsOfLift(1, l)
      BY <1>1, <3>1, CleanFormFacts
    <3> QED
      BY <2>2, <2>3, <2>5, <3>1, <3>2 DEF FormAt
  <2> QED
    BY <2>4, <2>5
<1>3. liftForms = [p \in Places |-> liftForms[p]]
  BY DEF CleanForms
<1>4. PanelShape
  BY <1>1, <1>2, <1>3 DEF PanelShape
<1> QED
  BY <1>2, <1>4 DEF PanelsInv, OneForm, DestinationReachable

\* lift-panel.tsx, lift-table.tsx and lift-request-form-dialog.tsx: a form is
\* where a lift is, and one at most is open, for any building maps and widths.
THEOREM PanelsTypeCorrect == PanelsSpec => []PanelsTypeOK
<1>1. PanelsInv => PanelsTypeOK
  <2> SUFFICES ASSUME PanelsInv, NEW p \in Places
               PROVE  (liftForms[p] = NoForm) = (LiftAt(p) = NoLift)
    BY DEF PanelsTypeOK, PanelsInv, OneForm
  <2> QED
    BY NoFormFacts DEF PanelsInv, FormAt
<1> QED
  BY <1>1, PanelsStart, PanelStep, PTL DEF PanelsSpec

\* Each lift has its place in the panel, which is the only one, and is sent to a
\* level that the form at this place offered since it was mounted or last used.
THEOREM LiftsStayReachable == PanelsSpec => []LiftsAreReachable
<1>1. PanelsInv => LiftsAreReachable
  BY EachLiftOnce DEF PanelsInv, LiftsAreReachable
<1> QED
  BY <1>1, PanelsStart, PanelStep, PTL DEF PanelsSpec

-----------------------------------------------------------------------------
(* Labels.                                                                 *)

IntBoxes == [minX : Int, minY : Int, maxX : Int, maxY : Int]
LabelBoxes == {b \in IntBoxes : Shape(b)}

\* The tables of the labels, and that only labels that are shown wait or are
\* cramped.
LabelTables ==
    /\ source \in [Labels -> Nat \X Nat]
    /\ scaleOf \in [Labels -> Scales] /\ zoom \in Scales
    /\ entity \in [Labels -> LabelBoxes \cup {NoBox}]
    /\ location \in [Labels -> LabelBoxes \cup {NoBox}]
    /\ shownLabels \subseteq Labels /\ cramped \subseteq shownLabels
    /\ toPlace \in Seq(shownLabels)

\* A label that is shown, found room and does not wait is drawn at its entity.
DrawnAtEntity ==
    \A l \in shownLabels \ cramped :
        l \notin Elems(toPlace) => entity[l] # NoBox /\ location[l] = entity[l]

LabelsInv == LabelTables /\ EntitiesApart /\ HiddenTakesNoRoom /\ DrawnAtEntity

-----------------------------------------------------------------------------
\* A box moved by as much on both ends of an axis keeps its size.
LEMMA AsideKeepsShape ==
    ASSUME NEW b \in LabelBoxes, NEW c \in IntBoxes
    PROVE  Aside(b, c) \subseteq LabelBoxes
<1> USE LabelsAssumption DEF LabelsAssumption
<1>1. /\ b \in IntBoxes /\ b.minX \in Int /\ b.minY \in Int /\ b.maxX \in Int /\ b.maxY \in Int
      /\ b.maxX - b.minX = LabelWidth /\ b.maxY - b.minY = LabelHeight
  BY DEF LabelBoxes, IntBoxes, Shape
<1>2. c.minX \in Int /\ c.minY \in Int /\ c.maxX \in Int /\ c.maxY \in Int
  BY DEF IntBoxes
<1>3. ASSUME NEW x \in Int, NEW y \in Int, y - x = LabelWidth
      PROVE  [b EXCEPT !.minX = x, !.maxX = y] \in LabelBoxes
  BY <1>1, <1>3 DEF LabelBoxes, IntBoxes, Shape
<1>4. ASSUME NEW x \in Int, NEW y \in Int, y - x = LabelHeight
      PROVE  [b EXCEPT !.minY = x, !.maxY = y] \in LabelBoxes
  BY <1>1, <1>4 DEF LabelBoxes, IntBoxes, Shape
<1>5. [b EXCEPT !.minX = b.minX - (b.maxX - c.minX + 1), !.maxX = c.minX - 1] \in LabelBoxes
  <2>1. PICK x \in Int : x = b.minX - (b.maxX - c.minX + 1)
    BY <1>1, <1>2
  <2>2. PICK y \in Int : y = c.minX - 1
    BY <1>1, <1>2
  <2>3. y - x = LabelWidth
    BY <1>1, <1>2, <2>1, <2>2
  <2> QED
    BY <1>3, <2>1, <2>2, <2>3
<1>6. [b EXCEPT !.minX = c.maxX + 1, !.maxX = b.maxX + (c.maxX - b.minX + 1)] \in LabelBoxes
  <2>1. PICK x \in Int : x = c.maxX + 1
    BY <1>1, <1>2
  <2>2. PICK y \in Int : y = b.maxX + (c.maxX - b.minX + 1)
    BY <1>1, <1>2
  <2>3. y - x = LabelWidth
    BY <1>1, <1>2, <2>1, <2>2
  <2> QED
    BY <1>3, <2>1, <2>2, <2>3
<1>7. [b EXCEPT !.minY = b.minY - (b.maxY - c.minY + 1), !.maxY = c.minY - 1] \in LabelBoxes
  <2>1. PICK x \in Int : x = b.minY - (b.maxY - c.minY + 1)
    BY <1>1, <1>2
  <2>2. PICK y \in Int : y = c.minY - 1
    BY <1>1, <1>2
  <2>3. y - x = LabelHeight
    BY <1>1, <1>2, <2>1, <2>2
  <2> QED
    BY <1>4, <2>1, <2>2, <2>3
<1>8. [b EXCEPT !.minY = c.maxY + 1, !.maxY = b.maxY + (c.maxY - b.minY + 1)] \in LabelBoxes
  <2>1. PICK x \in Int : x = c.maxY + 1
    BY <1>1, <1>2
  <2>2. PICK y \in Int : y = b.maxY + (c.maxY - b.minY + 1)
    BY <1>1, <1>2
  <2>3. y - x = LabelHeight
    BY <1>1, <1>2, <2>1, <2>2
  <2> QED
    BY <1>4, <2>1, <2>2, <2>3
<1> QED
  BY <1>5, <1>6, <1>7, <1>8 DEF Aside

-----------------------------------------------------------------------------
\* What the definition of Tried says of the boxes tried after d rounds.
NextTried(f, bbox, boxes, d) ==
    IF d = 0 THEN {bbox}
    ELSE UNION {Aside(bbox, c) : c \in {b \in boxes : \E t \in f[d - 1] : Collide(t, b)}}

Tries(f, bbox, boxes, n) == f = [d \in 0 .. n |-> NextTried(f, bbox, boxes, d)]

LEMMA TriesExist ==
    ASSUME NEW bbox, NEW boxes, NEW n \in Nat
    PROVE  \E f : Tries(f, bbox, boxes, n)
<1> DEFINE G == {k \in 0 .. n : \E f : Tries(f, bbox, boxes, k)}
<1>1. 0 \in G
  <2>1. Tries([d \in 0 .. 0 |-> {bbox}], bbox, boxes, 0)
    BY DEF Tries, NextTried
  <2> QED
    BY <2>1
<1>2. ASSUME NEW k \in 1 .. n, k - 1 \in G PROVE k \in G
  <2>1. PICK f : Tries(f, bbox, boxes, k - 1)
    BY <1>2
  <2> DEFINE g == [d \in 0 .. k |-> IF d = k THEN NextTried(f, bbox, boxes, k) ELSE f[d]]
  <2>2. ASSUME NEW d \in 0 .. k PROVE g[d] = NextTried(g, bbox, boxes, d)
    <3>1. CASE d = k
      <4>1. k - 1 \in 0 .. k /\ k - 1 # k
        OBVIOUS
      <4>2. g[d - 1] = f[d - 1] /\ g[d] = NextTried(f, bbox, boxes, d)
        BY <3>1, <4>1
      <4> QED
        BY <4>2 DEF NextTried
    <3>2. CASE d # k
      <4>1. d \in 0 .. k - 1
        BY <3>2
      <4>2. f[d] = NextTried(f, bbox, boxes, d)
        BY <2>1, <4>1 DEF Tries
      <4>3. d # 0 => g[d - 1] = f[d - 1]
        BY <4>1
      <4>4. g[d] = f[d]
        BY <3>2
      <4> QED
        BY <4>2, <4>3, <4>4 DEF NextTried
    <3> QED
      BY <3>1, <3>2
  <2>3. Tries(g, bbox, boxes, k)
    BY <2>2 DEF Tries
  <2> QED
    BY <2>3
<1> HIDE DEF G
<1>3. n \in G
  BY <1>1, <1>2, CountTo
<1> QED
  BY <1>3 DEF G

\* The preferred box is tried, and every box that is tried has its size.
LEMMA TriedBoxes ==
    ASSUME NEW bbox \in LabelBoxes, NEW boxes \in SUBSET IntBoxes
    PROVE  bbox \in Tried(bbox, boxes) /\ Tried(bbox, boxes) \subseteq LabelBoxes
<1> DEFINE n == SearchDepth
           f == CHOOSE f : Tries(f, bbox, boxes, n)
<1>1. n \in Nat
  BY LabelsAssumption DEF LabelsAssumption
<1>2. Tries(f, bbox, boxes, n)
  BY <1>1, TriesExist
<1>3. Tried(bbox, boxes) = UNION {f[d] : d \in 0 .. n}
  BY DEF Tried, Tries, NextTried
<1> HIDE DEF f, n
<1>4. \A d \in 0 .. n : f[d] = NextTried(f, bbox, boxes, d)
  BY <1>2 DEF Tries
<1>5. \A d \in 0 .. n : f[d] \subseteq LabelBoxes
  <2> SUFFICES ASSUME NEW d \in 0 .. n PROVE f[d] \subseteq LabelBoxes
    OBVIOUS
  <2>1. CASE d = 0
    BY <1>4, <2>1 DEF NextTried
  <2>2. CASE d # 0
    <3> DEFINE hit == {b \in boxes : \E t \in f[d - 1] : Collide(t, b)}
    <3>1. f[d] = UNION {Aside(bbox, c) : c \in hit}
      BY <1>4, <2>2 DEF NextTried
    <3>2. hit \subseteq IntBoxes
      OBVIOUS
    <3> HIDE DEF hit
    <3>3. \A c \in hit : Aside(bbox, c) \subseteq LabelBoxes
      BY <3>2, AsideKeepsShape
    <3> QED
      BY <3>1, <3>3
  <2> QED
    BY <2>1, <2>2
<1>6. bbox \in f[0] /\ 0 \in 0 .. n
  <2>1. 0 \in 0 .. n
    BY <1>1
  <2>2. f[0] = NextTried(f, bbox, boxes, 0)
    BY <1>4, <2>1
  <2> QED
    BY <2>1, <2>2 DEF NextTried
<1> QED
  BY <1>3, <1>5, <1>6

\* Boxes of the size of the label that are at no distance are the same box.
LEMMA NoDistance ==
    ASSUME NEW a \in LabelBoxes, NEW b \in LabelBoxes, Dist2(a, b) <= 0
    PROVE  a = b
<1>1. PICK x \in Int, y \in Int : x = a.minX - b.minX /\ y = a.minY - b.minY
  BY DEF LabelBoxes, IntBoxes
<1>2. x * x + y * y <= 0
  BY <1>1 DEF Dist2
<1>3. \A i \in Int : i * i >= 0 /\ (i # 0 => i * i > 0)
  OBVIOUS
<1>4. x = 0 /\ y = 0
  <2>1. PICK u \in Int, v \in Int : u = x * x /\ v = y * y
    OBVIOUS
  <2>2. u >= 0 /\ v >= 0 /\ u + v <= 0 /\ (x # 0 => u > 0) /\ (y # 0 => v > 0)
    BY <1>2, <1>3, <2>1
  <2> QED
    BY <2>2
<1> QED
  BY <1>1, <1>4, LabelsAssumption DEF LabelBoxes, IntBoxes, Shape, LabelsAssumption

\* What getNonColliding returns: a box of the size of the label that touches no
\* other; the preferred one when that is free.
LEMMA NonCollidingBoxes ==
    ASSUME NEW bbox \in LabelBoxes, NEW boxes \in SUBSET IntBoxes
    PROVE  /\ \A c \in NonColliding(bbox, boxes) :
                  c \in LabelBoxes /\ \A b \in boxes : ~Collide(c, b)
           /\ (\A b \in boxes : ~Collide(bbox, b)) => NonColliding(bbox, boxes) = {bbox}
<1>1. ASSUME NEW c \in NonColliding(bbox, boxes)
      PROVE  c \in LabelBoxes /\ \A b \in boxes : ~Collide(c, b)
  BY TriedBoxes DEF NonColliding, Candidates
<1>2. ASSUME \A b \in boxes : ~Collide(bbox, b)
      PROVE  NonColliding(bbox, boxes) = {bbox}
  <2>1. Dist2(bbox, bbox) = 0
    BY DEF Dist2, LabelBoxes, IntBoxes
  <2>2. 0 <= DistLimit * DistLimit
    <3>1. \A i \in Nat : 0 <= i * i
      OBVIOUS
    <3> QED
      BY <3>1, LabelsAssumption DEF LabelsAssumption
  <2>3. bbox \in Candidates(bbox, boxes)
    BY <1>2, <2>1, <2>2, TriedBoxes DEF Candidates
  <2>4. Candidates(bbox, boxes) \subseteq LabelBoxes
    BY TriedBoxes DEF Candidates
  <2>5. ASSUME NEW c \in NonColliding(bbox, boxes) PROVE c = bbox
    <3>1. c \in LabelBoxes /\ Dist2(c, bbox) <= 0
      BY <2>1, <2>3, <2>4 DEF NonColliding
    <3> QED
      BY <3>1, NoDistance
  <2>6. ASSUME NEW d \in LabelBoxes PROVE 0 <= Dist2(d, bbox)
    <3>1. PICK x \in Int, y \in Int : x = d.minX - bbox.minX /\ y = d.minY - bbox.minY
      BY DEF LabelBoxes, IntBoxes
    <3>2. \A i \in Int : 0 <= i * i /\ i * i \in Int
      OBVIOUS
    <3>3. \A u, v \in Int : 0 <= u /\ 0 <= v => 0 <= u + v
      OBVIOUS
    <3>4. Dist2(d, bbox) = x * x + y * y
      BY <3>1 DEF Dist2
    <3> QED
      BY <3>2, <3>3, <3>4
  <2>7. bbox \in NonColliding(bbox, boxes)
    BY <2>1, <2>3, <2>4, <2>6 DEF NonColliding
  <2> QED
    BY <2>5, <2>7
<1> QED
  BY <1>1, <1>2

LEMMA PreferredBox ==
    ASSUME LabelTables, NEW l \in Labels
    PROVE  Preferred(l) \in LabelBoxes
<1>1. PICK x \in Nat, y \in Nat, s \in Nat : x = source[l][1] /\ y = source[l][2] /\ s = scaleOf[l]
  BY LabelsAssumption DEF LabelTables, LabelsAssumption
<1>2. x * s \in Int /\ y * s \in Int
  OBVIOUS
<1>3. PICK u \in Int, v \in Int : u = x * s /\ v = y * s
  BY <1>2
<1>4. Preferred(l) = Box(u, v)
  BY <1>1, <1>3 DEF Preferred
<1> QED
  BY <1>4, LabelsAssumption DEF Box, LabelBoxes, IntBoxes, Shape, LabelsAssumption

LEMMA BoxFacts ==
    /\ NoBox \in IntBoxes /\ NoBox \notin LabelBoxes
    /\ \A a, b \in IntBoxes : Collide(a, b) => Collide(b, a)
<1>1. NoBox \in IntBoxes /\ NoBox \notin LabelBoxes
  BY LabelsAssumption DEF NoBox, IntBoxes, LabelBoxes, Shape, LabelsAssumption
<1>2. \A a, b \in IntBoxes : Collide(a, b) => Collide(b, a)
  BY DEF Collide
<1> QED
  BY <1>1, <1>2

\* InTreeOrder(S) holds the labels of S, each in its place in the tree.
LEMMA InTreeOrderHolds ==
    ASSUME NEW S \in SUBSET Labels
    PROVE  InTreeOrder(S) \in Seq(S) /\ Elems(InTreeOrder(S)) = S
<1>1. TreeOrder \in Seq(Labels) /\ Len(TreeOrder) = LabelCount
  BY LabelsAssumption DEF LabelsAssumption, TreeOrder, Labels
<1>2. Elems(TreeOrder) = Labels
  BY <1>1 DEF Elems, TreeOrder, Labels
<1>3. Labels \cap S = S
  OBVIOUS
<1>4. InTreeOrder(S) \in Seq(Labels \cap S)
  BY <1>1, KeptInSeq DEF InTreeOrder
<1>5. Elems(InTreeOrder(S)) = Elems(TreeOrder) \cap S
  BY <1>1, KeptElems DEF InTreeOrder
<1> QED
  BY <1>2, <1>3, <1>4, <1>5

\* The first of those that wait, and the rest of them.
LEMMA HeadAndTail ==
    ASSUME NEW A, NEW s \in Seq(A), s # <<>>
    PROVE  /\ Head(s) \in A /\ Tail(s) \in Seq(A)
           /\ Elems(s) = {Head(s)} \cup Elems(Tail(s))
<1> DEFINE n == Len(s)
           r == Tail(s)
<1>1. /\ n \in Nat \ {0} /\ Head(s) = s[1] /\ Head(s) \in A /\ r \in Seq(A)
      /\ Len(r) = n - 1 /\ \A i \in 1 .. n - 1 : r[i] = s[i + 1]
  OBVIOUS
<1> HIDE DEF n, r
<1>2. \A i \in 1 .. n : i = 1 \/ (i - 1 \in 1 .. n - 1 /\ (i - 1) + 1 = i)
  BY <1>1
<1>3. 1 \in 1 .. n /\ \A i \in 1 .. n - 1 : i + 1 \in 1 .. n
  BY <1>1
<1>4. ASSUME NEW i \in 1 .. n PROVE s[i] = Head(s) \/ s[i] \in Elems(r)
  <2>1. CASE i = 1
    BY <1>1, <2>1
  <2>2. CASE i # 1
    <3>1. r[i - 1] = s[i] /\ i - 1 \in 1 .. Len(r)
      <4>1. i - 1 \in 1 .. n - 1 /\ (i - 1) + 1 = i
        BY <1>2, <2>2
      <4> QED
        BY <1>1, <4>1
    <3> QED
      BY <3>1 DEF Elems
  <2> QED
    BY <2>1, <2>2
<1>5. Head(s) \in Elems(s)
  BY <1>1, <1>3 DEF Elems, n
<1>6. ASSUME NEW i \in 1 .. n - 1 PROVE r[i] \in Elems(s)
  BY <1>1, <1>3, <1>6 DEF Elems, n
<1>7. Elems(r) \subseteq Elems(s)
  BY <1>1, <1>6 DEF Elems
<1>8. Elems(s) \subseteq {Head(s)} \cup Elems(r)
  BY <1>4 DEF Elems, n
<1> QED
  BY <1>1, <1>5, <1>7, <1>8 DEF r

-----------------------------------------------------------------------------
\* What the layout effect of the first label that waits does.
LEMMA PlaceStep ==
    ASSUME LabelsInv, PlaceLabel
    PROVE  LabelsInv' /\ PreferredIfFree
<1> DEFINE l     == Head(toPlace)
           boxes == NonColliding(Preferred(l), Others(l))
<1> USE DEF LabelsInv, LabelTables
<1>1. /\ l \in shownLabels /\ l \in Labels /\ toPlace # <<>> /\ toPlace' = Tail(toPlace)
      /\ toPlace' \in Seq(shownLabels) /\ Elems(toPlace) = {l} \cup Elems(toPlace')
  BY HeadAndTail DEF PlaceLabel
<1>2. UNCHANGED <<source, zoom, shownLabels, scaleOf>>
  BY DEF PlaceLabel
<1>3. Preferred(l) \in LabelBoxes
  BY <1>1, PreferredBox
<1>4. LabelBoxes \subseteq IntBoxes
  BY DEF LabelBoxes
<1>5. /\ Others(l) \subseteq IntBoxes
      /\ \A m \in Labels : m # l /\ entity[m] # NoBox => entity[m] \in Others(l)
      /\ \A b \in Others(l) : \E m \in Labels \ {l} : entity[m] # NoBox /\ b = entity[m]
  BY <1>4, BoxFacts DEF Others
<1>6. /\ \A c \in boxes : c \in LabelBoxes /\ \A b \in Others(l) : ~Collide(c, b)
      /\ (\A b \in Others(l) : ~Collide(Preferred(l), b)) => boxes = {Preferred(l)}
  BY <1>3, <1>5, NonCollidingBoxes
<1>7. \/ /\ boxes = {}
         /\ entity' = [entity EXCEPT ![l] = NoBox] /\ cramped' = cramped \cup {l}
         /\ location' = location
      \/ \E box \in boxes :
            /\ entity' = [entity EXCEPT ![l] = box]
            /\ location' = [location EXCEPT ![l] = box]
            /\ cramped' = cramped \ {l}
  BY DEF PlaceLabel, DrawnAt
<1> HIDE DEF l, boxes
<1>8. CASE boxes = {} /\ entity' = [entity EXCEPT ![l] = NoBox] /\ cramped' = cramped \cup {l}
           /\ location' = location
  <2>1. LabelTables'
    BY <1>1, <1>2, <1>8
  <2>2. EntitiesApart'
    BY <1>1, <1>2, <1>8 DEF EntitiesApart
  <2>3. HiddenTakesNoRoom'
    BY <1>1, <1>2, <1>8 DEF HiddenTakesNoRoom
  <2>4. DrawnAtEntity'
    BY <1>1, <1>2, <1>8 DEF DrawnAtEntity
  <2>5. PreferredIfFree
    <3>1. PICK b \in Others(l) : Collide(Preferred(l), b)
      BY <1>6, <1>8
    <3>2. PICK m \in Labels \ {l} : entity[m] # NoBox /\ b = entity[m]
      BY <1>5
    <3>3. Collide(entity[m], Preferred(l))
      BY <1>3, <1>4, <1>5, <3>1, <3>2, BoxFacts
    <3> QED
      BY <3>2, <3>3 DEF PreferredIfFree, l
  <2> QED
    BY <2>1, <2>2, <2>3, <2>4, <2>5
<1>9. ASSUME NEW box \in boxes, entity' = [entity EXCEPT ![l] = box],
             location' = [location EXCEPT ![l] = box], cramped' = cramped \ {l}
      PROVE  LabelsInv' /\ PreferredIfFree
  <2>1. box \in LabelBoxes /\ \A b \in Others(l) : ~Collide(box, b)
    BY <1>6
  <2>2. LabelTables'
    BY <1>1, <1>2, <1>9, <2>1
  <2>3. \A m \in Labels : m # l /\ entity[m] # NoBox =>
            ~Collide(box, entity[m]) /\ ~Collide(entity[m], box)
    BY <1>4, <1>5, <2>1, BoxFacts
  <2>4. EntitiesApart'
    <3> SUFFICES ASSUME NEW a \in Labels, NEW m \in Labels, a # m,
                        entity'[a] # NoBox, entity'[m] # NoBox
                 PROVE  ~Collide(entity'[a], entity'[m])
      BY DEF EntitiesApart
    <3>1. entity'[l] = box /\ \A k \in Labels : k # l => entity'[k] = entity[k]
      BY <1>1, <1>9
    <3> QED
      BY <2>3, <3>1 DEF EntitiesApart
  <2>5. HiddenTakesNoRoom'
    BY <1>1, <1>2, <1>9 DEF HiddenTakesNoRoom
  <2>6. DrawnAtEntity'
    <3> SUFFICES ASSUME NEW m \in shownLabels \ cramped', m \notin Elems(toPlace')
                 PROVE  entity'[m] # NoBox /\ location'[m] = entity'[m]
      BY <1>2 DEF DrawnAtEntity
    <3>1. CASE m = l
      BY <1>1, <1>9, <2>1, <3>1, BoxFacts
    <3>2. CASE m # l
      BY <1>1, <1>9, <3>2 DEF DrawnAtEntity
    <3> QED
      BY <3>1, <3>2
  <2>7. PreferredIfFree
    <3> SUFFICES ASSUME entity'[l] # Preferred(l)
                 PROVE  \E m \in Labels \ {l} : entity[m] # NoBox /\ Collide(entity[m], Preferred(l))
      BY DEF PreferredIfFree, l
    <3>1. boxes # {Preferred(l)}
      BY <1>1, <1>9
    <3>2. PICK b \in Others(l) : Collide(Preferred(l), b)
      BY <1>6, <3>1
    <3>3. PICK m \in Labels \ {l} : entity[m] # NoBox /\ b = entity[m]
      BY <1>5
    <3>4. Collide(entity[m], Preferred(l))
      BY <1>3, <1>4, <1>5, <3>2, <3>3, BoxFacts
    <3> QED
      BY <3>3, <3>4
  <2> QED
    BY <2>2, <2>4, <2>5, <2>6, <2>7
<1> QED
  BY <1>7, <1>8, <1>9

\* What is shown, hidden, moved or zoomed when no label waits.
LEMMA WithoutStep ==
    ASSUME LabelsInv, NEW S \in SUBSET Labels, entity' = WithoutBoxes(S)
    PROVE  /\ entity' \in [Labels -> LabelBoxes \cup {NoBox}]
           /\ EntitiesApart'
           /\ \A l \in Labels : entity'[l] = IF l \in S THEN NoBox ELSE entity[l]
<1>1. \A l \in Labels : entity'[l] = IF l \in S THEN NoBox ELSE entity[l]
  BY DEF WithoutBoxes
<1>2. entity' \in [Labels -> LabelBoxes \cup {NoBox}]
  BY DEF WithoutBoxes, LabelsInv, LabelTables
<1>3. EntitiesApart'
  BY <1>1 DEF EntitiesApart, LabelsInv
<1> QED
  BY <1>1, <1>2, <1>3

LEMMA LabelsStart == LabelsInit => LabelsInv
<1> SUFFICES ASSUME LabelsInit PROVE LabelsInv
  OBVIOUS
<1>1. \A l \in Labels : (CHOOSE p \in SourcesOf[l] : TRUE) \in Nat \X Nat
  BY LabelsAssumption DEF LabelsAssumption
<1>2. source \in [Labels -> Nat \X Nat]
  BY <1>1 DEF LabelsInit
<1>3. \A l \in Labels : entity[l] = NoBox
  BY DEF LabelsInit
<1>4. LabelTables
  BY <1>2 DEF LabelsInit, LabelTables
<1> QED
  BY <1>3, <1>4 DEF LabelsInit, LabelsInv, EntitiesApart, HiddenTakesNoRoom, DrawnAtEntity

LEMMA LabelsStep ==
    ASSUME LabelsInv, [LabelsNext]_labelVars
    PROVE  LabelsInv' /\ [PreferredIfFree]_labelVars
<1> USE DEF LabelsInv
<1>1. CASE PlaceLabel
  BY <1>1, PlaceStep
<1>2. CASE ShowLabel
  <2>1. PICK l \in Labels \ shownLabels :
            /\ shownLabels' = shownLabels \cup {l}
            /\ scaleOf' = [scaleOf EXCEPT ![l] = zoom]
            /\ toPlace' = <<l>>
    BY <1>2 DEF ShowLabel
  <2>2. UNCHANGED <<source, zoom, entity, location, cramped>> /\ toPlace = <<>>
    BY <1>2 DEF ShowLabel
  <2>3. toPlace' \in Seq(shownLabels') /\ Elems(toPlace') = {l} /\ Elems(toPlace) = {}
    BY <2>1, <2>2 DEF Elems
  <2>4. LabelTables'
    BY <2>1, <2>2, <2>3 DEF LabelTables
  <2>5. EntitiesApart' /\ HiddenTakesNoRoom'
    BY <2>1, <2>2 DEF EntitiesApart, HiddenTakesNoRoom
  <2>6. DrawnAtEntity'
    BY <2>1, <2>2, <2>3 DEF DrawnAtEntity
  <2> QED
    BY <2>2, <2>4, <2>5, <2>6 DEF PreferredIfFree
<1>3. CASE HideLabels
  <2>1. PICK S \in SUBSET shownLabels :
            /\ shownLabels' = shownLabels \ S
            /\ entity' = WithoutBoxes(S)
            /\ location' = [l \in Labels |-> IF l \in S THEN NoBox ELSE location[l]]
            /\ cramped' = cramped \ S
    BY <1>3 DEF HideLabels, RemoveEntities
  <2>2. UNCHANGED <<source, zoom, scaleOf, toPlace>> /\ toPlace = <<>>
    BY <1>3 DEF HideLabels
  <2>3. S \subseteq Labels
    BY DEF LabelTables
  <2>4. /\ entity' \in [Labels -> LabelBoxes \cup {NoBox}] /\ EntitiesApart'
        /\ \A l \in Labels : entity'[l] = IF l \in S THEN NoBox ELSE entity[l]
    BY <2>1, <2>3, WithoutStep
  <2>5. LabelTables'
    BY <2>1, <2>2, <2>3, <2>4 DEF LabelTables
  <2>6. HiddenTakesNoRoom'
    BY <2>1, <2>4 DEF HiddenTakesNoRoom
  <2>7. DrawnAtEntity'
    BY <2>1, <2>2, <2>4 DEF DrawnAtEntity, LabelTables
  <2> QED
    BY <2>2, <2>4, <2>5, <2>6, <2>7 DEF PreferredIfFree
<1>4. CASE MoveSources
  <2>1. PICK S \in SUBSET Labels :
            /\ source' \in [Labels -> UNION {SourcesOf[l] : l \in Labels}]
            /\ entity' = WithoutBoxes(S \cap shownLabels)
            /\ toPlace' = InTreeOrder(S \cap shownLabels)
    BY <1>4 DEF MoveSources
  <2>2. UNCHANGED <<zoom, shownLabels, scaleOf, location, cramped>> /\ toPlace = <<>>
    BY <1>4 DEF MoveSources
  <2>3. PICK T \in SUBSET Labels : T = S \cap shownLabels
    BY <2>1
  <2>4. toPlace' \in Seq(T) /\ Elems(toPlace') = T
    BY <2>1, <2>3, InTreeOrderHolds
  <2>5. /\ entity' \in [Labels -> LabelBoxes \cup {NoBox}] /\ EntitiesApart'
        /\ \A l \in Labels : entity'[l] = IF l \in T THEN NoBox ELSE entity[l]
    BY <2>1, <2>3, WithoutStep
  <2>6. source' \in [Labels -> Nat \X Nat]
    <3>1. UNION {SourcesOf[l] : l \in Labels} \subseteq Nat \X Nat
      BY LabelsAssumption DEF LabelsAssumption
    <3> QED
      BY <2>1, <3>1
  <2>7. toPlace' \in Seq(shownLabels)
    BY <2>3, <2>4
  <2>8. LabelTables'
    BY <2>2, <2>5, <2>6, <2>7 DEF LabelTables
  <2>9. HiddenTakesNoRoom'
    BY <2>2, <2>5 DEF HiddenTakesNoRoom
  <2>10. Elems(toPlace) = {}
    BY <2>2 DEF Elems
  <2>11. DrawnAtEntity'
    BY <2>2, <2>4, <2>5, <2>10 DEF DrawnAtEntity, LabelTables
  <2> QED
    BY <2>2, <2>5, <2>8, <2>9, <2>11 DEF PreferredIfFree
<1>5. CASE ZoomMap
  <2>1. /\ UNCHANGED <<source, shownLabels, entity, location, cramped>> /\ toPlace = <<>>
        /\ zoom' \in Scales /\ scaleOf' = [l \in Labels |-> zoom']
        /\ toPlace' = InTreeOrder(shownLabels)
    BY <1>5 DEF ZoomMap
  <2>2. toPlace' \in Seq(shownLabels) /\ Elems(toPlace') = shownLabels
    BY <2>1, InTreeOrderHolds DEF LabelTables
  <2>3. LabelTables'
    BY <2>1, <2>2 DEF LabelTables
  <2>4. EntitiesApart' /\ HiddenTakesNoRoom' /\ DrawnAtEntity'
    BY <2>1, <2>2 DEF EntitiesApart, HiddenTakesNoRoom, DrawnAtEntity
  <2> QED
    BY <2>1, <2>3, <2>4 DEF PreferredIfFree
<1>6. CASE UNCHANGED labelVars
  <2>1. /\ UNCHANGED <<source, zoom, shownLabels, scaleOf>>
        /\ UNCHANGED <<toPlace, entity, location, cramped>>
    BY <1>6 DEF labelVars
  <2>2. LabelTables'
    BY <2>1 DEF LabelTables
  <2>3. EntitiesApart' /\ HiddenTakesNoRoom' /\ DrawnAtEntity'
    BY <2>1 DEF EntitiesApart, HiddenTakesNoRoom, DrawnAtEntity
  <2> QED
    BY <1>6, <2>2, <2>3
<1> QED
  BY <1>1, <1>2, <1>3, <1>4, <1>5, <1>6 DEF LabelsNext

\* What the tables of the labels hold, for any number of labels, any places of
\* their sources, scales and depth of the search (label-marker.tsx 59-163).
THEOREM LabelsInvariant == LabelsSpec => []LabelsInv
<1>1. LabelsInv /\ [LabelsNext]_labelVars => LabelsInv'
  BY LabelsStep
<1> QED
  BY <1>1, LabelsStart, PTL DEF LabelsSpec

\* A box has the size of the label, wherever it was moved
\* (entity-manager.ts, getNonColliding).
THEOREM LabelsTypeCorrect == LabelsSpec => []LabelsTypeOK
<1>1. LabelsInv => LabelsTypeOK
  BY DEF LabelsInv, LabelTables, LabelsTypeOK, LabelBoxes
<1> QED
  BY <1>1, LabelsInvariant, PTL

\* Labels keep apart and close, in whatever order they are shown, hidden, moved
\* and zoomed: no two entities touch, labels that overlap found no room, what is
\* hidden takes none, and none moves away without a cause.
THEOREM LabelsStayApart == LabelsSpec => LabelsApart
<1>1. LabelsInv => EntitiesApart /\ OverlapOnlyIfCramped /\ HiddenTakesNoRoom
  <2> SUFFICES ASSUME LabelsInv, toPlace = <<>>,
                      NEW l \in shownLabels \ cramped, NEW m \in shownLabels \ cramped, l # m
               PROVE  ~Collide(location[l], location[m])
    BY DEF LabelsInv, OverlapOnlyIfCramped
  <2>1. Elems(toPlace) = {}
    BY DEF Elems
  <2> QED
    BY <2>1 DEF LabelsInv, LabelTables, DrawnAtEntity, EntitiesApart
<1>2. LabelsInv /\ [LabelsNext]_labelVars => [PreferredIfFree]_labelVars
  BY LabelsStep
<1> QED
  BY <1>1, <1>2, LabelsInvariant, PTL DEF LabelsSpec, LabelsApart

-----------------------------------------------------------------------------
(* The dashboard.                                                          *)

\* Who listens to the file input was mounted, and reads in the order of listening.
PickShape ==
    /\ edits \in 0 .. MaxEdits /\ selectedTaskIdx \in Nat \ {0} /\ forms \in 0 .. MaxForms
    /\ dialog \in BOOLEAN /\ picks \in 0 .. MaxPicks
    /\ listeners \in Seq(1 .. forms)
    /\ reading \in Seq(Nat) /\ Len(reading) <= Len(listeners)
    /\ \A i \in 1 .. Len(reading) : reading[i] = listeners[i]

LEMMA PickStart == FormInit => PickShape
<1> SUFFICES ASSUME FormInit PROVE PickShape
  OBVIOUS
<1>1. /\ edits = 0 /\ selectedTaskIdx = 1 /\ forms = 0 /\ dialog = FALSE /\ picks = 0
      /\ listeners = <<>> /\ reading = <<>>
  BY DEF FormInit
<1>2. dialog \in BOOLEAN
  BY <1>1, Zenon
<1> QED
  BY <1>1, <1>2, FormAssumption DEF PickShape

LEMMA ReadEnds ==
    ASSUME PickShape, reading # <<>>, reading' = Tail(reading), listeners' = Tail(listeners)
    PROVE  /\ listeners' \in Seq(1 .. forms) /\ reading' \in Seq(Nat)
           /\ Len(reading') <= Len(listeners')
           /\ \A i \in 1 .. Len(reading') : reading'[i] = listeners'[i]
<1> DEFINE N == Len(reading)
           M == Len(listeners)
<1>1. /\ reading \in Seq(Nat) /\ listeners \in Seq(1 .. forms) /\ N \in Nat \ {0} /\ M \in Nat
      /\ N <= M /\ \A i \in 1 .. N : reading[i] = listeners[i]
  BY DEF PickShape
<1>2. /\ reading' \in Seq(Nat) /\ Len(reading') = N - 1
      /\ \A i \in 1 .. N - 1 : reading'[i] = reading[i + 1]
  BY <1>1
<1>3. /\ listeners' \in Seq(1 .. forms) /\ Len(listeners') = M - 1
      /\ \A i \in 1 .. M - 1 : listeners'[i] = listeners[i + 1]
  <2>1. listeners # <<>>
    BY <1>1
  <2> QED
    BY <1>1, <2>1
<1> HIDE DEF N, M
<1>4. ASSUME NEW i \in 1 .. N - 1 PROVE reading'[i] = listeners'[i]
  <2>1. i \in 1 .. M - 1 /\ i + 1 \in 1 .. N
    BY <1>1
  <2> QED
    BY <1>1, <1>2, <1>3, <2>1
<1> QED
  BY <1>1, <1>2, <1>3, <1>4

\* The forms and the files picked for them: every step keeps the types.
LEMMA PickStep == ASSUME FormInv, PickShape, [FormNext]_formVars PROVE PickShape'
<1> USE FormAssumption DEF PickShape
<1>0. /\ form \in 0 .. forms /\ Len(listeners) \in Nat /\ SelectionInRange
  BY DEF FormInv, ScreenInv
<1>1. CASE OpenForm
  <2>1. /\ UNCHANGED <<edits, dialog, listeners, reading, picks>>
        /\ selectedTaskIdx' = 1 /\ forms' = forms + 1 /\ forms < MaxForms
    BY <1>1 DEF OpenForm, pick_vars
  <2>2. listeners \in Seq(1 .. forms + 1)
    <3>1. 1 .. forms \subseteq 1 .. forms + 1
      OBVIOUS
    <3> QED
      BY <3>1
  <2> QED
    BY <2>1, <2>2
<1>2. CASE CloseForm \/ Returns
  <2>1. /\ UNCHANGED <<forms, edits, dialog, listeners, reading, picks>>
        /\ selectedTaskIdx' \in {1, selectedTaskIdx}
    BY <1>2 DEF CloseForm, Returns, SubmitReturns, Unmount, pick_vars
  <2> QED
    BY <2>1
<1>3. CASE ChangeType \/ DeliveryTaskForm \/ LoopTaskForm \/ CleanTaskForm
  <2>1. /\ UNCHANGED <<forms, selectedTaskIdx, dialog, listeners, reading, picks>>
        /\ edits < MaxEdits /\ edits' = edits + 1
    BY <1>3 DEF ChangeType, DeliveryTaskForm, LoopTaskForm, CleanTaskForm, ChangeDescription,
                UpdateTask, pick_vars
  <2> QED
    BY <2>1
<1>4. CASE SelectTask
  <2>1. UNCHANGED <<forms, edits, dialog, listeners, reading, picks>>
    BY <1>4 DEF SelectTask, pick_vars
  <2>2. selectedTaskIdx' \in 1 .. Len(tasks)
    BY <1>4 DEF SelectTask, FormInv, ScreenInv
  <2> QED
    BY <2>1, <2>2
<1>5. CASE SelectFile
  <2>1. /\ UNCHANGED <<forms, edits, selectedTaskIdx, reading>>
        /\ listeners' = Append(listeners, form) /\ dialog' = TRUE
        /\ picks' = picks + 1 /\ picks < MaxPicks /\ form \in 1 .. forms
    BY <1>0, <1>5 DEF SelectFile, form_vars
  <2>2. /\ listeners' \in Seq(1 .. forms) /\ Len(listeners') = Len(listeners) + 1
        /\ \A i \in 1 .. Len(listeners) : listeners'[i] = listeners[i]
    BY <2>1
  <2>3. ASSUME NEW i \in 1 .. Len(reading) PROVE reading[i] = listeners'[i]
    <3>1. Len(reading) \in Nat /\ Len(reading) <= Len(listeners)
      OBVIOUS
    <3>2. i \in 1 .. Len(listeners) /\ reading[i] = listeners[i]
      BY <1>0, <3>1
    <3> QED
      BY <2>2, <3>2
  <2>4. dialog' \in BOOLEAN
    BY <2>1, Zenon
  <2>5. Len(reading) <= Len(listeners')
    BY <1>0, <2>2
  <2> QED
    BY <2>1, <2>2, <2>3, <2>4, <2>5
<1>6. CASE DismissDialog \/ PickFile
  <2>1. /\ UNCHANGED <<forms, edits, selectedTaskIdx, listeners, picks>>
        /\ reading' \in {reading, listeners} /\ dialog' = FALSE
    BY <1>6 DEF DismissDialog, PickFile, form_vars
  <2>2. listeners \in Seq(Nat)
    <3>1. 1 .. forms \subseteq Nat
      OBVIOUS
    <3> QED
      BY <3>1
  <2>3. dialog' \in BOOLEAN
    BY <2>1, Zenon
  <2> QED
    BY <1>0, <2>1, <2>2, <2>3
<1>7. CASE FileRead
  <2>1. /\ UNCHANGED <<forms, edits, dialog, picks>> /\ selectedTaskIdx' \in {1, selectedTaskIdx}
        /\ reading # <<>> /\ reading' = Tail(reading) /\ listeners' = Tail(listeners)
    BY <1>7 DEF FileRead, LoadTasks
  <2> QED
    BY <2>1, ReadEnds
<1>8. CASE SubmitTasks \/ Answers \/ UNCHANGED formVars
  <2>1. UNCHANGED <<forms, edits, selectedTaskIdx, dialog, listeners, reading, picks>>
    BY <1>8 DEF SubmitTasks, Answers, Answer, formVars, form_vars, pick_vars
  <2> QED
    BY <2>1
<1> QED
  BY <1>1, <1>2, <1>3, <1>4, <1>5, <1>6, <1>7, <1>8 DEF FormNext, FormUser

\* create-task.tsx: the types of the form, whatever files are read late.
LEMMA FormTypes == FormInv /\ PickShape => FormTypeOK
<1> SUFFICES ASSUME FormInv, PickShape PROVE FormTypeOK
  OBVIOUS
<1>1. IsPrefix(reading, listeners)
  <2> DEFINE N == Len(reading)
  <2>1. /\ reading \in Seq(Nat) /\ listeners \in Seq(Nat) /\ N \in Nat
        /\ N <= Len(listeners) /\ Len(listeners) \in Nat
    <3>1. 1 .. forms \subseteq Nat
      OBVIOUS
    <3> QED
      BY <3>1 DEF PickShape
  <2>3. \A i \in 1 .. N : reading[i] = listeners[i]
    BY DEF PickShape
  <2> HIDE DEF N
  <2>2. SubSeq(reading, 1, N) = SubSeq(listeners, 1, N)
    <3>1. /\ SubSeq(reading, 1, N) \in Seq(Nat) /\ Len(SubSeq(reading, 1, N)) = N
          /\ \A i \in 1 .. N : SubSeq(reading, 1, N)[i] = reading[i]
      <4>1. 1 \in Nat \ {0} /\ N \in 0 .. Len(reading)
        BY <2>1 DEF N
      <4> QED
        BY <2>1, <4>1, Slice
    <3>2. /\ SubSeq(listeners, 1, N) \in Seq(Nat) /\ Len(SubSeq(listeners, 1, N)) = N
          /\ \A i \in 1 .. N : SubSeq(listeners, 1, N)[i] = listeners[i]
      <4>1. 1 \in Nat \ {0} /\ N \in 0 .. Len(listeners)
        BY <2>1
      <4> QED
        BY <2>1, <4>1, Slice
    <3> QED
      BY <2>1, <2>3, <3>1, <3>2, SeqEqual
  <2> QED
    BY <2>1, <2>2 DEF IsPrefix, N
<1>2. ASSUME NEW n \in DOMAIN submissions
      PROVE  /\ submissions[n].form \in 1 .. forms
             /\ submissions[n].waiting \in SUBSET Nat /\ submissions[n].missing \in SUBSET Nat
  <2>1. submissions[n] \in Submissions /\ submissions[n].form <= forms /\ forms \in Nat
    BY DEF FormInv, SubmissionsShape, ScreenInv
  <2> QED
    BY <2>1, SubmissionFields
<1> QED
  BY <1>1, <1>2 DEF FormInv, ScreenInv, PickShape, FormTypeOK

-----------------------------------------------------------------------------
\* A step of the page is a step of one part; the others stutter.
LEMMA DashboardStart ==
    DashboardInit => /\ PageInit /\ FormInit /\ RobotPageInit /\ MapInit /\ LabelsInit
                     /\ SplineInit /\ PanelsInit /\ RequestsInit /\ NegoInit /\ SocketInit
                     /\ SessionInit
BY DEF DashboardInit

LEMMA DashboardStep ==
    [DashboardNext]_dashboardVars =>
        /\ [PageNext]_pageVars /\ [FormNext]_formVars /\ [RobotPageNext]_robotVars
        /\ [MapNext]_mapVars /\ [LabelsNext]_labelVars /\ [SplineNext]_knots
        /\ [PanelsNext]_panelVars /\ [RequestsNext]_requestVars /\ [NegoNext]_negoVars
        /\ [SocketNext]_socketVars /\ [SessionNext]_sessionVars
<1>1. CASE UNCHANGED dashboardVars
  BY <1>1 DEF dashboardVars
<1>2. CASE DashboardNext
  BY <1>2 DEF DashboardNext
<1> QED
  BY <1>1, <1>2

\* MCDashboard runs every part as it is specified, one at a time: what is proved
\* of a part holds of what the run checks.
THEOREM DashboardRunsItsParts ==
    DashboardSpec => /\ PageSpec /\ FormSpec /\ RobotPageSpec /\ MapSpec /\ LabelsSpec
                     /\ SplineSpec /\ PanelsSpec /\ RequestsSpec /\ NegoSpec /\ SocketSpec
                     /\ SessionSpec
BY DashboardStart, DashboardStep, PTL
   DEF DashboardSpec, PageSpec, FormSpec, RobotPageSpec, MapSpec, LabelsSpec, SplineSpec,
       PanelsSpec, RequestsSpec, NegoSpec, SocketSpec, SessionSpec

\* Every page of the dashboard keeps its types, for any values of its constants.
THEOREM DashboardTypeCorrect == DashboardSpec => []DashboardTypeOK
<1>1. PageSpec => []PageTypeOK
  BY PageStaysTrue, PTL
<1>2. FormSpec => []FormTypeOK
  BY FormInvariant, PickStart, PickStep, FormTypes, PTL DEF FormSpec
<1>3. RobotPageSpec => []RobotPageTypeOK
  <2>1. RobotInv => RobotPageTypeOK
    BY DEF RobotInv, RobotShape, RobotPageTypeOK
  <2> QED
    BY <2>1, RobotStart, RobotStep, PTL DEF RobotPageSpec
<1>4. MapSpec => []MapTypeOK
  BY MapStaysSettled, PTL
<1>5. SocketSpec => []SocketTypeOK
  <2>1. SocketInv => SocketTypeOK
    BY DEF SocketInv
  <2> QED
    BY <2>1, SocketInvariant, PTL
<1>6. SessionSpec => []SessionTypeOK
  <2>1. SessionInv => SessionTypeOK
    BY DEF SessionInv, SessionShape
  <2> QED
    BY <2>1, SessionInvariant, PTL
<1> QED
  BY <1>1, <1>2, <1>3, <1>4, <1>5, <1>6, DashboardRunsItsParts, LabelsTypeCorrect,
     SplineTypeCorrect, PanelsTypeCorrect, RequestsTypeCorrect, NegoTypeCorrect, PTL
     DEF DashboardTypeOK

\* Everything the run Dashboard checks but its liveness.
THEOREM DashboardStaysSound ==
    DashboardSpec =>
        /\ [](/\ DashboardTypeOK /\ PageIsTrue /\ FormIsSound /\ MapSettles /\ PathIsSpline
              /\ LiftsAreReachable /\ RequestsAreSound /\ RepliesInOrder)
        /\ OnlyStubsGoBack /\ RobotPageIsSound /\ LabelsApart /\ NegotiationsAreKept
        /\ SessionIsTrue
BY DashboardRunsItsParts, DashboardTypeCorrect, PageStaysTrue, RowsGoBackToStubs,
   FormStaysSound, RobotPageStaysSound, MapStaysSettled, LabelsStayApart, PathStaysSpline,
   LiftsStayReachable, RequestsStaySound, NegotiationsStayKept, RepliesStayInOrder,
   SessionStaysTrue, PTL
=============================================================================
