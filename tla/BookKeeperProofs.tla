-------------------------- MODULE BookKeeperProofs --------------------------
(* Proofs about BookKeeper, for any threads, keys, rows and pool size, and *)
(* about Shutdown, which runs it beside the other parts of the server.     *)
EXTENDS Shutdown, FiniteSetTheorems, SequenceTheorems, TLAPS

-----------------------------------------------------------------------------
(* BookKeeper.                                                             *)

\* Everything but what the saves a failed gather left behind may change.
bookVars == <<pub, pc, job, rows, st, cb, maker, born, made, pending,
              disposed, stop, waitset, inflight, keyErrors>>

LEMMA LateLeaves ==
    ASSUME (\E i \in TaskIds : WriteLate(i) \/ LateFails(i)) \/ UNCHANGED vars
    PROVE  UNCHANGED bookVars
BY DEF WriteLate, LateFails, Over, vars, bookVars, threadVars, stopVars

\* start() leaves the book keeper in a state of the right shape.
LEMMA TypeInit == Init => TypeOK
BY BookKeeperAssumption
   DEF Init, TypeOK, TaskStates, CallbackStates, NoJob, TaskIds

\* No statement of a thread, no step of a save and no step of stop() leaves it.
LEMMA TypeStep == ASSUME TypeOK, [Next]_vars PROVE TypeOK'
<1> USE BookKeeperAssumption
<1> USE DEF TypeOK, TaskStates, CallbackStates
<1>1. ASSUME NEW t \in Threads, NEW k \in Keys, OnEvent(t, k) PROVE TypeOK'
  <2>1. pub[k] + 1 \in Versions /\ <<k, pub[k] + 1>> \in TaskIds
    BY <1>1 DEF OnEvent, Versions, TaskIds
  <2>2. pub' \in [Keys -> 0 .. MaxVer]
    BY <1>1, <2>1 DEF OnEvent, Versions
  <2>3. job' \in [Threads -> TaskIds \cup {NoJob}]
    BY <1>1, <2>1 DEF OnEvent
  <2>4. rows' \in [TaskIds -> SUBSET Rows]
    BY <1>1, <2>1 DEF OnEvent
  <2>5. \A u \in Threads : pc'[u] # "idle" => job'[u] \in TaskIds
    BY <1>1, <2>1 DEF OnEvent
  <2> QED
    BY <1>1, <2>2, <2>3, <2>4, <2>5 DEF OnEvent, stopVars, taskVars
<1>2. ASSUME NEW t \in Threads, CreateTask(t) PROVE TypeOK'
  BY <1>2 DEF CreateTask, stopVars
<1>3. ASSUME NEW t \in Threads, AddDoneCallback(t) PROVE TypeOK'
  BY <1>3 DEF AddDoneCallback, stopVars, taskVars
<1>4. ASSUME NEW t \in Threads, AddPending(t) PROVE TypeOK'
  BY <1>4 DEF AddPending, stopVars, taskVars
<1>5. ASSUME NEW i \in TaskIds, Begin(i) PROVE TypeOK'
  BY <1>5 DEF Begin, Finish, stopVars, threadVars, taskVars
<1>6. ASSUME NEW i \in TaskIds, Commit(i) PROVE TypeOK'
  BY <1>6 DEF Commit, TaskIds, Versions, stopVars, threadVars, taskVars
<1>7. ASSUME NEW i \in TaskIds, SaveFails(i) PROVE TypeOK'
  BY <1>7 DEF SaveFails, Finish, stopVars, threadVars, taskVars
<1>8. ASSUME NEW i \in TaskIds, Return(i) PROVE TypeOK'
  BY <1>8 DEF Return, Finish, stopVars, threadVars, taskVars
<1>9. ASSUME NEW i \in TaskIds, DoneCallback(i) PROVE TypeOK'
  BY <1>9 DEF DoneCallback, stopVars, threadVars, taskVars
<1>10. CASE StopStep
  BY <1>10 DEF StopStep, StopBegin, Dispose, StopWait, StopReturn,
               threadVars, taskVars
<1>11. CASE UNCHANGED vars
  BY <1>11 DEF vars
<1>12. ASSUME NEW i \in TaskIds, WriteLate(i) \/ LateFails(i) PROVE TypeOK'
  <2>1. i[2] \in 0 .. MaxVer
    BY DEF TaskIds, Versions
  <2>3. PICK r \in late[i] : late' = [late EXCEPT ![i] = late[i] \ {r}]
    BY <1>12 DEF WriteLate, LateFails, Over
  <2>4. late' \in [TaskIds -> SUBSET Rows]
    BY <2>3
  <2>2. db' \in [Rows -> 0 .. MaxVer]
    BY <1>12, <2>1 DEF WriteLate, LateFails
  <2> QED
    BY <1>12, <2>2, <2>4 DEF WriteLate, LateFails, threadVars, stopVars
<1> QED
  BY <1>1, <1>2, <1>3, <1>4, <1>5, <1>6, <1>7, <1>8, <1>9, <1>10, <1>11, <1>12
     DEF Next, ThreadStep, LoopStep

\* Every value has its type in every reachable state: the shape the other
\* proofs about book_keeper.py rest on.
THEOREM TypeCorrect == Spec => []TypeOK
BY TypeInit, TypeStep, PTL DEF Spec

-----------------------------------------------------------------------------
(* The inductive invariant of the bridge between the publishing threads    *)
(* and the loop.                                                           *)

\* Events in hand are distinct and were published; a task exists exactly from
\* create_task on, and it belongs to the thread that is still creating it.
HandInv ==
    /\ \A i \in TaskIds : i[2] > pub[i[1]] => st[i] = "absent"
    /\ \A t \in Threads : pc[t] # "idle" => job[t][2] <= pub[job[t][1]]
    /\ \A t, u \in Threads :
          pc[t] # "idle" /\ pc[u] # "idle" /\ job[t] = job[u] => t = u
    /\ \A t \in Threads : pc[t] = "called" => st[job[t]] = "absent"
    /\ \A t \in Threads :
          Creating(t) => st[job[t]] # "absent" /\ maker[job[t]] = t

\* What stop() knows: no callback starts after it disposed everything, so an
\* unfinished save is awaited or was made by a thread caught in a callback.
StopInv ==
    /\ stop \in {"waiting", "stopped"} =>
          /\ disposed = Keys
          /\ \A t \in Threads : pc[t] # "idle" => t \in inflight
    /\ stop = "waiting" => \A i \in TaskIds :
          Unfinished(i) => i \in waitset \/ maker[i] \in inflight
    /\ stop = "stopped" => \A i \in TaskIds :
          Unfinished(i) => maker[i] \in inflight

\* The done callback is only ever run for a finished task.
CallbackInv ==
    \A i \in TaskIds : cb[i] \in {"scheduled", "fired"} => Finished(i)

\* A thread hands its task to _pending_tasks last: before that the task is not
\* in the set, and a callback that ran all the same raised KeyError.
LiveInv ==
    /\ \A i \in TaskIds : i[2] > pub[i[1]] => cb[i] = "none" /\ i \notin pending
    /\ \A t \in Threads : pc[t] # "idle" => job[t] \notin pending
    /\ \A t \in Threads : pc[t] = "registered" =>
          /\ cb[job[t]] # "none"
          /\ cb[job[t]] = "fired" => job[t] \in keyErrors
    /\ PendingIsLive

\* After stop() took its set no event is handled any more, so what it misses is
\* the last event of a thread.
LateInv ==
    /\ stop \in {"waiting", "stopped"} => \A i \in TaskIds :
          Unfinished(i) /\ i \notin waitset => job[maker[i]] = i
    /\ stop = "stopped" => \A i \in waitset : Finished(i)

IInv == /\ TypeOK /\ HandInv /\ CallbackInv /\ PendingComplete
        /\ StopInv /\ LiveInv /\ LateInv

-----------------------------------------------------------------------------
(* One lemma per conjunct: what each kind of step does to it.              *)

\* _create_task, on any thread: no step lets two threads hold one event, or a
\* thread hold a task that it did not create (create_task, line 120).
LEMMA HandStep ==
    ASSUME TypeOK, TypeOK', HandInv, [Next]_vars PROVE HandInv'
<1> USE DEF TypeOK, HandInv, Creating
<1>1. ASSUME NEW t \in Threads, NEW k \in Keys, OnEvent(t, k) PROVE HandInv'
  <2> DEFINE e == <<k, pub[k] + 1>>
  <2>1. /\ e \in TaskIds /\ e[1] = k /\ e[2] = pub[k] + 1 /\ st[e] = "absent"
        /\ pub[k] \in Nat
    BY <1>1 DEF OnEvent, TaskIds, Versions
  <2>2. /\ pub' = [pub EXCEPT ![k] = pub[k] + 1]
        /\ job' = [job EXCEPT ![t] = e]
        /\ pc' = [pc EXCEPT ![t] = "called"]
        /\ pc[t] = "idle"
        /\ st' = st /\ maker' = maker
    BY <1>1 DEF OnEvent, taskVars
  <2>3. \A i \in TaskIds : i[1] \in Keys /\ i[2] \in Nat
    BY DEF TaskIds, Versions
  <2>4. \A i \in TaskIds : i[2] > pub'[i[1]] => st'[i] = "absent"
    BY <2>1, <2>2, <2>3
  <2>5. \A u \in Threads : pc[u] # "idle" => job[u] # e
    BY <2>1
  <2>6. \A u \in Threads : pc'[u] # "idle" => job'[u][2] <= pub'[job'[u][1]]
    BY <2>1, <2>2, <2>3
  <2>7. \A u, v \in Threads :
           pc'[u] # "idle" /\ pc'[v] # "idle" /\ job'[u] = job'[v] => u = v
    BY <2>2, <2>5
  <2>8. \A u \in Threads : pc'[u] = "called" => st'[job'[u]] = "absent"
    BY <2>1, <2>2
  <2>9. \A u \in Threads :
           Creating(u)' => st'[job'[u]] # "absent" /\ maker'[job'[u]] = u
    BY <2>2
  <2> QED
    BY <2>4, <2>6, <2>7, <2>8, <2>9
<1>2. ASSUME NEW t \in Threads, CreateTask(t) PROVE HandInv'
  <2>1. /\ pub' = pub /\ job' = job /\ job[t] \in TaskIds
        /\ pc' = [pc EXCEPT ![t] = "created"] /\ pc[t] = "called"
        /\ st' = [st EXCEPT ![job[t]] = "ready"]
        /\ maker' = [maker EXCEPT ![job[t]] = t]
    BY <1>2 DEF CreateTask
  <2>2. \A u \in Threads : u # t /\ pc[u] # "idle" => job[u] # job[t]
    BY <2>1
  <2>3. \A i \in TaskIds : i[2] > pub'[i[1]] => st'[i] = "absent"
    <3>4. \A i \in TaskIds : i[1] \in Keys /\ i[2] \in Nat
      BY DEF TaskIds, Versions
    <3>1. job[t][1] \in Keys /\ job[t][2] \in Nat /\ job[t][2] <= pub[job[t][1]]
      BY <2>1, <3>4
    <3>2. pub[job[t][1]] \in Nat /\ \A a, b \in Nat : a <= b => ~(a > b)
      BY <3>1
    <3>3. ~(job[t][2] > pub[job[t][1]])
      BY <3>1, <3>2
    <3> QED
      BY <2>1, <3>3
  <2>4. \A u \in Threads : pc'[u] = "called" => st'[job'[u]] = "absent"
    BY <2>1, <2>2
  <2>5. \A u \in Threads :
           Creating(u)' => st'[job'[u]] # "absent" /\ maker'[job'[u]] = u
    BY <2>1, <2>2
  <2> QED
    BY <2>1, <2>3, <2>4, <2>5
<1>3. ASSUME NEW t \in Threads, AddDoneCallback(t) PROVE HandInv'
  BY <1>3 DEF AddDoneCallback, taskVars
<1>4. ASSUME NEW t \in Threads, AddPending(t) PROVE HandInv'
  BY <1>4 DEF AddPending, taskVars
<1>5. ASSUME NEW i \in TaskIds,
             Begin(i) \/ Commit(i) \/ SaveFails(i) \/ Return(i) \/ DoneCallback(i)
      PROVE  HandInv'
  <2>1. /\ pub' = pub /\ pc' = pc /\ job' = job /\ maker' = maker
        /\ \A j \in TaskIds : st'[j] = "absent" <=> st[j] = "absent"
    BY <1>5 DEF Begin, Commit, SaveFails, Return, DoneCallback, Finish,
                threadVars, taskVars, TaskStates
  <2> QED
    BY <2>1
<1>6. CASE StopStep
  BY <1>6 DEF StopStep, StopBegin, Dispose, StopWait, StopReturn, threadVars, taskVars
<1>7. CASE UNCHANGED bookVars
  BY <1>7 DEF bookVars
<1> QED
  BY <1>1, <1>2, <1>3, <1>4, <1>5, <1>6, <1>7, LateLeaves DEF Next, ThreadStep, LoopStep

\* add_done_callback (line 121) and the loop: a done callback is scheduled only
\* for a task that is finished, since asyncio schedules it at the end.
LEMMA CallbackStep ==
    ASSUME TypeOK, TypeOK', HandInv, CallbackInv, [Next]_vars PROVE CallbackInv'
<1> USE DEF TypeOK, CallbackInv, Finished
<1>1. ASSUME NEW t \in Threads, NEW k \in Keys, OnEvent(t, k) PROVE CallbackInv'
  BY <1>1 DEF OnEvent, taskVars
<1>2. ASSUME NEW t \in Threads, CreateTask(t) PROVE CallbackInv'
  BY <1>2 DEF CreateTask, HandInv
<1>3. ASSUME NEW t \in Threads, AddDoneCallback(t) PROVE CallbackInv'
  BY <1>3 DEF AddDoneCallback, taskVars
<1>4. ASSUME NEW t \in Threads, AddPending(t) PROVE CallbackInv'
  BY <1>4 DEF AddPending, taskVars
<1>5. ASSUME NEW i \in TaskIds, Begin(i) \/ Commit(i) PROVE CallbackInv'
  BY <1>5 DEF Begin, Commit, Finish, threadVars, taskVars
<1>6. ASSUME NEW i \in TaskIds, SaveFails(i) \/ Return(i) PROVE CallbackInv'
  BY <1>6 DEF SaveFails, Return, Finish, threadVars, taskVars
<1>7. ASSUME NEW i \in TaskIds, DoneCallback(i) PROVE CallbackInv'
  BY <1>7 DEF DoneCallback, threadVars, taskVars
<1>8. CASE StopStep
  BY <1>8 DEF StopStep, StopBegin, Dispose, StopWait, StopReturn, threadVars, taskVars
<1>9. CASE UNCHANGED bookVars
  BY <1>9 DEF bookVars
<1> QED
  BY <1>1, <1>2, <1>3, <1>4, <1>5, <1>6, <1>7, <1>8, <1>9, LateLeaves
     DEF Next, ThreadStep, LoopStep

\* _pending_tasks.add and the callback that removes from it (lines 121-122):
\* what leaves the set, or has yet to enter it, is accounted for.
LEMMA PendingStep ==
    ASSUME TypeOK, TypeOK', HandInv, CallbackInv, PendingComplete, [Next]_vars
    PROVE  PendingComplete'
<1> USE DEF TypeOK, PendingComplete, Creating, Unfinished
<1>1. ASSUME NEW t \in Threads, NEW k \in Keys, OnEvent(t, k)
      PROVE  PendingComplete'
  BY <1>1 DEF OnEvent, taskVars
<1>2. ASSUME NEW t \in Threads, CreateTask(t) PROVE PendingComplete'
  BY <1>2 DEF CreateTask
<1>3. ASSUME NEW t \in Threads, AddDoneCallback(t) PROVE PendingComplete'
  BY <1>3 DEF AddDoneCallback, taskVars
<1>4. ASSUME NEW t \in Threads, AddPending(t) PROVE PendingComplete'
  BY <1>4 DEF AddPending, taskVars
<1>5. ASSUME NEW i \in TaskIds, Begin(i) PROVE PendingComplete'
  BY <1>5 DEF Begin, Finish, threadVars, taskVars
<1>6. ASSUME NEW i \in TaskIds, Commit(i) PROVE PendingComplete'
  BY <1>6 DEF Commit, threadVars, taskVars
<1>7. ASSUME NEW i \in TaskIds, SaveFails(i) \/ Return(i) PROVE PendingComplete'
  BY <1>7 DEF SaveFails, Return, Finish, threadVars, taskVars
<1>8. ASSUME NEW i \in TaskIds, DoneCallback(i) PROVE PendingComplete'
  BY <1>8 DEF DoneCallback, CallbackInv, Finished, threadVars, taskVars
<1>9. CASE StopStep
  BY <1>9 DEF StopStep, StopBegin, Dispose, StopWait, StopReturn, threadVars, taskVars
<1>10. CASE UNCHANGED bookVars
  BY <1>10 DEF bookVars
<1> QED
  BY <1>1, <1>2, <1>3, <1>4, <1>5, <1>6, <1>7, <1>8, <1>9, <1>10, LateLeaves
     DEF Next, ThreadStep, LoopStep

\* stop() (lines 112-117): what it takes to wait for covers every unfinished
\* save but those of threads caught in a callback, and goes on doing so.
LEMMA StopStepInv ==
    ASSUME TypeOK, TypeOK', HandInv, PendingComplete, StopInv, [Next]_vars
    PROVE  StopInv'
<1> USE DEF TypeOK, StopInv, Unfinished
<1>1. ASSUME NEW t \in Threads, NEW k \in Keys, OnEvent(t, k) PROVE StopInv'
  <2>1. stop \notin {"waiting", "stopped"} /\ stop' = stop
    BY <1>1 DEF OnEvent, stopVars
  <2> QED
    BY <2>1
<1>2. ASSUME NEW t \in Threads, CreateTask(t) PROVE StopInv'
  BY <1>2 DEF CreateTask, stopVars
<1>3. ASSUME NEW t \in Threads, AddDoneCallback(t) PROVE StopInv'
  BY <1>3 DEF AddDoneCallback, stopVars, taskVars
<1>4. ASSUME NEW t \in Threads, AddPending(t) PROVE StopInv'
  BY <1>4 DEF AddPending, stopVars, taskVars
<1>5. ASSUME NEW i \in TaskIds,
             Begin(i) \/ Commit(i) \/ SaveFails(i) \/ Return(i) \/ DoneCallback(i)
      PROVE  StopInv'
  <2>1. /\ pc' = pc /\ maker' = maker /\ stop' = stop /\ disposed' = disposed
        /\ waitset' = waitset /\ inflight' = inflight
        /\ \A j \in TaskIds : Unfinished(j)' => Unfinished(j)
    BY <1>5 DEF Begin, Commit, SaveFails, Return, DoneCallback, Finish,
                threadVars, taskVars, stopVars
  <2> QED
    BY <2>1
<1>6. CASE StopBegin \/ \E k \in Keys : Dispose(k)
  BY <1>6 DEF StopBegin, Dispose, threadVars
<1>7. CASE StopWait
  <2>1. /\ disposed' = Keys /\ stop' \in {"waiting", "stopped"}
        /\ pc' = pc /\ maker' = maker /\ st' = st /\ waitset' = pending
        /\ inflight' = {t \in Threads : pc[t] # "idle"}
        /\ stop' = "stopped" => pending = {}
    BY <1>7 DEF StopWait, threadVars, taskVars
  <2>2. \A i \in TaskIds : Unfinished(i) => i \in pending \/ maker[i] \in inflight'
    BY <2>1 DEF PendingComplete, HandInv, Creating
  <2> QED
    BY <2>1, <2>2
<1>8. CASE StopReturn
  BY <1>8 DEF StopReturn, Finished, threadVars, taskVars
<1>9. CASE UNCHANGED bookVars
  BY <1>9 DEF bookVars
<1> QED
  BY <1>1, <1>2, <1>3, <1>4, <1>5, <1>6, <1>7, <1>8, <1>9, LateLeaves
     DEF Next, ThreadStep, LoopStep, StopStep

\* _pending_tasks and the done callback: a task is in the set only while its
\* callback is still to run, or if the callback overtook line 122.
LEMMA LiveStep ==
    ASSUME TypeOK, TypeOK', HandInv, LiveInv, [Next]_vars
    PROVE  LiveInv'
<1> USE DEF TypeOK, LiveInv, PendingIsLive
<1>1. ASSUME NEW t \in Threads, NEW k \in Keys, OnEvent(t, k) PROVE LiveInv'
  <2> DEFINE e == <<k, pub[k] + 1>>
  <2>1. /\ e \in TaskIds /\ e[1] = k /\ e[2] = pub[k] + 1 /\ pub[k] \in Nat
        /\ cb[e] = "none" /\ e \notin pending
    BY <1>1 DEF OnEvent, TaskIds, Versions
  <2>2. /\ pub' = [pub EXCEPT ![k] = pub[k] + 1]
        /\ job' = [job EXCEPT ![t] = e]
        /\ pc' = [pc EXCEPT ![t] = "called"]
        /\ cb' = cb /\ pending' = pending /\ keyErrors' = keyErrors
    BY <1>1 DEF OnEvent
  <2>3. \A i \in TaskIds : i[1] \in Keys /\ i[2] \in Nat
    BY DEF TaskIds, Versions
  <2>4. \A i \in TaskIds : i[2] > pub'[i[1]] => cb'[i] = "none" /\ i \notin pending'
    BY <2>1, <2>2, <2>3
  <2> QED
    BY <2>1, <2>2, <2>4
<1>2. ASSUME NEW t \in Threads, CreateTask(t) PROVE LiveInv'
  BY <1>2 DEF CreateTask
<1>3. ASSUME NEW t \in Threads, AddDoneCallback(t) PROVE LiveInv'
  <2>1. /\ pub' = pub /\ job' = job /\ pending' = pending /\ keyErrors' = keyErrors
        /\ pc[t] = "created" /\ job[t] \in TaskIds /\ job[t] \notin pending
        /\ pc' = [pc EXCEPT ![t] = "registered"]
        /\ \/ cb' = [cb EXCEPT ![job[t]] = "scheduled"]
           \/ cb' = [cb EXCEPT ![job[t]] = "registered"]
    BY <1>3 DEF AddDoneCallback
  <2>2. ~(job[t][2] > pub[job[t][1]])
    <3>3. \A i \in TaskIds : i[1] \in Keys /\ i[2] \in Nat
      BY DEF TaskIds, Versions
    <3>1. job[t][1] \in Keys /\ job[t][2] \in Nat /\ job[t][2] <= pub[job[t][1]]
      BY <2>1, <3>3 DEF HandInv
    <3>2. pub[job[t][1]] \in Nat /\ \A a, b \in Nat : a <= b => ~(a > b)
      BY <3>1
    <3> QED
      BY <3>1, <3>2
  <2>3. cb'[job[t]] \in {"registered", "scheduled"}
    BY <2>1
  <2>4. \A i \in TaskIds : i # job[t] => cb'[i] = cb[i]
    BY <2>1
  <2> HIDE DEF HandInv
  <2>5. \A i \in TaskIds : i[2] > pub'[i[1]] => cb'[i] = "none" /\ i \notin pending'
    BY <2>1, <2>2, <2>4
  <2>6. \A u \in Threads : pc'[u] # "idle" => job'[u] \notin pending'
    BY <2>1
  <2>7. \A u \in Threads : pc'[u] = "registered" =>
           /\ cb'[job'[u]] # "none"
           /\ cb'[job'[u]] = "fired" => job'[u] \in keyErrors'
    <3> TAKE u \in Threads
    <3>1. CASE job[u] = job[t]
      BY <2>1, <2>3, <3>1
    <3>2. CASE job[u] # job[t]
      BY <2>1, <2>4, <3>2
    <3> QED
      BY <3>1, <3>2
  <2>8. \A i \in pending' : cb'[i] \in {"registered", "scheduled"} \/ i \in keyErrors'
    BY <2>1, <2>4
  <2> QED
    BY <2>5, <2>6, <2>7, <2>8
<1>4. ASSUME NEW t \in Threads, AddPending(t) PROVE LiveInv'
  <2>1. /\ pub' = pub /\ job' = job /\ cb' = cb /\ keyErrors' = keyErrors
        /\ pc[t] = "registered" /\ job[t] \in TaskIds
        /\ pc' = [pc EXCEPT ![t] = "idle"]
        /\ pending' = pending \cup {job[t]}
    BY <1>4 DEF AddPending
  <2>2. ~(job[t][2] > pub[job[t][1]])
    BY <2>1 DEF HandInv, TaskIds, Versions
  <2>3. \A u \in Threads : u # t /\ pc[u] # "idle" => job[u] # job[t]
    BY <2>1 DEF HandInv
  <2>4. cb[job[t]] \in {"registered", "scheduled"} \/ job[t] \in keyErrors
    BY <2>1 DEF CallbackStates
  <2> QED
    BY <2>1, <2>2, <2>3, <2>4
<1>5. ASSUME NEW i \in TaskIds, Begin(i) \/ Commit(i) \/ SaveFails(i) \/ Return(i)
      PROVE  LiveInv'
  <2>1. /\ pub' = pub /\ job' = job /\ pc' = pc
        /\ pending' = pending /\ keyErrors' = keyErrors
        /\ \A j \in TaskIds :
              cb'[j] = cb[j] \/ (cb[j] = "registered" /\ cb'[j] = "scheduled")
    BY <1>5 DEF Begin, Commit, SaveFails, Return, Finish, threadVars
  <2> QED
    BY <2>1
<1>6. ASSUME NEW i \in TaskIds, DoneCallback(i) PROVE LiveInv'
  BY <1>6 DEF DoneCallback, threadVars
<1>7. CASE StopStep
  BY <1>7 DEF StopStep, StopBegin, Dispose, StopWait, StopReturn, threadVars
<1>8. CASE UNCHANGED bookVars
  BY <1>8 DEF bookVars
<1> QED
  BY <1>1, <1>2, <1>3, <1>4, <1>5, <1>6, <1>7, <1>8, LateLeaves DEF Next, ThreadStep, LoopStep

\* stop() (lines 112-117) and the threads it catches inside a callback: each of
\* them creates no task but the one it is at.
LEMMA LateStep ==
    ASSUME TypeOK, TypeOK', HandInv, PendingComplete, StopInv, LateInv, [Next]_vars
    PROVE  LateInv'
<1> USE DEF TypeOK, LateInv, Unfinished, Finished
<1>1. ASSUME NEW t \in Threads, NEW k \in Keys, OnEvent(t, k) PROVE LateInv'
  <2>1. stop \notin {"waiting", "stopped"} /\ stop' = stop
    BY <1>1 DEF OnEvent, stopVars, StopInv
  <2> QED
    BY <2>1
<1>2. ASSUME NEW t \in Threads, CreateTask(t) PROVE LateInv'
  BY <1>2 DEF CreateTask, stopVars, HandInv
<1>3. ASSUME NEW t \in Threads, AddDoneCallback(t) \/ AddPending(t) PROVE LateInv'
  BY <1>3 DEF AddDoneCallback, AddPending, stopVars, taskVars
<1>4. ASSUME NEW i \in TaskIds,
             Begin(i) \/ Commit(i) \/ SaveFails(i) \/ Return(i) \/ DoneCallback(i)
      PROVE  LateInv'
  <2>1. /\ job' = job /\ maker' = maker /\ stop' = stop /\ waitset' = waitset
        /\ \A j \in TaskIds : Unfinished(j)' => Unfinished(j)
        /\ \A j \in TaskIds : Finished(j) => Finished(j)'
    BY <1>4 DEF Begin, Commit, SaveFails, Return, DoneCallback, Finish,
                threadVars, taskVars, stopVars
  <2> QED
    BY <2>1
<1>5. CASE StopBegin \/ \E k \in Keys : Dispose(k)
  BY <1>5 DEF StopBegin, Dispose, threadVars
<1>6. CASE StopWait
  <2>1. /\ waitset' = pending /\ st' = st /\ maker' = maker /\ job' = job
        /\ stop' = "stopped" => pending = {}
    BY <1>6 DEF StopWait, threadVars, taskVars
  <2>2. \A i \in TaskIds : Unfinished(i) /\ i \notin pending => job[maker[i]] = i
    BY DEF PendingComplete, HandInv, Creating
  <2> QED
    BY <2>1, <2>2
<1>7. CASE StopReturn
  BY <1>7 DEF StopReturn, threadVars, taskVars
<1>8. CASE UNCHANGED bookVars
  BY <1>8 DEF bookVars
<1> QED
  BY <1>1, <1>2, <1>3, <1>4, <1>5, <1>6, <1>7, <1>8, LateLeaves
     DEF Next, ThreadStep, LoopStep, StopStep

-----------------------------------------------------------------------------
\* Nothing is published, created or awaited when start() returns.
LEMMA StrengthenedInit == Init => IInv
BY TypeInit
   DEF Init, IInv, HandInv, CallbackInv, PendingComplete, StopInv, LiveInv, LateInv,
       PendingIsLive, Creating, Unfinished, Finished

\* The conjuncts together: each one's step uses those before it.
LEMMA StrengthenedStep == ASSUME IInv, [Next]_vars PROVE IInv'
BY TypeStep, HandStep, CallbackStep, PendingStep, StopStepInv, LiveStep, LateStep
   DEF IInv

\* The strengthening behind PendingComplete and CleanStop: who holds an event,
\* whose callback ran, what _pending_tasks holds and what stop() waits for.
THEOREM InductiveInvariant == Spec => []IInv
BY StrengthenedInit, StrengthenedStep, PTL DEF Spec

\* book_keeper.py _create_task 119-122: whatever the threads do, an unfinished
\* save is in _pending_tasks or its thread is still inside _create_task.
THEOREM PendingIsComplete == Spec => []PendingComplete
BY InductiveInvariant, PTL DEF IInv

\* book_keeper.py stop 112-117: a stop() that finds no thread in a callback
\* leaves no save running.
THEOREM StopIsClean == Spec => []CleanStop
<1>1. IInv => CleanStop
  BY DEF IInv, StopInv, CleanStop
<1> QED
  BY <1>1, InductiveInvariant, PTL

\* book_keeper.py _create_task 121-122: a task that stays in _pending_tasks
\* for ever is one whose callback overtook the add and raised KeyError.
THEOREM PendingStaysLive == Spec => []PendingIsLive
BY InductiveInvariant, PTL DEF IInv, LiveInv

\* book_keeper.py stop 112-117: at most one save for each thread that stop()
\* found inside a callback outlives it.
THEOREM LateIsBounded == Spec => []AtMostOneLate
<1>1. IInv => AtMostOneLate
  <2> SUFFICES ASSUME IInv, stop = "stopped",
                      NEW i \in TaskIds, NEW j \in TaskIds,
                      Unfinished(i), Unfinished(j)
               PROVE  maker[i] \in inflight /\ (maker[i] = maker[j] => i = j)
    BY DEF AtMostOneLate, InState, Unfinished
  <2>1. i \notin waitset /\ j \notin waitset
    BY DEF IInv, LateInv, Finished, Unfinished
  <2>2. job[maker[i]] = i /\ job[maker[j]] = j
    BY <2>1 DEF IInv, LateInv
  <2> QED
    BY <2>2 DEF IInv, StopInv
<1> QED
  BY <1>1, InductiveInvariant, PTL

\* book_keeper.py 112-122: what the run checks of stop() on two threads holds
\* for any number of them.
THEOREM StopStaysSound == Spec => []StopIsSound
BY PendingIsComplete, StopIsClean, PendingStaysLive, LateIsBounded, PTL DEF StopIsSound

-----------------------------------------------------------------------------
(* The order of the saves, with one connection (sqlite) and one thread     *)
(* that publishes the events of a key (the spin thread publishes all       *)
(* states).  The rows of two keys differ: each model has its own table.    *)

OneWriter ==
    /\ PoolSize = 1
    /\ \A k \in Keys : \A t, u \in Publishers[k] : t = u
    /\ \A k, l \in Keys : \A r \in UNION RowSets[k] : r \in UNION RowSets[l] => k = l

Connected(i) == st[i] \in {"saving", "committed"}
Begun(i)     == Connected(i) \/ Finished(i)
Saved(i)     == st[i] \in {"committed", "done"}
Earlier(i, j) == i[1] = j[1] /\ i[2] < j[2]

\* An event that was published and is not a task yet is in the hands of a thread.
HeldInv ==
    /\ \A t \in Threads : pc[t] # "idle" => t \in Publishers[job[t][1]]
    /\ \A i \in TaskIds : i[2] <= pub[i[1]] =>
          /\ rows[i] \in RowSets[i[1]]
          /\ st[i] = "absent" => \E t \in Threads : pc[t] = "called" /\ job[t] = i

\* The tasks of a key are created in the order of its events.
BornInv ==
    /\ \A i \in TaskIds : st[i] # "absent" => born[i] <= made
    /\ \A i, j \in TaskIds :
          st[i] # "absent" /\ st[j] # "absent" /\ born[i] = born[j] => i = j
    /\ \A i, j \in TaskIds :
          Earlier(i, j) /\ st[j] # "absent" => st[i] # "absent" /\ born[i] < born[j]

\* One save has the connection, and it was created before all that wait for it.
QueueInv ==
    /\ \A i, j \in TaskIds : Connected(i) /\ Connected(j) => i = j
    /\ \A i, j \in TaskIds :
          Begun(i) /\ rows[i] # {} /\ st[j] = "ready" /\ rows[j] # {} => born[i] < born[j]
    /\ \A i, j \in TaskIds :
          Earlier(i, j) /\ Begun(j) /\ rows[i] # {} /\ rows[j] # {} => Finished(i)

\* What a failed event may still write is part of its rows, and never all.
LeftInv ==
    \A i \in TaskIds : late[i] # {} =>
        st[i] = "failed" /\ late[i] \subseteq rows[i] /\ late[i] # rows[i]

\* A row holds the last event that was saved in it, unless a failed event of
\* several rows wrote it last.
DbInv ==
    /\ \A i \in TaskIds : Saved(i) => \A r \in rows[i] : i[2] <= db[r] \/ Torn(r)
    /\ \A r \in Rows : db[r] # 0 =>
          \/ Torn(r)
          \/ \E i \in TaskIds : Saved(i) /\ r \in rows[i] /\ i[2] = db[r]

OrderInv == HeldInv /\ BornInv /\ QueueInv /\ LeftInv /\ DbInv

LEMMA Below ==
    \A a, b \in Nat : /\ a <= b + 1 /\ a # b + 1 => a <= b
                     /\ a <= b /\ a # b => a < b
OBVIOUS

\* No step takes a task back, and only create_task makes one.
LEMMA TaskStep ==
    ASSUME TypeOK, HandInv, [Next]_vars
    PROVE  \/ /\ UNCHANGED <<born, made>>
              /\ \A i \in TaskIds : st'[i] = "absent" <=> st[i] = "absent"
           \/ \E t \in Threads : CreateTask(t)
<1> USE DEF TypeOK
<1>1. ASSUME NEW i \in TaskIds, NEW s \in TaskStates \ {"absent"}, st[i] # "absent",
             st' = [st EXCEPT ![i] = s]
      PROVE  \A j \in TaskIds : st'[j] = "absent" <=> st[j] = "absent"
  BY <1>1
<1>2. ASSUME NEW t \in Threads, NEW k \in Keys, OnEvent(t, k)
      PROVE  UNCHANGED <<st, born, made>>
  BY <1>2 DEF OnEvent, taskVars
<1>3. ASSUME NEW t \in Threads, AddDoneCallback(t) \/ AddPending(t)
      PROVE  UNCHANGED <<st, born, made>>
  BY <1>3 DEF AddDoneCallback, AddPending, taskVars
<1>4. ASSUME NEW i \in TaskIds,
             Begin(i) \/ Commit(i) \/ SaveFails(i) \/ Return(i) \/ DoneCallback(i)
      PROVE  /\ UNCHANGED <<born, made>>
             /\ \/ UNCHANGED st
                \/ /\ st[i] # "absent"
                   /\ \E s \in TaskStates \ {"absent"} : st' = [st EXCEPT ![i] = s]
  BY <1>4 DEF Begin, Commit, SaveFails, Return, DoneCallback, Finish, taskVars, TaskStates
<1>5. StopStep => UNCHANGED <<st, born, made>>
  BY DEF StopStep, StopBegin, Dispose, StopWait, StopReturn, taskVars
<1>6. UNCHANGED bookVars => UNCHANGED <<st, born, made>>
  BY DEF bookVars
<1> QED
  BY <1>1, <1>2, <1>3, <1>4, <1>5, <1>6, LateLeaves DEF Next, ThreadStep, LoopStep

LEMMA HeldStep ==
    ASSUME TypeOK, TypeOK', HandInv, HeldInv, [Next]_vars PROVE HeldInv'
<1> USE DEF TypeOK, HandInv, HeldInv
<1>1. ASSUME NEW t \in Threads, NEW k \in Keys, OnEvent(t, k) PROVE HeldInv'
  <2> DEFINE e == <<k, pub[k] + 1>>
  <2>1. /\ e \in TaskIds /\ e[1] = k /\ e[2] = pub[k] + 1 /\ pub[k] \in Nat
        /\ t \in Publishers[k]
    BY <1>1 DEF OnEvent, TaskIds, Versions
  <2>2. PICK rs \in RowSets[k] : rows' = [rows EXCEPT ![e] = rs]
    BY <1>1 DEF OnEvent
  <2>3. /\ pub' = [pub EXCEPT ![k] = pub[k] + 1]
        /\ job' = [job EXCEPT ![t] = e] /\ pc' = [pc EXCEPT ![t] = "called"]
        /\ pc[t] = "idle" /\ st' = st
    BY <1>1 DEF OnEvent
  <2>4. \A i \in TaskIds : i[1] \in Keys /\ i[2] \in Nat /\ i = <<i[1], i[2]>>
    BY DEF TaskIds, Versions
  <2> HIDE DEF e
  <2>5. \A u \in Threads : pc'[u] # "idle" => u \in Publishers[job'[u][1]]
    BY <2>1, <2>3
  <2>6. ASSUME NEW i \in TaskIds, i[2] <= pub'[i[1]], i # e
        PROVE  i[2] <= pub[i[1]]
    <3>1. CASE i[1] # k
      BY <2>3, <2>4, <2>6, <3>1
    <3>2. CASE i[1] = k
      <4>1. i[2] <= pub[k] + 1
        BY <2>3, <2>6, <3>2
      <4>2. i[2] # pub[k] + 1
        <5>1. i[2] = pub[k] + 1 => <<i[1], i[2]>> = <<k, pub[k] + 1>>
          BY <3>2
        <5> QED
          BY <2>4, <2>6, <5>1 DEF e
      <4>3. i[2] <= pub[k]
        BY <2>1, <2>4, <4>1, <4>2, Below
      <4> QED
        BY <3>2, <4>3
    <3> QED
      BY <3>1, <3>2
  <2>7. ASSUME NEW i \in TaskIds, i[2] <= pub'[i[1]]
        PROVE  /\ rows'[i] \in RowSets[i[1]]
               /\ st'[i] = "absent" => \E u \in Threads : pc'[u] = "called" /\ job'[u] = i
    <3>1. CASE i = e
      BY <2>1, <2>2, <2>3, <3>1
    <3>2. CASE i # e
      <4>1. rows[i] \in RowSets[i[1]] /\ rows'[i] = rows[i]
        BY <2>2, <2>6, <2>7, <3>2
      <4>2. ASSUME st[i] = "absent" PROVE \E u \in Threads : pc'[u] = "called" /\ job'[u] = i
        <5>1. PICK u \in Threads : pc[u] = "called" /\ job[u] = i
          BY <2>6, <2>7, <3>2, <4>2
        <5>2. u # t
          BY <5>1, <2>3
        <5> QED
          BY <5>1, <5>2, <2>3
      <4> QED
        BY <4>1, <4>2, <2>3
    <3> QED
      BY <3>1, <3>2
  <2> QED
    BY <2>5, <2>7
<1>2. ASSUME NEW t \in Threads, CreateTask(t) PROVE HeldInv'
  <2>1. /\ UNCHANGED <<pub, job, rows>> /\ pc[t] = "called" /\ job[t] \in TaskIds
        /\ st' = [st EXCEPT ![job[t]] = "ready"] /\ pc' = [pc EXCEPT ![t] = "created"]
    BY <1>2 DEF CreateTask
  <2>2. ASSUME NEW i \in TaskIds, i[2] <= pub[i[1]], st'[i] = "absent"
        PROVE  \E u \in Threads : pc'[u] = "called" /\ job[u] = i
    <3>1. i # job[t] /\ st[i] = "absent"
      BY <2>1, <2>2
    <3>2. PICK u \in Threads : pc[u] = "called" /\ job[u] = i
      BY <2>2, <3>1
    <3> QED
      BY <2>1, <3>1, <3>2
  <2>3. \A u \in Threads : pc'[u] # "idle" => pc[u] # "idle"
    BY <2>1
  <2> QED
    BY <2>1, <2>2, <2>3
<1>3. ASSUME NEW t \in Threads, AddDoneCallback(t) \/ AddPending(t) PROVE HeldInv'
  <2>1. /\ UNCHANGED <<pub, job, rows, st>> /\ pc[t] \in {"created", "registered"}
        /\ pc' = [pc EXCEPT ![t] = "registered"] \/ pc' = [pc EXCEPT ![t] = "idle"]
    BY <1>3 DEF AddDoneCallback, AddPending
  <2>2. \A u \in Threads : /\ pc'[u] # "idle" => pc[u] # "idle"
                           /\ pc[u] = "called" => pc'[u] = "called"
    BY <2>1
  <2> QED
    BY <2>1, <2>2
<1>4. ASSUME UNCHANGED threadVars,
             \A i \in TaskIds : st'[i] = "absent" => st[i] = "absent"
      PROVE  HeldInv'
  BY <1>4 DEF threadVars
<1>5. ASSUME NEW i \in TaskIds,
             Begin(i) \/ Commit(i) \/ SaveFails(i) \/ Return(i) \/ DoneCallback(i)
      PROVE  HeldInv'
  <2>1. UNCHANGED threadVars
    BY <1>5 DEF Begin, Commit, SaveFails, Return, DoneCallback, threadVars
  <2>2. \A j \in TaskIds : st'[j] = "absent" => st[j] = "absent"
    BY <1>5 DEF Begin, Commit, SaveFails, Return, DoneCallback, Finish
  <2> QED
    BY <2>1, <2>2, <1>4
<1>6. CASE StopStep \/ UNCHANGED bookVars
  <2>1. UNCHANGED threadVars /\ UNCHANGED st
    BY <1>6 DEF StopStep, StopBegin, Dispose, StopWait, StopReturn, threadVars, bookVars
  <2> QED
    BY <2>1, <1>4
<1> QED
  BY <1>1, <1>2, <1>3, <1>5, <1>6, LateLeaves DEF Next, ThreadStep, LoopStep

LEMMA BornStep ==
    ASSUME OneWriter, TypeOK, TypeOK', HandInv, HeldInv, BornInv, [Next]_vars PROVE BornInv'
<1> USE DEF TypeOK, BornInv
<1>1. CASE /\ UNCHANGED <<born, made>>
           /\ \A i \in TaskIds : st'[i] = "absent" <=> st[i] = "absent"
  BY <1>1
<1>2. ASSUME NEW t \in Threads, CreateTask(t) PROVE BornInv'
  <2>1. PICK e \in TaskIds : e = job[t]
    BY <1>2 DEF CreateTask
  <2>2. /\ pc[t] = "called" /\ st[e] = "absent" /\ e[2] <= pub[e[1]] /\ t \in Publishers[e[1]]
        /\ st' = [st EXCEPT ![e] = "ready"]
        /\ born' = [born EXCEPT ![e] = made + 1] /\ made' = made + 1
    BY <1>2, <2>1 DEF CreateTask, HandInv, HeldInv
  <2>3. \A i \in TaskIds : born[i] \in Nat /\ made \in Nat /\ i[1] \in Keys /\ i[2] \in Nat
    BY DEF TaskIds, Versions
  <2>4. /\ st'[e] = "ready" /\ born'[e] = made + 1
        /\ \A i \in TaskIds : i # e => st'[i] = st[i] /\ born'[i] = born[i]
    BY <2>2
  <2>5. \A i \in TaskIds : Earlier(i, e) => st[i] # "absent"
    <3> SUFFICES ASSUME NEW i \in TaskIds, Earlier(i, e), st[i] = "absent" PROVE FALSE
      OBVIOUS
    <3>1. i[2] <= pub[i[1]] /\ i # e /\ i[1] = e[1] /\ e[1] \in Keys
      <4>1. pub[e[1]] \in Nat
        BY <2>3
      <4> QED
        BY <2>2, <2>3, <4>1 DEF Earlier
    <3>2. PICK u \in Threads : pc[u] = "called" /\ job[u] = i
      BY <3>1 DEF HeldInv
    <3>3. u \in Publishers[e[1]]
      BY <3>1, <3>2 DEF HeldInv
    <3>4. u = t
      BY <3>1, <3>3, <2>2 DEF OneWriter
    <3> QED
      BY <3>1, <3>2, <3>4, <2>1
  <2>6. \A i \in TaskIds : st'[i] # "absent" => born'[i] <= made'
    BY <2>2, <2>3, <2>4
  <2>7. \A i, j \in TaskIds :
           st'[i] # "absent" /\ st'[j] # "absent" /\ born'[i] = born'[j] => i = j
    <3>1. \A i \in TaskIds : i # e /\ st[i] # "absent" => born[i] # made + 1
      <4>1. \A a, b \in Nat : a <= b => a # b + 1
        OBVIOUS
      <4> QED
        BY <2>3, <4>1
    <3> QED
      BY <2>4, <3>1
  <2>8. \A i, j \in TaskIds :
           Earlier(i, j) /\ st'[j] # "absent" => st'[i] # "absent" /\ born'[i] < born'[j]
    <3> SUFFICES ASSUME NEW i \in TaskIds, NEW j \in TaskIds, Earlier(i, j), st'[j] # "absent"
                 PROVE  st'[i] # "absent" /\ born'[i] < born'[j]
      OBVIOUS
    <3>1. CASE j = e
      <4>1. st[i] # "absent" /\ i # e
        BY <3>1, <2>5, <2>2
      <4> QED
        BY <3>1, <4>1, <2>3, <2>4
    <3>2. CASE j # e
      <4>1. st[i] # "absent" /\ born[i] < born[j]
        BY <3>2, <2>4
      <4>2. i # e
        BY <4>1, <2>2
      <4> QED
        BY <3>2, <4>1, <4>2, <2>4
    <3> QED
      BY <3>1, <3>2
  <2> QED
    BY <2>6, <2>7, <2>8 DEF Earlier
<1> QED
  BY <1>1, <1>2, TaskStep

LEMMA QueueStep ==
    ASSUME OneWriter, TypeOK, TypeOK', HandInv, HeldInv, BornInv, QueueInv, [Next]_vars
    PROVE  QueueInv'
<1> USE DEF TypeOK, QueueInv, Connected, Begun, Finished
<1>1. CASE UNCHANGED <<st, rows, born>>
  BY <1>1
<1>2. ASSUME NEW t \in Threads, NEW k \in Keys, OnEvent(t, k) PROVE QueueInv'
  <2>1. PICK e \in TaskIds :
           st[e] = "absent" /\ \A i \in TaskIds : i # e => rows'[i] = rows[i]
    <3>1. <<k, pub[k] + 1>> \in TaskIds /\ pub[k] \in Nat
      BY <1>2 DEF OnEvent, TaskIds, Versions
    <3>2. st[<<k, pub[k] + 1>>] = "absent"
      BY <3>1 DEF HandInv
    <3> QED
      BY <1>2, <3>1, <3>2 DEF OnEvent
  <2>2. UNCHANGED <<st, born>>
    BY <1>2 DEF OnEvent, taskVars
  <2>3. \A j \in TaskIds : Begun(j) => ~Earlier(e, j)
    BY <2>1 DEF BornInv
  <2> QED
    BY <2>1, <2>2, <2>3
<1>3. ASSUME NEW t \in Threads, CreateTask(t) PROVE QueueInv'
  <2>1. PICK e \in TaskIds : e = job[t]
    BY <1>3 DEF CreateTask
  <2>2. /\ st[e] = "absent" /\ st'[e] = "ready" /\ born'[e] = made + 1
        /\ \A i \in TaskIds : i # e => st'[i] = st[i] /\ born'[i] = born[i]
        /\ UNCHANGED rows
    BY <1>3, <2>1 DEF CreateTask, HandInv
  <2>3. \A i \in TaskIds : Begun(i) => born[i] < made + 1
    <3> TAKE i \in TaskIds
    <3>1. Begun(i) => st[i] # "absent"
      OBVIOUS
    <3>2. born[i] \in Nat /\ made \in Nat
      OBVIOUS
    <3>3. st[i] # "absent" => born[i] <= made
      BY DEF BornInv
    <3> QED
      BY <3>1, <3>2, <3>3
  <2> QED
    BY <2>2, <2>3, ZenonT(30)
<1>4. ASSUME NEW e \in TaskIds, Begin(e), rows[e] # {} PROVE QueueInv'
  <2>1. /\ st[e] = "ready" /\ st' = [st EXCEPT ![e] = "saving"] /\ UNCHANGED <<rows, born>>
        /\ \A j \in TaskIds : st[j] = "ready" /\ rows[j] # {} => born[e] <= born[j]
        /\ Cardinality(InState("saving") \cup InState("committed")) < 1
    BY <1>4 DEF Begin, InState, threadVars, taskVars, OneWriter
  <2>2. \A i \in TaskIds : ~Connected(i)
    <3> DEFINE B == InState("saving") \cup InState("committed")
    <3>1. \A i, j \in B : i = j
      BY DEF InState
    <3>2. ASSUME NEW x \in B PROVE FALSE
      <4>1. B = {x}
        BY <3>1, <3>2
      <4>2. Cardinality({x}) = 1
        BY FS_Singleton
      <4> HIDE DEF B
      <4>3. Cardinality(B) = 1
        BY <4>1, <4>2
      <4> QED
        BY <2>1, <4>3 DEF B
    <3> QED
      BY <3>2 DEF InState
  <2>3. /\ st'[e] = "saving"
        /\ \A i \in TaskIds : i # e => st'[i] = st[i]
    BY <2>1
  <2>4. \A i, j \in TaskIds : Connected(i)' /\ Connected(j)' => i = j
    BY <2>2, <2>3
  <2>5. ASSUME NEW i \in TaskIds, NEW j \in TaskIds,
               Begun(i)', rows[i] # {}, st'[j] = "ready", rows[j] # {}
        PROVE  born[i] < born[j]
    <3>1. CASE i = e
      <4>1. st[j] = "ready" /\ j # e /\ born[e] <= born[j]
        BY <2>1, <2>3, <2>5
      <4>2. born[e] # born[j] /\ born[e] \in Nat /\ born[j] \in Nat
        BY <2>1, <4>1 DEF BornInv
      <4>3. born[e] < born[j]
        BY <4>1, <4>2, Below
      <4> QED
        BY <3>1, <4>3
    <3>2. CASE i # e
      BY <2>3, <2>5, <3>2
    <3> QED
      BY <3>1, <3>2
  <2>6. ASSUME NEW i \in TaskIds, NEW j \in TaskIds,
               Earlier(i, j), Begun(j)', rows[i] # {}, rows[j] # {}
        PROVE  Finished(i)'
    <3>1. CASE j = e
      <4>1. st[i] # "absent" /\ born[i] < born[e] /\ i # e
        BY <2>1, <2>6, <3>1 DEF BornInv
      <4>2. st[i] # "ready"
        BY <2>1, <2>6, <4>1, SMTT(20)
      <4>3. st[i] \in TaskStates
        OBVIOUS
      <4> QED
        BY <2>2, <2>3, <4>1, <4>2, <4>3 DEF TaskStates
    <3>2. CASE j # e
      BY <2>1, <2>3, <2>6, <3>2
    <3> QED
      BY <3>1, <3>2
  <2> QED
    BY <2>1, <2>4, <2>5, <2>6 DEF Earlier
<1>5. ASSUME NEW e \in TaskIds, Begin(e), rows[e] = {} PROVE QueueInv'
  <2>1. st[e] = "ready" /\ st' = [st EXCEPT ![e] = "done"] /\ UNCHANGED <<rows, born>>
    BY <1>5 DEF Begin, Finish, threadVars, taskVars
  <2> QED
    BY <1>5, <2>1, SMTT(20) DEF Earlier
<1>6. ASSUME NEW e \in TaskIds, Commit(e) \/ SaveFails(e) \/ Return(e) PROVE QueueInv'
  <2>1. PICK s \in {"committed", "done", "failed"} : st' = [st EXCEPT ![e] = s]
    BY <1>6 DEF Commit, SaveFails, Return, Finish
  <2>2. Connected(e) /\ UNCHANGED <<rows, born>>
    BY <1>6 DEF Commit, SaveFails, Return, threadVars, taskVars
  <2>3. /\ st'[e] \in {"committed", "done", "failed"}
        /\ \A i \in TaskIds : i # e => st'[i] = st[i]
    BY <2>1
  <2>4. \A i \in TaskIds : /\ Connected(i)' => Connected(i)
                           /\ Begun(i)' <=> Begun(i)
                           /\ Finished(i) => Finished(i)'
                           /\ st'[i] = "ready" <=> st[i] = "ready"
    BY <2>2, <2>3
  <2> QED
    BY <2>2, <2>4 DEF Earlier
<1>7. ASSUME NEW t \in Threads, AddDoneCallback(t) \/ AddPending(t)
      PROVE  UNCHANGED <<st, rows, born>>
  BY <1>7 DEF AddDoneCallback, AddPending, taskVars
<1>8. ASSUME NEW i \in TaskIds, DoneCallback(i) PROVE UNCHANGED <<st, rows, born>>
  BY <1>8 DEF DoneCallback, threadVars, taskVars
<1>9. StopStep \/ UNCHANGED bookVars => UNCHANGED <<st, rows, born>>
  BY DEF StopStep, StopBegin, Dispose, StopWait, StopReturn, threadVars, taskVars, bookVars
<1> QED
  BY <1>1, <1>2, <1>3, <1>4, <1>5, <1>6, <1>7, <1>8, <1>9, LateLeaves
  DEF Next, ThreadStep, LoopStep

\* The rows of an event are chosen when it arrives, before it has a task.
LEMMA FreshRows ==
    ASSUME TypeOK, TypeOK', HandInv, NEW t \in Threads, NEW k \in Keys, OnEvent(t, k)
    PROVE  \E e \in TaskIds :
              st[e] = "absent" /\ \A i \in TaskIds : i # e => rows'[i] = rows[i]
<1> USE DEF TypeOK
<1>1. <<k, pub[k] + 1>> \in TaskIds /\ pub[k] \in Nat
  BY DEF OnEvent, TaskIds, Versions
<1>2. st[<<k, pub[k] + 1>>] = "absent"
  BY <1>1 DEF HandInv
<1> QED
  BY <1>1, <1>2 DEF OnEvent

LEMMA LeftStep ==
    ASSUME TypeOK, TypeOK', HandInv, LeftInv, [Next]_vars PROVE LeftInv'
<1> USE DEF TypeOK, LeftInv
<1>1. CASE UNCHANGED <<st, rows, late>>
  BY <1>1
<1>2. ASSUME NEW t \in Threads, NEW k \in Keys, OnEvent(t, k) PROVE LeftInv'
  <2>1. PICK e \in TaskIds :
           st[e] = "absent" /\ \A i \in TaskIds : i # e => rows'[i] = rows[i]
    BY <1>2, FreshRows
  <2>2. UNCHANGED <<st, late>>
    BY <1>2 DEF OnEvent, taskVars
  <2>3. late[e] = {}
    BY <2>1
  <2> QED
    BY <2>1, <2>2, <2>3
<1>3. ASSUME NEW e \in TaskIds, NEW s \in TaskStates, st[e] # "failed",
             st' = [st EXCEPT ![e] = s], UNCHANGED <<rows, late>>
      PROVE  LeftInv'
  BY <1>3
<1>4. ASSUME NEW t \in Threads, CreateTask(t) PROVE LeftInv'
  <2>1. PICK e \in TaskIds : st[e] = "absent" /\ st' = [st EXCEPT ![e] = "ready"]
    BY <1>4 DEF CreateTask, HandInv
  <2>2. UNCHANGED <<rows, late>> /\ "ready" \in TaskStates
    BY <1>4 DEF CreateTask, TaskStates
  <2> QED
    BY <2>1, <2>2, <1>3
<1>5. ASSUME NEW e \in TaskIds, Begin(e) \/ Commit(e) \/ Return(e) PROVE LeftInv'
  <2>1. PICK s \in TaskStates : st' = [st EXCEPT ![e] = s]
    BY <1>5 DEF Begin, Commit, Return, Finish, TaskStates
  <2>2. st[e] # "failed" /\ UNCHANGED <<rows, late>>
    BY <1>5 DEF Begin, Commit, Return, threadVars, taskVars
  <2> QED
    BY <2>1, <2>2, <1>3
<1>6. ASSUME NEW e \in TaskIds, SaveFails(e) PROVE LeftInv'
  <2>1. PICK rs \in (SUBSET rows[e]) \ {rows[e]} : late' = [late EXCEPT ![e] = rs]
    BY <1>6 DEF SaveFails
  <2>2. st' = [st EXCEPT ![e] = "failed"] /\ UNCHANGED rows
    BY <1>6 DEF SaveFails, Finish, threadVars
  <2>3. late'[e] \subseteq rows[e] /\ late'[e] # rows[e] /\ st'[e] = "failed"
    BY <2>1, <2>2
  <2>4. \A i \in TaskIds : i # e => late'[i] = late[i] /\ st'[i] = st[i]
    BY <2>1, <2>2
  <2> QED
    BY <2>2, <2>3, <2>4
<1>7. ASSUME NEW e \in TaskIds, WriteLate(e) \/ LateFails(e) PROVE LeftInv'
  <2>1. PICK r \in late[e] : late' = [late EXCEPT ![e] = late[e] \ {r}]
    BY <1>7 DEF WriteLate, LateFails, Over
  <2>2. UNCHANGED <<st, rows>>
    BY <1>7 DEF WriteLate, LateFails, threadVars
  <2>3. st[e] = "failed" /\ late[e] \subseteq rows[e]
    BY <2>1
  <2> QED
    BY <2>1, <2>2, <2>3
<1>8. ASSUME NEW t \in Threads, AddDoneCallback(t) \/ AddPending(t)
      PROVE  UNCHANGED <<st, rows, late>>
  BY <1>8 DEF AddDoneCallback, AddPending, taskVars
<1>9. ASSUME NEW i \in TaskIds, DoneCallback(i) PROVE UNCHANGED <<st, rows, late>>
  BY <1>9 DEF DoneCallback, threadVars, taskVars
<1>10. StopStep \/ UNCHANGED vars => UNCHANGED <<st, rows, late>>
  BY DEF StopStep, StopBegin, Dispose, StopWait, StopReturn, threadVars, taskVars, vars
<1> QED
  BY <1>1, <1>2, <1>4, <1>5, <1>6, <1>7, <1>8, <1>9, <1>10
     DEF Next, ThreadStep, LoopStep

\* A torn row stays torn as long as it keeps what it holds.
LEMMA TornStays ==
    ASSUME TypeOK, NEW r, Torn(r), db'[r] = db[r],
           \A i \in TaskIds : st[i] = "failed" => st'[i] = "failed" /\ rows'[i] = rows[i]
    PROVE  Torn(r)'
BY DEF Torn, InState

LEMMA DbStep ==
    ASSUME OneWriter, TypeOK, TypeOK', HandInv, HeldInv, QueueInv, LeftInv, DbInv,
           [Next]_vars
    PROVE  DbInv'
<1> USE DEF TypeOK, DbInv, Saved
<1>1. ASSUME UNCHANGED db,
             \A i \in TaskIds : Saved(i) => Saved(i)' /\ rows'[i] = rows[i],
             \A i \in TaskIds : Saved(i)' => Saved(i) \/ rows'[i] = {},
             \A i \in TaskIds :
                st[i] = "failed" => st'[i] = "failed" /\ rows'[i] = rows[i]
      PROVE  DbInv'
  <2>1. \A r \in Rows : Torn(r) => Torn(r)'
    BY <1>1, TornStays
  <2>2. \A i \in TaskIds : Saved(i)' => \A r \in rows'[i] : i[2] <= db'[r] \/ Torn(r)'
    BY <1>1, <2>1
  <2>3. ASSUME NEW r \in Rows, db'[r] # 0, ~Torn(r)'
        PROVE  \E i \in TaskIds : Saved(i)' /\ r \in rows'[i] /\ i[2] = db'[r]
    BY <1>1, <2>1, <2>3
  <2> QED
    BY <2>2, <2>3
<1>2. ASSUME NEW t \in Threads, NEW k \in Keys, OnEvent(t, k) PROVE DbInv'
  <2>1. PICK e \in TaskIds :
           st[e] = "absent" /\ \A i \in TaskIds : i # e => rows'[i] = rows[i]
    BY <1>2, FreshRows
  <2>2. UNCHANGED <<st, db>>
    BY <1>2 DEF OnEvent
  <2> QED
    BY <1>1, <2>1, <2>2
<1>3. ASSUME NEW e \in TaskIds, Commit(e) PROVE DbInv'
  <2>1. /\ st[e] = "saving" /\ st' = [st EXCEPT ![e] = "committed"] /\ UNCHANGED rows
        /\ db' = [r \in Rows |-> IF r \in rows[e] THEN e[2] ELSE db[r]]
    BY <1>3 DEF Commit, threadVars
  <2>2. \A i \in TaskIds : Saved(i)' <=> Saved(i) \/ i = e
    BY <2>1
  <2>3. \A i \in TaskIds : i[1] \in Keys /\ i[2] \in Nat /\ pub[i[1]] \in Nat
    BY DEF TaskIds, Versions
  <2>4. ASSUME NEW i \in TaskIds, st[i] # "absent" PROVE rows[i] \in RowSets[i[1]]
    <3>1. ~(i[2] > pub[i[1]])
      BY <2>4 DEF HandInv
    <3>2. i[2] <= pub[i[1]]
      BY <2>3, <3>1
    <3> QED
      BY <3>2 DEF HeldInv
  <2>5. ASSUME NEW i \in TaskIds, Saved(i), NEW r \in rows[i], r \in rows[e]
        PROVE  i[2] <= e[2]
    <3>1. r \in UNION RowSets[i[1]] /\ r \in UNION RowSets[e[1]]
      BY <2>1, <2>4, <2>5
    <3>2. i[1] = e[1]
      BY <2>3, <3>1 DEF OneWriter
    <3>3. ~Earlier(e, i)
      BY <2>1, <2>5 DEF QueueInv, Begun, Connected, Finished
    <3> QED
      BY <2>3, <3>2, <3>3 DEF Earlier
  <2>8. \A r \in Rows : r \notin rows[e] /\ Torn(r) => Torn(r)'
    BY <2>1, TornStays
  <2>6. ASSUME NEW i \in TaskIds, Saved(i)', NEW r \in rows[i]
        PROVE  i[2] <= db'[r] \/ Torn(r)'
    <3>1. r \in Rows
      OBVIOUS
    <3>2. CASE r \in rows[e]
      BY <2>1, <2>2, <2>3, <2>5, <2>6, <3>1, <3>2
    <3>3. CASE r \notin rows[e]
      BY <2>1, <2>2, <2>6, <2>8, <3>1, <3>3
    <3> QED
      BY <3>2, <3>3
  <2>7. ASSUME NEW r \in Rows, db'[r] # 0, ~Torn(r)'
        PROVE  \E i \in TaskIds : Saved(i)' /\ r \in rows[i] /\ i[2] = db'[r]
    <3>1. CASE r \in rows[e]
      BY <2>1, <2>2, <3>1
    <3>2. CASE r \notin rows[e]
      <4>1. db'[r] = db[r] /\ ~Torn(r)
        BY <2>1, <2>7, <2>8, <3>2
      <4> QED
        BY <2>2, <2>7, <4>1
    <3> QED
      BY <3>1, <3>2
  <2> QED
    BY <2>1, <2>6, <2>7, ZenonT(90)
<1>4. ASSUME NEW e \in TaskIds, Begin(e) \/ SaveFails(e) \/ Return(e) PROVE DbInv'
  <2>1. UNCHANGED <<db, rows>> /\ st[e] # "failed"
    BY <1>4 DEF Begin, SaveFails, Return, threadVars
  <2>2. PICK s \in {"saving", "done", "failed"} : st' = [st EXCEPT ![e] = s]
    BY <1>4 DEF Begin, SaveFails, Return, Finish
  <2>3. /\ Saved(e) => s = "done"
        /\ s = "done" => Saved(e) \/ rows[e] = {}
    BY <1>4, <2>2 DEF Begin, SaveFails, Return, Finish
  <2> QED
    BY <1>1, <2>1, <2>2, <2>3
<1>5. ASSUME NEW t \in Threads, CreateTask(t) PROVE DbInv'
  <2>1. PICK e \in TaskIds : st[e] = "absent" /\ st' = [st EXCEPT ![e] = "ready"]
    BY <1>5 DEF CreateTask, HandInv
  <2>2. UNCHANGED <<db, rows>>
    BY <1>5 DEF CreateTask
  <2> QED
    BY <1>1, <2>1, <2>2
<1>6. ASSUME NEW t \in Threads, AddDoneCallback(t) \/ AddPending(t)
      PROVE  UNCHANGED <<st, rows, db>>
  BY <1>6 DEF AddDoneCallback, AddPending
<1>7. ASSUME NEW i \in TaskIds, DoneCallback(i) \/ LateFails(i)
      PROVE  UNCHANGED <<st, rows, db>>
  BY <1>7 DEF DoneCallback, LateFails, threadVars
<1>8. StopStep \/ UNCHANGED vars => UNCHANGED <<st, rows, db>>
  BY DEF StopStep, StopBegin, Dispose, StopWait, StopReturn, threadVars, vars
<1>9. UNCHANGED <<st, rows, db>> => DbInv'
  BY <1>1
<1>10. ASSUME NEW e \in TaskIds, WriteLate(e) PROVE DbInv'
  <2>1. PICK w \in late[e] : db' = [db EXCEPT ![w] = e[2]]
    BY <1>10 DEF WriteLate
  <2>2. UNCHANGED <<st, rows>>
    BY <1>10 DEF WriteLate, threadVars
  <2>3. st[e] = "failed" /\ w \in rows[e] /\ rows[e] # {w} /\ w \in Rows
    <3>1. st[e] = "failed" /\ late[e] \subseteq rows[e] /\ late[e] # rows[e]
      BY <2>1 DEF LeftInv
    <3>2. rows[e] = {w} => late[e] = {w}
      BY <2>1, <3>1
    <3> QED
      BY <2>1, <3>1, <3>2
  <2>4. db'[w] = e[2] /\ \A r \in Rows : r # w => db'[r] = db[r]
    BY <2>1, <2>3
  <2>5. Torn(w)'
    BY <2>2, <2>3, <2>4 DEF Torn, InState
  <2>6. \A r \in Rows : r # w /\ Torn(r) => Torn(r)'
    BY <2>2, <2>4, TornStays
  <2>7. ASSUME NEW i \in TaskIds, Saved(i)', NEW r \in rows[i]
        PROVE  i[2] <= db'[r] \/ Torn(r)'
    BY <2>2, <2>4, <2>5, <2>6, <2>7
  <2>8. ASSUME NEW r \in Rows, db'[r] # 0, ~Torn(r)'
        PROVE  \E i \in TaskIds : Saved(i)' /\ r \in rows[i] /\ i[2] = db'[r]
    <3>1. r # w /\ db'[r] = db[r] /\ ~Torn(r)
      BY <2>4, <2>5, <2>6, <2>8
    <3> QED
      BY <2>2, <2>8, <3>1
  <2> QED
    BY <2>2, <2>7, <2>8, ZenonT(30)
<1> QED
  BY <1>2, <1>3, <1>4, <1>5, <1>6, <1>7, <1>8, <1>9, <1>10
     DEF Next, ThreadStep, LoopStep

LEMMA OrderInvariant == ASSUME OneWriter PROVE Spec => []OrderInv
<1>1. Init => OrderInv
  BY DEF Init, OrderInv, HeldInv, BornInv, QueueInv, LeftInv, DbInv, Connected, Begun, Finished,
         Saved, TaskIds, Versions
<1>2. /\ TypeOK /\ HandInv /\ OrderInv /\ [Next]_vars /\ TypeOK' => OrderInv'
  BY HeldStep, BornStep, QueueStep, LeftStep, DbStep DEF OrderInv
<1>3. IInv => HandInv
  BY DEF IInv
<1> QED
  BY <1>1, <1>2, <1>3, TypeCorrect, InductiveInvariant, PTL DEF Spec

\* book_keeper.py 119-122, 132-256: with one connection, and one thread for the
\* events of a key, a row falls behind an event whose save succeeded only if a
\* failed event of several rows wrote it last: not at rest, and not before.
THEOREM RowsStayLatest == ASSUME OneWriter PROVE Spec => []RowsAreLatest
<1>1. OrderInv => RowsAreLatest
  BY DEF OrderInv, DbInv, RowsAreLatest, WritesOf, InState, Saved
<1> QED
  BY <1>1, OrderInvariant, PTL

\* book_keeper.py 217-236: under the same conditions the row of a fleet, which
\* every event of the fleet writes, is behind the row of a robot of it only
\* where a save left over by a failed gather wrote one of the two last.
THEOREM FleetRowsStayTogether == ASSUME OneWriter PROVE Spec => []FleetRowsAgree
<1>1. TypeOK /\ HandInv /\ OrderInv => FleetRowsAgree
  <2> SUFFICES ASSUME TypeOK, HandInv, OrderInv, NEW k \in Keys,
                      NEW r \in UNION RowSets[k], NEW s \in UNION RowSets[k],
                      \A rs \in RowSets[k] : rs # {} => r \in rs, ~Torn(s)
               PROVE  db[s] <= db[r] \/ Torn(r)
    BY DEF FleetRowsAgree
  <2>1. r \in Rows /\ s \in Rows /\ db[r] \in Nat /\ db[s] \in Nat
    BY BookKeeperAssumption DEF TypeOK
  <2>2. CASE db[s] = 0
    BY <2>1, <2>2
  <2>3. CASE db[s] # 0
    <3>1. PICK i \in TaskIds : Saved(i) /\ s \in rows[i] /\ i[2] = db[s]
      BY <2>1, <2>3 DEF OrderInv, DbInv
    <3>2. i[1] \in Keys /\ rows[i] \in RowSets[i[1]]
      BY <3>1 DEF Saved, OrderInv, HeldInv, HandInv, TypeOK, TaskIds, Versions
    <3>3. i[1] = k
      BY <3>1, <3>2 DEF OneWriter
    <3>4. r \in rows[i]
      BY <3>1, <3>2, <3>3
    <3> QED
      BY <3>1, <3>4 DEF OrderInv, DbInv
  <2> QED
    BY <2>2, <2>3
<1>2. IInv => HandInv
  BY DEF IInv
<1> QED
  BY <1>1, <1>2, OrderInvariant, InductiveInvariant, TypeCorrect, PTL

-----------------------------------------------------------------------------
(* Shutdown: what composes the book keeper with its server keeps what is   *)

\* Every step of the shutdown is a step of the book keeper or leaves it alone.
LEMMA ShutdownIsBookKeeping == ASSUME [ShutdownNext]_allVars PROVE [Next]_vars
<1>1. ASSUME Publish PROVE Next
  BY <1>1 DEF Publish, Next, ThreadStep
<1>2. ASSUME Save PROVE Next
  BY <1>2 DEF Save, Next, LoopStep
<1>3. ASSUME StopContinues PROVE Next
  BY <1>3 DEF StopContinues, Next, StopStep
<1>4. ASSUME NEW r \in Runners, ShutdownStep(r) PROVE StopBegin \/ UNCHANGED vars
  BY <1>4 DEF ShutdownStep, StartShutdown, Pop, Call, StopAwaited, Joined, EndShutdown
<1> QED
  BY <1>1, <1>2, <1>3, <1>4 DEF ShutdownNext, allVars, Next, StopStep

\* app.py 105-206, on_startup and on_shutdown: started and stopped by the server, in
\* whatever order its callbacks run and however many coroutines run them, the
\* book keeper behaves as it does alone.
THEOREM ServerRunsTheBookKeeper == ShutdownSpec => Spec
<1>1. ShutdownInit => Init
  BY DEF ShutdownInit
<1>2. [ShutdownNext]_allVars => [Next]_vars
  BY ShutdownIsBookKeeping
<1> QED
  BY <1>1, <1>2, PTL DEF ShutdownSpec, Spec

-----------------------------------------------------------------------------
OneRunner == \A r, s \in Runners : r = s

Callbacks == {"close_connections", "rclpy.shutdown", "stop_spinning",
              "bookkeeper.stop", "unsubscribe_all"}

\* What is left of shutdown_cbs says how far the shutdown got.
CbsInv ==
    /\ cbs \in Seq(Callbacks) /\ Len(cbs) <= 5
    /\ \A j \in 1 .. Len(cbs) : cbs[j] = Registered[j]

RunnerInv ==
    /\ runner \in [Runners -> {"idle", "running", "awaiting", "joining", "done"}]
    /\ \A r \in Runners :
          /\ runner[r] = "idle" => Len(cbs) = 5
          /\ runner[r] = "awaiting" => Len(cbs) = 3
          /\ runner[r] = "joining" => Len(cbs) = 2
          /\ runner[r] = "done" => Len(cbs) = 0
          /\ runner[r] = "running" /\ Len(cbs) = 3 => stop = "stopped"
          /\ runner[r] = "running" /\ Len(cbs) = 2 => ~spinning

LifeInv ==
    /\ CbsInv /\ RunnerInv
    /\ conn = "closed" => Len(cbs) = 0
    /\ Len(cbs) > 3 <=> stop = "running"
    /\ Len(cbs) < 3 => stop = "stopped"
    /\ Len(cbs) < 2 => ~spinning
    /\ ~spinning => pc[spinThread] = "idle"

\* pop() takes the callback pushed last.
LEMMA Popped ==
    ASSUME CbsInv, cbs # <<>>, cbs' = Front(cbs)
    PROVE  /\ CbsInv'
           /\ Len(cbs) \in 1 .. 5
           /\ Len(cbs') = Len(cbs) - 1
           /\ Last(cbs) = Registered[Len(cbs)]
<1>1. Last(cbs) = cbs[Len(cbs)] /\ cbs' = SubSeq(cbs, 1, Len(cbs) - 1)
  BY DEF Front, Last
<1>2. Len(cbs) \in 1 .. 5
  <2>1. Len(cbs) \in Nat \ {0}
    <3>1. \A q \in Seq(Callbacks) : q # <<>> => Len(q) \in Nat \ {0}
      BY EmptySeq
    <3> QED
      BY <3>1 DEF CbsInv
  <2>2. Len(cbs) <= 5
    BY DEF CbsInv
  <2>3. \A n \in Nat \ {0} : n <= 5 => n \in 1 .. 5
    OBVIOUS
  <2> QED
    BY <2>1, <2>2, <2>3
<1>3. /\ cbs' \in Seq(Callbacks) /\ Len(cbs') = Len(cbs) - 1
      /\ \A j \in 1 .. Len(cbs') : cbs'[j] = cbs[j]
  <2>1. Len(cbs) - 1 \in Nat /\ \A j \in 1 .. Len(cbs) - 1 : j \in 1 .. Len(cbs)
    BY <1>2
  <2>2. \A j \in 1 .. Len(cbs) - 1 : cbs[j] \in Callbacks
    BY <2>1 DEF CbsInv
  <2> QED
    <3> DEFINE n == Len(cbs) - 1
    <3>1. n \in Int /\ n >= 0 /\ n < 5
      <4>1. \A m \in 1 .. 5 : m - 1 \in Int /\ m - 1 >= 0 /\ m - 1 < 5
        OBVIOUS
      <4> QED
        BY <1>2, <4>1
    <3>2. \A j \in 1 .. n : cbs[j] \in Callbacks
      BY <2>2
    <3> HIDE DEF n
    <3>3. /\ SubSeq(cbs, 1, n) \in Seq(Callbacks)
          /\ Len(SubSeq(cbs, 1, n)) = IF 1 <= n THEN n - 1 + 1 ELSE 0
          /\ \A j \in 1 .. n - 1 + 1 : SubSeq(cbs, 1, n)[j] = cbs[1 + j - 1]
      BY <3>1, <3>2, SubSeqProperties
    <3>4. cbs' = SubSeq(cbs, 1, n)
      BY <1>1 DEF n
    <3>5. cbs' \in Seq(Callbacks) /\ Len(cbs') = n /\ \A j \in 1 .. n : cbs'[j] = cbs[j]
      BY <3>1, <3>3, <3>4
    <3> QED
      BY <1>2, <3>1, <3>5 DEF CbsInv, n
<1> QED
  BY <1>1, <1>2, <1>3 DEF CbsInv

\* The book keeper's own steps take stop() further once it was entered, and
\* wake no thread that neither spins nor is in a callback.
LEMMA LifeOfBookKeeper ==
    ASSUME TypeOK, LifeInv, Publish \/ Save \/ StopContinues
    PROVE  LifeInv'
<1> USE ShutdownAssumption DEF TypeOK, LifeInv, CbsInv, RunnerInv
<1>1. UNCHANGED lifeVars
  BY DEF Publish, Save, StopContinues
<1>2. CASE Publish
  <2>1. stop' = stop
    BY <1>2 DEF Publish, OnEvent, CreateTask, AddDoneCallback, AddPending, stopVars
  <2>2. ~spinning /\ pc[spinThread] = "idle" => pc'[spinThread] = "idle"
    BY <1>2, ZenonT(30) DEF Publish, OnEvent, CreateTask, AddDoneCallback, AddPending
  <2> QED
    BY <1>1, <2>1, <2>2 DEF lifeVars
<1>3. CASE Save
  <2>1. stop' = stop /\ pc' = pc
    BY <1>3 DEF Save, Begin, Commit, SaveFails, Return, DoneCallback,
                WriteLate, LateFails, threadVars, stopVars
  <2> QED
    BY <1>1, <2>1 DEF lifeVars
<1>4. CASE StopContinues
  <2>1. /\ pc' = pc /\ stop # "running" /\ stop' # "running"
        /\ stop = "stopped" => stop' = "stopped"
    BY <1>4 DEF StopContinues, Dispose, StopWait, StopReturn, threadVars
  <2> QED
    BY <1>1, <2>1 DEF lifeVars
<1> QED
  BY <1>2, <1>3, <1>4

\* on_shutdown, one statement: each callback is called only when what those
\* before it stop has stopped.
LEMMA LifeOfRunner ==
    ASSUME OneRunner, LifeInv, NEW r \in Runners, ShutdownStep(r)
    PROVE  LifeInv'
<1> USE DEF LifeInv, RunnerInv
<1>1. CASE Pop(r)
  <2>1. /\ CbsInv' /\ Len(cbs) \in 1 .. 5 /\ Len(cbs') = Len(cbs) - 1
        /\ Last(cbs) = Registered[Len(cbs)]
    BY <1>1, Popped DEF Pop
  <2>2. \A s \in Runners : s = r
    BY DEF OneRunner
  <2>3. runner[r] = "running"
    BY <1>1 DEF Pop
  <2>4. CASE Len(cbs) = 5
    BY <1>1, <2>1, <2>2, <2>3, <2>4 DEF Pop, Call, Registered, vars
  <2>5. CASE Len(cbs) = 4
    BY <1>1, <2>1, <2>2, <2>3, <2>5 DEF Pop, Call, Registered, StopBegin, threadVars
  <2>6. CASE Len(cbs) = 3
    BY <1>1, <2>1, <2>2, <2>3, <2>6 DEF Pop, Call, Registered, vars
  <2>7. CASE Len(cbs) = 2
    BY <1>1, <2>1, <2>2, <2>3, <2>7 DEF Pop, Call, Registered, vars
  <2>8. CASE Len(cbs) = 1
    BY <1>1, <2>1, <2>2, <2>3, <2>8 DEF Pop, Call, Registered, vars
  <2> QED
    BY <2>1, <2>4, <2>5, <2>6, <2>7, <2>8
<1>2. CASE StartShutdown(r)
  <2>1. /\ runner[r] = "idle" /\ runner' = [runner EXCEPT ![r] = "running"]
        /\ cbs' = cbs /\ Len(cbs) = 5 /\ CbsInv'
    BY <1>2 DEF StartShutdown, CbsInv
  <2> QED
    BY <1>2, <2>1 DEF StartShutdown, vars, OneRunner
<1>3. CASE StopAwaited(r)
  <2>1. /\ runner[r] = "awaiting" /\ stop = "stopped" /\ stop' = stop
        /\ runner' = [runner EXCEPT ![r] = "running"]
        /\ cbs' = cbs /\ spinning' = spinning /\ conn' = conn /\ Len(cbs) = 3 /\ CbsInv'
    BY <1>3 DEF StopAwaited, vars, CbsInv
  <2> QED
    BY <1>3, <2>1 DEF StopAwaited, vars, OneRunner
<1>4. CASE Joined(r)
  BY <1>4 DEF Joined, vars, CbsInv, OneRunner
<1>5. CASE EndShutdown(r)
  BY <1>5 DEF EndShutdown, vars, CbsInv
<1> QED
  BY <1>1, <1>2, <1>3, <1>4, <1>5 DEF ShutdownStep

LEMMA LifeInvariant == ASSUME OneRunner PROVE ShutdownSpec => [](IInv /\ LifeInv)
<1>1. ShutdownInit => LifeInv
  <2> SUFFICES ASSUME ShutdownInit PROVE LifeInv
    OBVIOUS
  <2>1. CbsInv /\ Len(cbs) = 5
    BY DEF ShutdownInit, CbsInv, Registered, Callbacks
  <2> QED
    BY <2>1 DEF ShutdownInit, Init, LifeInv, RunnerInv
<1>2. IInv /\ LifeInv /\ [ShutdownNext]_allVars => LifeInv'
  <2>1. ASSUME LifeInv, UNCHANGED allVars PROVE LifeInv'
    BY <2>1 DEF allVars, vars, lifeVars, LifeInv, CbsInv, RunnerInv
  <2> QED
    BY <2>1, LifeOfBookKeeper, LifeOfRunner DEF ShutdownNext, IInv
<1> QED
  BY <1>1, <1>2, ServerRunsTheBookKeeper, InductiveInvariant, PTL DEF ShutdownSpec

\* app.py on_shutdown 198-206: when one coroutine runs it, the spin thread is
\* joined before the database closes, and what is unsaved then is at most one
\* update of each thread, the spin thread among them, that stop() found inside
\* a callback.
THEOREM ClosesGracefully ==
    ASSUME OneRunner PROVE ShutdownSpec => []ClosedGracefully
<1>1. IInv /\ LifeInv /\ AtMostOneLate => ClosedGracefully
  <2> SUFFICES ASSUME IInv, LifeInv, AtMostOneLate, conn = "closed"
               PROVE  ClosedGracefully
    BY DEF ClosedGracefully
  <2>1. stop = "stopped" /\ ~spinning /\ pc[spinThread] = "idle"
    BY DEF LifeInv
  <2>2. \A i, j \in TaskIds : Unfinished(i) /\ Unfinished(j) =>
           maker[i] \in inflight /\ (maker[i] = maker[j] => i = j)
    BY <2>1 DEF AtMostOneLate, InState, Unfinished
  <2> QED
    BY <2>1, <2>2 DEF ClosedGracefully
<1> QED
  BY <1>1, LifeInvariant, LateIsBounded, ServerRunsTheBookKeeper, PTL
=============================================================================
