---------------------------- MODULE BookKeeper ----------------------------
(***************************************************************************)
(* RmfBookKeeper (packages/api-server/api_server/rmf_io/book_keeper.py).   *)
(*                                                                         *)
(* The book keeper subscribes to every subject of RmfEvents and saves each *)
(* event in the database.  An event arrives on the thread that published   *)
(* it (the rclpy spin thread, or a timer thread of the health watchdog);   *)
(* the save is a coroutine that runs as a task of the asyncio event loop,  *)
(* on another thread.  _create_task is the only bridge between the two,    *)
(* and it takes no lock: its three statements interleave with the loop.    *)
(*                                                                         *)
(* An event is identified by the device (or fleet, task, map) it is about, *)
(* its Key, and by its position among the events of that key, its version. *)
(* The row an event writes holds the version of the event.                 *)
(***************************************************************************)
EXTENDS Integers, FiniteSets

CONSTANTS
    Threads,     \* threads that call on_next: the spin thread and timer threads
    NoThread,    \* the maker of a task that does not exist yet
    Keys,        \* what events are about: one door, one fleet, the map ...
    Rows,        \* database rows
    RowSets,     \* RowSets[k]: the sets of rows an event about k may write
    Publishers,  \* Publishers[k]: the threads that publish events about k
    MaxVer,      \* bound: events about a key
    MaxEvents,   \* bound: MaxEvents[k], events about key k
    PoolSize     \* connections in the database pool (1 for sqlite)

ASSUME BookKeeperAssumption ==
    /\ NoThread \notin Threads
    /\ RowSets \in [Keys -> SUBSET SUBSET Rows]
    /\ Publishers \in [Keys -> SUBSET Threads]
    /\ MaxVer \in Nat
    /\ MaxEvents \in [Keys -> 0 .. MaxVer]
    /\ PoolSize \in Nat \ {0}

Versions == 1 .. MaxVer

\* The update coroutine of one event, once _create_task made it a task.
TaskIds == Keys \X Versions

VARIABLES
    pub,        \* pub[k]: events about k published so far
    pc,         \* pc[t]: the statement of _create_task thread t is about to run
    job,        \* job[t]: the event thread t is handling
    rows,       \* rows[i]: the rows event i writes
    st,         \* st[i]: state of the asyncio task of event i
    cb,         \* cb[i]: state of its done callback
    maker,      \* maker[i]: the thread that created the task
    born,       \* born[i]: its place in the order of creation, 0 before that
    made,       \* number of tasks created
    late,       \* late[i]: rows the siblings of a failed save may still write
    pending,    \* self._pending_tasks
    db,         \* db[r]: version held by row r, 0 when the row does not exist
    disposed,   \* keys whose rx subscription is disposed
    stop,       \* progress of stop()
    waitset,    \* the tasks stop() waits for
    inflight,   \* history: threads inside a callback when stop() took waitset
    keyErrors   \* history: tasks whose done callback raised KeyError

threadVars == <<pub, pc, job, rows>>
taskVars   == <<maker, born, made, late>>
stopVars   == <<disposed, stop, waitset, inflight>>
vars == <<pub, pc, job, rows, st, cb, maker, born, made, late, pending, db,
          disposed, stop, waitset, inflight, keyErrors>>

(***************************************************************************)
(* A task is absent, then ready (scheduled by create_task), saving (it     *)
(* holds a database connection), committed (the transaction is durable but *)
(* the coroutine has not resumed), and finally done or failed.  cb is the  *)
(* done callback _pending_tasks.remove.                                    *)
(***************************************************************************)
TaskStates     == {"absent", "ready", "saving", "committed", "done", "failed"}
CallbackStates == {"none", "registered", "scheduled", "fired"}
NoJob == <<>>

Unfinished(i) == st[i] \in {"ready", "saving", "committed"}
Finished(i)   == st[i] \in {"done", "failed"}
Creating(t)   == pc[t] \in {"created", "registered"}

TypeOK ==
    /\ pub \in [Keys -> 0 .. MaxVer]
    /\ pc \in [Threads -> {"idle", "called", "created", "registered"}]
    /\ job \in [Threads -> TaskIds \cup {NoJob}]
    /\ \A t \in Threads : pc[t] # "idle" => job[t] \in TaskIds
    /\ rows \in [TaskIds -> SUBSET Rows]
    /\ st \in [TaskIds -> TaskStates]
    /\ cb \in [TaskIds -> CallbackStates]
    /\ maker \in [TaskIds -> Threads \cup {NoThread}]
    /\ born \in [TaskIds -> Nat]
    /\ made \in Nat
    /\ late \in [TaskIds -> SUBSET Rows]
    /\ pending \subseteq TaskIds
    /\ db \in [Rows -> 0 .. MaxVer]
    /\ disposed \subseteq Keys
    /\ stop \in {"running", "disposing", "waiting", "stopped"}
    /\ waitset \subseteq TaskIds
    /\ inflight \subseteq Threads
    /\ keyErrors \subseteq TaskIds

\* The state after start(): subscribed to every subject.  (The map subject
\* replays None at that point; its update writes nothing and is left out.)
Init ==
    /\ pub = [k \in Keys |-> 0]
    /\ pc = [t \in Threads |-> "idle"]
    /\ job = [t \in Threads |-> NoJob]
    /\ rows = [i \in TaskIds |-> {}]
    /\ st = [i \in TaskIds |-> "absent"]
    /\ cb = [i \in TaskIds |-> "none"]
    /\ maker = [i \in TaskIds |-> NoThread]
    /\ born = [i \in TaskIds |-> 0]
    /\ made = 0
    /\ late = [i \in TaskIds |-> {}]
    /\ pending = {}
    /\ db = [r \in Rows |-> 0]
    /\ disposed = {}
    /\ stop = "running"
    /\ waitset = {}
    /\ inflight = {}
    /\ keyErrors = {}

-----------------------------------------------------------------------------
(* The publishing threads.                                                 *)

\* on_next reaches the observer of key k: its subscription is not disposed at
\* the time rx looks, so the lambda runs and the coroutine object is made.
OnEvent(t, k) ==
    /\ pc[t] = "idle"
    /\ t \in Publishers[k]
    /\ k \notin disposed
    /\ pub[k] < MaxEvents[k]
    /\ \E rs \in RowSets[k] : rows' = [rows EXCEPT ![<<k, pub[k] + 1>>] = rs]
    /\ pub' = [pub EXCEPT ![k] = @ + 1]
    /\ job' = [job EXCEPT ![t] = <<k, pub[k] + 1>>]
    /\ pc' = [pc EXCEPT ![t] = "called"]
    /\ UNCHANGED <<st, cb, taskVars, pending, db, stopVars, keyErrors>>

\* task = self._loop.create_task(coro)
CreateTask(t) ==
    /\ pc[t] = "called"
    /\ st' = [st EXCEPT ![job[t]] = "ready"]
    /\ maker' = [maker EXCEPT ![job[t]] = t]
    /\ born' = [born EXCEPT ![job[t]] = made + 1]
    /\ made' = made + 1
    /\ pc' = [pc EXCEPT ![t] = "created"]
    /\ UNCHANGED <<pub, job, rows, cb, late, pending, db, stopVars, keyErrors>>

\* task.add_done_callback(...): a task that is already done schedules the
\* callback at once.
AddDoneCallback(t) ==
    /\ pc[t] = "created"
    /\ cb' = [cb EXCEPT ![job[t]] =
                 IF Finished(job[t]) THEN "scheduled" ELSE "registered"]
    /\ pc' = [pc EXCEPT ![t] = "registered"]
    /\ UNCHANGED <<pub, job, rows, st, taskVars, pending, db, stopVars, keyErrors>>

\* self._pending_tasks.add(task), the last statement
AddPending(t) ==
    /\ pc[t] = "registered"
    /\ pending' = pending \cup {job[t]}
    /\ pc' = [pc EXCEPT ![t] = "idle"]
    /\ UNCHANGED <<pub, job, rows, st, cb, taskVars, db, stopVars, keyErrors>>

-----------------------------------------------------------------------------
(* The event loop.  Tasks start in the order they were created, and a pool *)
(* hands its connections out in the order they are asked for; with more    *)
(* than one connection the transactions of two tasks commit in any order.  *)

\* stop() does not suspend while it disposes: no other callback of the loop
\* runs then, only the database and the publishing threads do.
LoopFree == stop # "disposing"

InState(s) == {i \in TaskIds : st[i] = s}

\* A finished task schedules the callbacks it has; one that was registered
\* later is scheduled by add_done_callback.
Finish(i, s) ==
    /\ st' = [st EXCEPT ![i] = s]
    /\ cb' = [cb EXCEPT ![i] = IF @ = "registered" THEN "scheduled" ELSE @]

\* Mutant: a save does not queue for its connection.
BeginUnordered(i) ==
    /\ LoopFree
    /\ st[i] = "ready"
    /\ IF rows[i] = {} THEN Finish(i, "done")
       ELSE st' = [st EXCEPT ![i] = "saving"] /\ UNCHANGED cb
    /\ UNCHANGED <<threadVars, taskVars, pending, db, stopVars, keyErrors>>

\* Mutant: what is left of a task is dropped when stop() begins.
BeginUntilStop(i) ==
    /\ stop = "running"
    /\ \A j \in InState("ready") : born[i] <= born[j]
    /\ InState("saving") \cup InState("committed") = {}
    /\ BeginUnordered(i)

\* The task runs up to its first suspension.  An event that writes no row (a
\* building map that is None) returns there.
Begin(i) ==
    /\ LoopFree
    /\ st[i] = "ready"
    /\ IF rows[i] = {}
       THEN Finish(i, "done")
       ELSE /\ \A j \in InState("ready") : rows[j] # {} => born[i] <= born[j]
            /\ Cardinality(InState("saving") \cup InState("committed")) < PoolSize
            /\ st' = [st EXCEPT ![i] = "saving"]
            /\ UNCHANGED cb
    /\ UNCHANGED <<threadVars, taskVars, pending, db, stopVars, keyErrors>>

\* Mutant: the rows of one event are saved one by one.
CommitOneRow(i) ==
    /\ st[i] = "saving"
    /\ \E r \in rows[i] : db' = [db EXCEPT ![r] = i[2]]
    /\ st' = [st EXCEPT ![i] = "committed"]
    /\ UNCHANGED <<threadVars, cb, taskVars, pending, stopVars, keyErrors>>

\* update_or_create commits: every row of the event in one transaction.
Commit(i) ==
    /\ st[i] = "saving"
    /\ db' = [r \in Rows |-> IF r \in rows[i] THEN i[2] ELSE db[r]]
    /\ st' = [st EXCEPT ![i] = "committed"]
    /\ UNCHANGED <<threadVars, cb, taskVars, pending, stopVars, keyErrors>>

\* Mutant: a save that raises leaves its task cancelled, which nobody handles.
SaveFailsCancelled(i) ==
    /\ LoopFree
    /\ st[i] = "saving"
    /\ Finish(i, "cancelled")
    /\ UNCHANGED <<threadVars, taskVars, pending, db, stopVars, keyErrors>>

\* One save of the gather raises: the transaction rolls back, the update ends,
\* nobody retrieves the exception.  gather cancels none of its other saves, and
\* what they still write is outside the transaction.
SaveFails(i) ==
    /\ LoopFree
    /\ st[i] = "saving"
    /\ Finish(i, "failed")
    /\ \E rs \in (SUBSET rows[i]) \ {rows[i]} : late' = [late EXCEPT ![i] = rs]
    /\ UNCHANGED <<threadVars, maker, born, made, pending, db, stopVars, keyErrors>>

Over(i, r) == late' = [late EXCEPT ![i] = @ \ {r}]

\* A save left over by a gather that failed writes its row.
WriteLate(i) ==
    /\ \E r \in late[i] : Over(i, r) /\ db' = [db EXCEPT ![r] = i[2]]
    /\ UNCHANGED <<threadVars, st, cb, maker, born, made, pending, stopVars, keyErrors>>

\* It raises as well, into a future nobody looks at.
LateFails(i) ==
    /\ \E r \in late[i] : Over(i, r)
    /\ UNCHANGED <<threadVars, st, cb, maker, born, made, pending, db, stopVars, keyErrors>>

\* The coroutine resumes, logs, and returns.
Return(i) ==
    /\ LoopFree
    /\ st[i] = "committed"
    /\ Finish(i, "done")
    /\ UNCHANGED <<threadVars, taskVars, pending, db, stopVars, keyErrors>>

\* The done callback, set.remove, raises KeyError when the publishing thread
\* has not reached pending.add yet.
DoneCallback(i) ==
    /\ LoopFree
    /\ cb[i] = "scheduled"
    /\ cb' = [cb EXCEPT ![i] = "fired"]
    /\ pending' = pending \ {i}
    /\ keyErrors' = IF i \in pending THEN keyErrors ELSE keyErrors \cup {i}
    /\ UNCHANGED <<threadVars, st, taskVars, db, stopVars>>

-----------------------------------------------------------------------------
(* stop(), a coroutine of the loop.  The publishing threads keep running   *)
(* while it disposes the subscriptions one after the other.                *)

StopBegin ==
    /\ stop = "running"
    /\ stop' = "disposing"
    /\ UNCHANGED <<threadVars, st, cb, taskVars, pending, db, disposed, waitset,
                   inflight, keyErrors>>

Dispose(k) ==
    /\ stop = "disposing"
    /\ k \notin disposed
    /\ disposed' = disposed \cup {k}
    /\ UNCHANGED <<threadVars, st, cb, taskVars, pending, db, stop, waitset,
                   inflight, keyErrors>>

\* asyncio.wait(self._pending_tasks) copies the set; an empty set is not
\* waited for.
StopWait ==
    /\ stop = "disposing"
    /\ disposed = Keys
    /\ waitset' = pending
    /\ inflight' = {t \in Threads : pc[t] # "idle"}
    /\ stop' = IF pending = {} THEN "stopped" ELSE "waiting"
    /\ UNCHANGED <<threadVars, st, cb, taskVars, pending, db, disposed, keyErrors>>

\* Mutant: asyncio.wait(..., return_when=FIRST_COMPLETED).
StopReturnFirst ==
    /\ stop = "waiting"
    /\ \E i \in waitset : Finished(i)
    /\ stop' = "stopped"
    /\ UNCHANGED <<threadVars, st, cb, taskVars, pending, db, disposed, waitset,
                   inflight, keyErrors>>

\* Mutant: wait until every callback removed its task.
StopReturnEmpty ==
    /\ stop = "waiting"
    /\ pending = {}
    /\ stop' = "stopped"
    /\ UNCHANGED <<threadVars, st, cb, taskVars, pending, db, disposed, waitset,
                   inflight, keyErrors>>

StopReturn ==
    /\ stop = "waiting"
    /\ \A i \in waitset : Finished(i)
    /\ stop' = "stopped"
    /\ UNCHANGED <<threadVars, st, cb, taskVars, pending, db, disposed, waitset,
                   inflight, keyErrors>>

-----------------------------------------------------------------------------
ThreadStep == \E t \in Threads :
    \/ \E k \in Keys : OnEvent(t, k)
    \/ CreateTask(t)
    \/ AddDoneCallback(t)
    \/ AddPending(t)

LoopStep == \E i \in TaskIds :
    \/ Begin(i) \/ Commit(i) \/ SaveFails(i) \/ Return(i) \/ DoneCallback(i)
    \/ WriteLate(i) \/ LateFails(i)

StopStep == StopBegin \/ (\E k \in Keys : Dispose(k)) \/ StopWait \/ StopReturn

Next == ThreadStep \/ LoopStep \/ StopStep

(***************************************************************************)
(* Fairness: a thread inside _create_task has only non-blocking statements *)
(* left; the loop runs every ready callback and the database answers; once *)
(* stop() is entered it goes on.  Nothing forces an event or a stop().     *)
(***************************************************************************)
Fairness ==
    /\ \A t \in Threads : /\ WF_vars(CreateTask(t))
                          /\ WF_vars(AddDoneCallback(t))
                          /\ WF_vars(AddPending(t))
    /\ \A i \in TaskIds : /\ WF_vars(Begin(i))
                          /\ WF_vars(Commit(i) \/ SaveFails(i))
                          /\ WF_vars(Return(i))
                          /\ WF_vars(DoneCallback(i))
                          /\ WF_vars(WriteLate(i) \/ LateFails(i))
    /\ WF_vars((\E k \in Keys : Dispose(k)) \/ StopWait \/ StopReturn)

Spec     == Init /\ [][Next]_vars
FairSpec == Spec /\ Fairness

-----------------------------------------------------------------------------
(* Properties.                                                             *)

\* A save that is not finished is always one stop() would find in
\* _pending_tasks, unless the thread that made it is still inside
\* _create_task: the order of its three statements is what makes this true.
PendingComplete ==
    \A i \in TaskIds : Unfinished(i) =>
        \/ i \in pending
        \/ \E t \in Threads : job[t] = i /\ Creating(t)

\* If no thread was inside an event callback when stop() looked at
\* _pending_tasks, no update outlives stop(): nothing is left to write when the
\* shutdown callbacks that follow close the database, but for the saves a failed
\* gather left behind, which are in no set and which nobody waits for.
CleanStop ==
    stop = "stopped" /\ inflight = {} => \A i \in TaskIds : ~Unfinished(i)

\* The bound on the race of CleanStop: a save that outlives stop() comes from
\* a callback that was running at that moment, one save for each such thread.
AtMostOneLate ==
    stop = "stopped" =>
        \A i, j \in InState("ready") \cup InState("saving") \cup InState("committed") :
            maker[i] \in inflight /\ (maker[i] = maker[j] => i = j)

\* A task stays in _pending_tasks after its done callback ran only when that
\* callback raised KeyError because it overtook pending.add.
PendingIsLive ==
    \A i \in pending :
        cb[i] \in {"registered", "scheduled"} \/ i \in keyErrors

\* stop() is sound against the threads that still publish: nothing it should wait
\* for is missing from _pending_tasks, what outlives it comes from a thread that
\* was inside a callback, and what stays behind in the set has a KeyError.
StopIsSound == PendingComplete /\ CleanStop /\ AtMostOneLate /\ PendingIsLive

\* The row was last written by an event that failed: by one of the saves its
\* gather left running.
Torn(r) ==
    \E i \in InState("failed") : r \in rows[i] /\ rows[i] # {r} /\ db[r] = i[2]

\* At rest, every row holds the last event that wrote it: a client that reads
\* the database, or the server that loads it at its next start, sees the
\* latest state (app.py, step 1 of on_startup: "the latest data").  Only a row
\* that a failed event of several rows wrote last may be behind, and the next
\* event of its key that is saved puts it right.
WritesOf(r) == {i \in InState("done") : r \in rows[i]}

RowsAreLatest ==
    (\A i \in TaskIds : ~Unfinished(i)) =>
        \A r \in Rows : \A i \in WritesOf(r) : i[2] <= db[r] \/ Torn(r)

\* A fleet event writes its fleet row and the rows of its robots together:
\* a row that every event about k writes is never behind another row of k,
\* unless one of the two is torn: between a save of a gather that raised and the
\* next fleet state that is saved, a robot may be newer than its fleet.
FleetRowsAgree ==
    \A k \in Keys : \A r, s \in UNION RowSets[k] :
        (\A rs \in RowSets[k] : rs # {} => r \in rs) =>
            db[s] <= db[r] \/ Torn(r) \/ Torn(s)

\* stop() returns: what it waits for ends, even the tasks whose callbacks
\* raised KeyError and will never leave _pending_tasks.
StopReturns == []<>(stop \in {"running", "stopped"})

\* No update is left suspended: each event handed to _create_task is written,
\* or its save failed and what its gather left running has ended too.
EveryTaskEnds == []<>(\A i \in TaskIds : ~Unfinished(i) /\ late[i] = {})
=============================================================================
