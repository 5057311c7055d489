----------------------------- MODULE Shutdown -----------------------------
(***************************************************************************)
(* How the api server stops (packages/api-server/api_server/app.py),       *)
(* composed with the book keeper it stops.                                 *)
(*                                                                         *)
(* on_startup pushes one callback per resource on shutdown_cbs;            *)
(* on_shutdown pops and runs them, last resource first.  Two coroutines    *)
(* may run on_shutdown: the one the lifespan "shutdown" event starts, and  *)
(* the one the signal handler creates.  They share the list, and each      *)
(* awaits only the callbacks it popped itself.                             *)
(*                                                                         *)
(* The module starts when on_startup has finished.                         *)
(***************************************************************************)
EXTENDS BookKeeper, Sequences, SequencesExt

CONSTANTS
    Runners,     \* coroutines running on_shutdown
    spinThread   \* the rclpy spin thread, one of Threads

ASSUME ShutdownAssumption == spinThread \in Threads

VARIABLES
    cbs,        \* shutdown_cbs, the next to pop is the last
    runner,     \* runner[r]: "idle", "running", "awaiting", "joining" or "done"
    rosSubs,    \* the gateway's ROS subscriptions exist
    spinning,   \* the spin thread runs
    conn        \* "open" or "closed": the database connections

lifeVars == <<cbs, runner, rosSubs, spinning, conn>>
allVars  == <<vars, lifeVars>>

\* Mutant: the database is opened after the book keeper is started.
RegisteredLateOpen == <<"rclpy.shutdown", "stop_spinning", "bookkeeper.stop",
                        "close_connections", "unsubscribe_all">>

\* The callbacks in the order on_startup pushes them.
Registered == <<"close_connections", "rclpy.shutdown", "stop_spinning",
                "bookkeeper.stop", "unsubscribe_all">>

ShutdownTypeOK ==
    /\ TypeOK
    /\ \E n \in 0 .. Len(Registered) : cbs = SubSeq(Registered, 1, n)
    /\ runner \in [Runners -> {"idle", "running", "awaiting", "joining", "done"}]
    /\ rosSubs \in BOOLEAN /\ spinning \in BOOLEAN
    /\ conn \in {"open", "closed"}

ShutdownInit ==
    /\ Init
    /\ cbs = Registered
    /\ runner = [r \in Runners |-> "idle"]
    /\ rosSubs = TRUE
    /\ spinning = TRUE
    /\ conn = "open"

-----------------------------------------------------------------------------
\* Mutant: a shutdown waits for the book keeper without yielding to the loop.
LoopBlockedByStop == \E r \in Runners : runner[r] \in {"awaiting", "joining"}

\* stop_spinning joins the spin thread from the loop thread: while it waits,
\* no callback of the loop runs.
LoopBlocked == \E r \in Runners : runner[r] = "joining"

\* A publishing thread: the spin thread takes new messages only while it spins
\* and the gateway is subscribed.  It finishes the callback it is in.
Publish ==
    \E t \in Threads :
        /\ \/ /\ t = spinThread => rosSubs /\ spinning
              /\ \E k \in Keys : OnEvent(t, k)
           \/ CreateTask(t)
           \/ AddDoneCallback(t)
           \/ AddPending(t)
        /\ UNCHANGED lifeVars

\* A step of a save; nothing commits through a closed connection.
Save ==
    \E i \in TaskIds :
        /\ \/ conn = "open" /\ (Commit(i) \/ WriteLate(i))
           \/ LateFails(i)
           \/ ~LoopBlocked /\ (Begin(i) \/ SaveFails(i) \/ Return(i) \/ DoneCallback(i))
        /\ UNCHANGED lifeVars

\* The rest of bookkeeper.stop(), up to its await and from there.
StopContinues ==
    /\ ~LoopBlocked
    /\ (\E k \in Keys : Dispose(k)) \/ StopWait \/ StopReturn
    /\ UNCHANGED lifeVars

\* SIGINT or SIGTERM, or the end of the server's lifespan.
StartShutdown(r) ==
    /\ runner[r] = "idle"
    /\ LoopFree /\ ~LoopBlocked
    /\ runner' = [runner EXCEPT ![r] = "running"]
    /\ UNCHANGED <<vars, cbs, rosSubs, spinning, conn>>

\* A shutdown callback, up to its first suspension.
Call(r, callback) ==
    \/ /\ callback = "unsubscribe_all"
       /\ rosSubs' = FALSE
       /\ UNCHANGED <<vars, runner, spinning, conn>>
    \/ /\ callback = "bookkeeper.stop"
       /\ StopBegin
       /\ runner' = [runner EXCEPT ![r] = "awaiting"]
       /\ UNCHANGED <<rosSubs, spinning, conn>>
    \/ /\ callback = "stop_spinning"
       /\ runner' = [runner EXCEPT ![r] = "joining"]
       /\ UNCHANGED <<vars, rosSubs, spinning, conn>>
    \/ /\ callback = "rclpy.shutdown"
       /\ UNCHANGED <<vars, runner, rosSubs, spinning, conn>>
    \/ /\ callback = "close_connections"
       /\ conn' = "closed"
       /\ UNCHANGED <<vars, runner, rosSubs, spinning>>

\* cb = shutdown_cbs.pop(), and its call.
Pop(r) ==
    /\ runner[r] = "running" /\ cbs # <<>>
    /\ LoopFree /\ ~LoopBlocked
    /\ cbs' = Front(cbs)
    /\ Call(r, Last(cbs))

\* await bookkeeper.stop() returns to the coroutine that popped it.
StopAwaited(r) ==
    /\ runner[r] = "awaiting" /\ stop = "stopped"
    /\ ~LoopBlocked
    /\ runner' = [runner EXCEPT ![r] = "running"]
    /\ UNCHANGED <<vars, cbs, rosSubs, spinning, conn>>

\* The spin thread leaves its callback, sees the finish future, and ends.
Joined(r) ==
    /\ runner[r] = "joining" /\ pc[spinThread] = "idle"
    /\ spinning' = FALSE
    /\ runner' = [runner EXCEPT ![r] = "running"]
    /\ UNCHANGED <<vars, cbs, rosSubs, conn>>

\* while shutdown_cbs: the list is empty.
EndShutdown(r) ==
    /\ runner[r] = "running" /\ cbs = <<>>
    /\ LoopFree /\ ~LoopBlocked
    /\ runner' = [runner EXCEPT ![r] = "done"]
    /\ UNCHANGED <<vars, cbs, rosSubs, spinning, conn>>

ShutdownStep(r) ==
    StartShutdown(r) \/ Pop(r) \/ StopAwaited(r) \/ Joined(r) \/ EndShutdown(r)

ShutdownNext ==
    Publish \/ Save \/ StopContinues \/ \E r \in Runners : ShutdownStep(r)

(***************************************************************************)
(* Fairness: the loop keeps running its callbacks, the database answers    *)
(* while it is open, a thread gets through _create_task, and a message     *)
(* does not keep the spin thread in its callback for ever.                 *)
(***************************************************************************)
ShutdownFairness ==
    /\ \A t \in Threads :
          /\ WF_allVars(CreateTask(t) /\ UNCHANGED lifeVars)
          /\ WF_allVars(AddDoneCallback(t) /\ UNCHANGED lifeVars)
          /\ WF_allVars(AddPending(t) /\ UNCHANGED lifeVars)
    /\ WF_allVars(Save)
    /\ WF_allVars(StopContinues)
    /\ \A r \in Runners :
          WF_allVars(Pop(r) \/ StopAwaited(r) \/ Joined(r) \/ EndShutdown(r))

ShutdownSpec     == ShutdownInit /\ [][ShutdownNext]_allVars
FairShutdownSpec == ShutdownSpec /\ ShutdownFairness

-----------------------------------------------------------------------------
\* The database closes "gracefully": the spin thread is joined before, and the
\* updates still unsaved then come from threads stop() caught inside a callback,
\* one update each.  The spin thread can be one of them: it hands over its last
\* event during the join, after stop() returned.
ClosedGracefully ==
    conn = "closed" =>
        /\ ~spinning /\ pc[spinThread] = "idle"
        /\ \A i, j \in TaskIds : Unfinished(i) /\ Unfinished(j) =>
              maker[i] \in inflight /\ (maker[i] = maker[j] => i = j)

\* A shutdown that starts always gets to the end, although it blocks the loop
\* to join a thread that hands work to that loop, and although stop() may
\* wait for tasks whose callbacks never remove them from _pending_tasks.
ShutdownEnds ==
    \A r \in Runners : (runner[r] = "running") ~> (runner[r] = "done" /\ conn = "closed")

=============================================================================
