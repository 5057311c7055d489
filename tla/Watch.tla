------------------------------- MODULE Watch ------------------------------
(***************************************************************************)
(* Watching a device over socket.io: from the listener of the browser      *)
(* (SioClient, packages/api-client/lib/index.ts) through the subscribe and *)
(* unsubscribe handlers of FastIO (api_server/fast_io/__init__.py) and the *)
(* watch coroutines of the routes (doors.py, lifts.py, ...), to the rx     *)
(* pipeline that rx_watcher (routes/utils.py) attaches to RmfEvents.       *)
(*                                                                         *)
(* A watch sends the state it finds in the database and then the events    *)
(* published after it attached to the subject.  The database is written by *)
(* the book keeper, later, and the two reads are not atomic.               *)
(*                                                                         *)
(* One browser is modelled.  States of a path are numbered in the order    *)
(* they are published; 0 is "no state".  The acknowledgements "subscribe"  *)
(* and "unsubscribe" are left out: SioClient has no listener for them.     *)
(***************************************************************************)
EXTENDS Integers, FiniteSets, Sequences, SequencesExt, Selection

CONSTANTS
    Paths,          \* socket.io paths, one device state or health each
    Listeners,      \* listener functions of the browser
    PathOf,         \* PathOf[l]: the path listener l is for
    MaxVer,         \* bound: states published on each path
    MaxReq,         \* bound: watch requests made
    MaxConn,        \* bound: connections made
    WatchMayFail    \* whether the database read of a watch may raise

ASSUME WatchAssumption ==
    /\ PathOf \in [Listeners -> Paths]
    /\ MaxVer \in Nat /\ MaxReq \in Nat /\ MaxConn \in Nat
    /\ WatchMayFail \in BOOLEAN

Reqs == 1 .. MaxReq
Vers == 1 .. MaxVer

VARIABLES
    replaying, \* paths over a BehaviorSubject, read without the database
    pub,      \* pub[p]: the state last published on p
    unsaved,  \* unsaved[p]: states the book keeper has not saved yet
    db,       \* db[p]: the state in the database
    sid,      \* the connection of the browser, 0 when there is none
    conns,    \* connections made
    session,  \* session["subscriptions"] of sid: path -> watch request, or 0
    made,     \* watch requests made
    path,     \* path[r]: path of request r
    owner,    \* owner[r]: its sid
    phase,    \* phase[r]: progress of its watch coroutine and subscription
    snap,     \* snap[r]: what the coroutine read from the database
    queue,    \* queue[r]: events observe_on holds for the loop
    unsubs,   \* requests an unsubscribe handler waits on
    emits,    \* tasks emitting an event, in the order the loop runs them
    up,       \* messages from the browser
    down,     \* messages to the browser
    subs,     \* listeners that are subscribed (SioClient._subscriptions)
    latest,   \* latest[l]: what listener l was last called with
    told,     \* history: told[l], the request that called it last, or 0
    from,     \* history: from[r], the state published last when r attached
    got       \* history: got[r], the last state of r the browser received

world   == <<replaying, pub, unsaved, db>>
link    == <<sid, conns>>
request == <<made, path, owner>>
client  == <<up, subs>>
shown   == <<latest, told>>
vars == <<world, link, session, request, phase, snap, queue, unsubs, emits,
          down, client, shown, from, got>>

\* none: not made; start: the coroutine is created; read: it has the database
\* row; sent: it awaits the emit of that row; live: attached to the subject;
\* disposed: detached; failed: the coroutine raised.
Phases  == {"none", "start", "read", "sent", "live", "disposed", "failed"}
Running == {"start", "read", "sent"}

Msg   == [req : Reqs, ver : Vers]
UpMsg == [ev : {"subscribe", "unsubscribe"}, path : Paths]

TypeOK ==
    /\ replaying \subseteq Paths
    /\ pub \in [Paths -> 0 .. MaxVer]
    /\ unsaved \in [Paths -> SUBSET Vers]
    /\ db \in [Paths -> 0 .. MaxVer]
    /\ sid \in 0 .. MaxConn /\ conns \in 0 .. MaxConn
    /\ session \in [Paths -> 0 .. MaxReq]
    /\ made \in 0 .. MaxReq
    /\ path \in [Reqs -> Paths] /\ owner \in [Reqs -> 0 .. MaxConn]
    /\ phase \in [Reqs -> Phases]
    /\ snap \in [Reqs -> 0 .. MaxVer]
    /\ queue \in [Reqs -> Seq(Vers)]
    /\ unsubs \subseteq Reqs
    /\ emits \in Seq(Msg) /\ down \in Seq(Msg) /\ up \in Seq(UpMsg)
    /\ subs \subseteq Listeners
    /\ latest \in [Listeners -> 0 .. MaxVer] /\ told \in [Listeners -> 0 .. MaxReq]
    /\ from \in [Reqs -> 0 .. MaxVer]
    /\ got \in [Reqs -> 0 .. MaxVer]

\* A path is one over the building map, or one over a device or a health.
Init ==
    /\ replaying \in SUBSET Paths
    /\ pub = [p \in Paths |-> 0]
    /\ unsaved = [p \in Paths |-> {}]
    /\ db = [p \in Paths |-> 0]
    /\ sid = 0 /\ conns = 0
    /\ session = [p \in Paths |-> 0]
    /\ made = 0
    /\ \E p \in Paths : path = [r \in Reqs |-> p]
    /\ owner = [r \in Reqs |-> 0]
    /\ phase = [r \in Reqs |-> "none"]
    /\ snap = [r \in Reqs |-> 0]
    /\ queue = [r \in Reqs |-> <<>>]
    /\ unsubs = {}
    /\ emits = <<>> /\ down = <<>> /\ up = <<>>
    /\ subs = {}
    /\ latest = [l \in Listeners |-> 0] /\ told = [l \in Listeners |-> 0]
    /\ from = [r \in Reqs |-> 0]
    /\ got = [r \in Reqs |-> 0]

-----------------------------------------------------------------------------
(* The world: RMF publishes, the book keeper saves.                        *)

\* on_next on the subject of p, heard by the pipelines of the given requests.
PublishTo(p, heard) ==
    /\ pub[p] < MaxVer
    /\ pub' = [pub EXCEPT ![p] = @ + 1]
    /\ unsaved' = [unsaved EXCEPT ![p] = @ \cup {pub[p] + 1}]
    /\ queue' = [r \in Reqs |->
                    IF r \in heard THEN Append(queue[r], pub[p] + 1) ELSE queue[r]]
    /\ UNCHANGED <<replaying, db, link, session, request, phase, snap, unsubs, emits,
                   down, client, shown, from, got>>

On(p, phases) == {r \in Reqs : path[r] = p /\ phase[r] \in phases}

\* Mutant: the pipeline drops an event while another is pending.
PublishThrottled(p) == PublishTo(p, {r \in On(p, {"live"}) : queue[r] = <<>>})

\* A ROS callback calls on_next: every attached pipeline queues the event for
\* the loop, and the book keeper starts to save it.
Publish(p) == PublishTo(p, On(p, {"live"}))

\* Saves commit in any order (module BookKeeper, more than one connection).
Save(p) ==
    \E v \in unsaved[p] :
        /\ db' = [db EXCEPT ![p] = v]
        /\ unsaved' = [unsaved EXCEPT ![p] = @ \ {v}]
        /\ UNCHANGED <<replaying, pub, link, session, request, phase, snap, queue, unsubs,
                       emits, down, client, shown, from, got>>

-----------------------------------------------------------------------------
(* The connection.                                                         *)

\* on_connect gives the new sid an empty session.  What the browser emitted
\* while it was disconnected is still in its send buffer.
Connect ==
    /\ sid = 0 /\ conns < MaxConn
    /\ sid' = conns + 1
    /\ conns' = conns + 1
    /\ session' = [p \in Paths |-> 0]
    /\ UNCHANGED <<world, request, phase, snap, queue, unsubs, emits, down,
                   client, shown, from, got>>

\* The connection breaks: messages under way are lost.  FastIO registers no
\* disconnect handler, so the watches of the sid stay attached.
Disconnect ==
    /\ sid # 0
    /\ sid' = 0
    /\ up' = <<>> /\ down' = <<>>
    /\ UNCHANGED <<world, conns, session, request, phase, snap, queue, unsubs,
                   emits, subs, shown, from, got>>

-----------------------------------------------------------------------------
(* SioClient.                                                              *)

\* Subscribe messages the browser may still send.
Asks   == [ev : {"subscribe"}, path : Paths]
Budget == MaxReq - made - Len(Kept(up, Asks))

Subscribe(l) ==
    /\ l \notin subs /\ Budget > 0
    /\ up' = Append(up, [ev |-> "subscribe", path |-> PathOf[l]])
    /\ subs' = subs \cup {l}
    /\ latest' = [latest EXCEPT ![l] = 0]
    /\ told' = [told EXCEPT ![l] = 0]
    /\ UNCHANGED <<world, link, session, request, phase, snap, queue, unsubs,
                   emits, down, from, got>>

Unsubscribe(l) ==
    /\ l \in subs
    /\ up' = Append(up, [ev |-> "unsubscribe", path |-> PathOf[l]])
    /\ subs' = subs \ {l}
    /\ UNCHANGED <<world, link, session, request, phase, snap, queue, unsubs,
                   emits, down, shown, from, got>>

\* A message calls every listener registered for its path.
Receive ==
    /\ down # <<>>
    /\ LET m == Head(down)
           called == {l \in subs : PathOf[l] = path[m.req]}
       IN
          /\ latest' = [l \in Listeners |-> IF l \in called THEN m.ver ELSE latest[l]]
          /\ told' = [l \in Listeners |-> IF l \in called THEN m.req ELSE told[l]]
          /\ got' = [got EXCEPT ![m.req] = m.ver]
    /\ down' = Tail(down)
    /\ UNCHANGED <<world, link, session, request, phase, snap, queue, unsubs,
                   emits, client, from>>

-----------------------------------------------------------------------------
(* FastIO: the handlers run in tasks of their own, in the order of the     *)
(* messages.                                                               *)

\* Mutant: the request that is replaced is disposed.
OnSubscribeReplaces ==
    /\ sid # 0 /\ up # <<>> /\ Head(up).ev = "subscribe"
    /\ LET r == made + 1
           p == Head(up).path
       IN /\ made' = r
          /\ path' = [path EXCEPT ![r] = p]
          /\ owner' = [owner EXCEPT ![r] = sid]
          /\ phase' = [q \in Reqs |-> IF q = r THEN "start"
                                     ELSE IF q = session[p] THEN "disposed"
                                     ELSE phase[q]]
          /\ session' = [session EXCEPT ![p] = r]
    /\ up' = Tail(up)
    /\ UNCHANGED <<world, link, snap, queue, unsubs, emits, down, subs, shown,
                   from, got>>

\* _on_subscribe: a request takes the place of an earlier one on its path.
OnSubscribe ==
    /\ sid # 0 /\ up # <<>> /\ Head(up).ev = "subscribe"
    /\ LET r == made + 1 IN
          /\ made' = r
          /\ path' = [path EXCEPT ![r] = Head(up).path]
          /\ owner' = [owner EXCEPT ![r] = sid]
          /\ phase' = [phase EXCEPT ![r] = "start"]
          /\ session' = [session EXCEPT ![Head(up).path] = r]
    /\ up' = Tail(up)
    /\ UNCHANGED <<world, link, snap, queue, unsubs, emits, down, subs, shown,
                   from, got>>

\* Mutant: the request forgets the subscription without disposing it.
DetachForgets(r) == UNCHANGED <<phase, queue>>

\* req._on_unsubscribe(): disposes the rx subscription, when the coroutine got
\* as far as making one.  Queued events are dropped, emit tasks are not.
Detach(r) ==
    /\ phase' = [phase EXCEPT ![r] = IF @ = "live" THEN "disposed" ELSE @]
    /\ queue' = [queue EXCEPT ![r] = <<>>]

\* Mutant: the handler does not wait for the watch coroutine.
OnUnsubscribeEager ==
    /\ sid # 0 /\ up # <<>> /\ Head(up).ev = "unsubscribe"
    /\ LET r == session[Head(up).path] IN
          IF r = 0 THEN UNCHANGED <<phase, queue>> ELSE Detach(r)
    /\ up' = Tail(up)
    /\ UNCHANGED <<world, link, session, request, snap, unsubs, emits, down, subs,
                   shown, from, got>>

\* _on_unsubscribe, up to the await of an unfinished watch coroutine.  The
\* request stays in session["subscriptions"].
OnUnsubscribe ==
    /\ sid # 0 /\ up # <<>> /\ Head(up).ev = "unsubscribe"
    /\ LET r == session[Head(up).path] IN
          \/ /\ r = 0
             /\ UNCHANGED <<phase, queue, unsubs>>
          \/ /\ r # 0 /\ phase[r] \in Running
             /\ unsubs' = unsubs \cup {r}
             /\ UNCHANGED <<phase, queue>>
          \/ /\ r # 0 /\ phase[r] \notin Running
             /\ Detach(r)
             /\ UNCHANGED unsubs
    /\ up' = Tail(up)
    /\ UNCHANGED <<world, link, session, request, snap, emits, down, subs,
                   shown, from, got>>

\* The rest of _on_unsubscribe once the coroutine is done, for the request it
\* looked up before the await.
UnsubscribeResumes(r) ==
    /\ r \in unsubs /\ phase[r] \notin Running
    /\ unsubs' = unsubs \ {r}
    /\ Detach(r)
    /\ UNCHANGED <<world, link, session, request, snap, emits, down, client,
                   shown, from, got>>

-----------------------------------------------------------------------------
(* The watch coroutine of a route and the pipeline of rx_watcher.          *)

\* sio.emit(..., to=sid) reaches the browser only on the same connection.
SendTo(r, v) ==
    down' = IF owner[r] = sid THEN Append(down, [req |-> r, ver |-> v]) ELSE down

AttachWith(r, replay) ==
    LET p == path[r] IN
    /\ phase' = [phase EXCEPT ![r] = "live"]
    /\ from' = [from EXCEPT ![r] = pub[p]]
    /\ queue' = [queue EXCEPT ![r] = IF replay THEN <<pub[p]>> ELSE <<>>]

\* Mutant: every subject replays, even before its first event.
AttachReplaysNone(r) == AttachWith(r, TRUE)

\* rx_watcher subscribes; a BehaviorSubject answers with its current value.
Attach(r) == AttachWith(r, path[r] \in replaying /\ pub[path[r]] > 0)

\* The read of the database row; building_map.py has none and attaches.
WatchRead(r) ==
    /\ phase[r] = "start"
    /\ \/ /\ path[r] \in replaying
          /\ Attach(r)
          /\ UNCHANGED snap
       \/ /\ path[r] \notin replaying
          /\ snap' = [snap EXCEPT ![r] = db[path[r]]]
          /\ phase' = [phase EXCEPT ![r] = "read"]
          /\ UNCHANGED <<from, queue>>
    /\ UNCHANGED <<world, link, session, request, unsubs, emits, down, client,
                   shown, got>>

\* The read raises: the coroutine ends and never attaches.
WatchFails(r) ==
    /\ WatchMayFail
    /\ phase[r] = "start" /\ path[r] \notin replaying
    /\ phase' = [phase EXCEPT ![r] = "failed"]
    /\ UNCHANGED <<world, link, session, request, snap, queue, unsubs, emits,
                   down, client, shown, from, got>>

\* Mutant: the row is read but not sent.
WatchSendNothing(r) ==
    /\ phase[r] = "read"
    /\ Attach(r)
    /\ UNCHANGED <<world, link, session, request, snap, unsubs, emits, down, client,
                   shown, got>>

\* await req.emit(state) when there is one; else straight on to rx_watcher.
WatchSend(r) ==
    /\ phase[r] = "read"
    /\ \/ /\ snap[r] # 0
          /\ SendTo(r, snap[r])
          /\ phase' = [phase EXCEPT ![r] = "sent"]
          /\ UNCHANGED <<from, queue>>
       \/ /\ snap[r] = 0
          /\ Attach(r)
          /\ UNCHANGED down
    /\ UNCHANGED <<world, link, session, request, snap, unsubs, emits, client,
                   shown, got>>

WatchAttach(r) ==
    /\ phase[r] = "sent"
    /\ Attach(r)
    /\ UNCHANGED <<world, link, session, request, snap, unsubs, emits, down,
                   client, shown, got>>

\* Mutant: only the newest event is sent (a sampling pipeline).
HandleNewest(r) ==
    /\ queue[r] # <<>>
    /\ emits' = Append(emits, [req |-> r, ver |-> Last(queue[r])])
    /\ queue' = [queue EXCEPT ![r] = <<>>]
    /\ UNCHANGED <<world, link, session, request, phase, snap, unsubs, down,
                   client, shown, from, got>>

\* observe_on runs handle on the loop, which creates a task for the emit.
Handle(r) ==
    /\ queue[r] # <<>>
    /\ emits' = Append(emits, [req |-> r, ver |-> Head(queue[r])])
    /\ queue' = [queue EXCEPT ![r] = Tail(@)]
    /\ UNCHANGED <<world, link, session, request, phase, snap, unsubs, down,
                   client, shown, from, got>>

\* The emit task runs.
Emit ==
    /\ emits # <<>>
    /\ SendTo(Head(emits).req, Head(emits).ver)
    /\ emits' = Tail(emits)
    /\ UNCHANGED <<world, link, session, request, phase, snap, queue, unsubs,
                   client, shown, from, got>>

-----------------------------------------------------------------------------
Browser == (\E l \in Listeners : Subscribe(l) \/ Unsubscribe(l)) \/ Receive

Coroutine(r) == WatchRead(r) \/ WatchFails(r) \/ WatchSend(r) \/ WatchAttach(r)

Server ==
    \/ OnSubscribe \/ OnUnsubscribe \/ Emit
    \/ \E r \in Reqs : UnsubscribeResumes(r) \/ Handle(r) \/ Coroutine(r)

Next ==
    \/ \E p \in Paths : Publish(p) \/ Save(p)
    \/ Connect \/ Disconnect
    \/ Browser \/ Server

(***************************************************************************)
(* Fairness: the loop runs what is ready, the database answers, messages   *)
(* arrive.  Nothing forces RMF to publish, the book keeper to save, the    *)
(* browser to subscribe, or the connection to break or come back.          *)
(***************************************************************************)
Fairness ==
    /\ WF_vars(OnSubscribe \/ OnUnsubscribe) /\ WF_vars(Emit) /\ WF_vars(Receive)
    /\ \A r \in Reqs :
          WF_vars(UnsubscribeResumes(r)) /\ WF_vars(Handle(r)) /\ WF_vars(Coroutine(r))

Spec     == Init /\ [][Next]_vars
FairSpec == Spec /\ Fairness

-----------------------------------------------------------------------------
(* Properties.                                                             *)

\* The states of r in a sequence of messages.
MsgOf(r)     == [req : {r}, ver : Vers]
VersOf(r, s) == LET mine == Kept(s, MsgOf(r)) IN [n \in DOMAIN mine |-> mine[n].ver]

\* To the browser each watch is a channel, whatever queues, tasks and messages
\* its states pass through (module Feed): the row of the database and the events
\* after it arrive once and in order, without a gap, but for what observe_on still
\* held when a watch was detached, and what its own connection took with it.
StageOf(phaseOfWatch) ==
    CASE phaseOfWatch \in {"none", "start", "read"} -> "new"
      [] phaseOfWatch = "sent" -> "offered"
      [] phaseOfWatch = "live" -> "open"
      [] OTHER -> "closed"

Stages  == [r \in Reqs |-> StageOf(phase[r])]
Transit == [r \in Reqs |-> VersOf(r, down) \o VersOf(r, emits) \o queue[r]]

Channel == INSTANCE Feed WITH
    Subjects <- Paths, Watches <- Reqs, line <- sid, home <- owner,
    current <- pub, about <- path, seen <- got,
    stage <- Stages, transit <- Transit

ImplementsFeed == Channel!FeedSpec

\* At rest, a listener on a connection that was never replaced shows the last
\* published state, but for four cases.  A watch fell into the gap: it read
\* the row before the book keeper wrote that state and attached after it was
\* published, which the map, whose subject replays, never does.  Its read
\* raised.  The listener was last called by a watch that was detached since:
\* when a listener comes back while the watch of its first visit is still in
\* its coroutine, that watch attaches, sends, and is detached with the newer
\* events still in its queue.  Or nobody called it: the unsubscribe of another
\* listener detached the newer watch of their path before its replay was sent.
AtRest ==
    /\ sid # 0 /\ conns = 1
    /\ up = <<>> /\ down = <<>> /\ emits = <<>> /\ unsubs = {}
    /\ \A r \in Reqs : phase[r] \notin Running /\ queue[r] = <<>>

InGap(r) == phase[r] \in {"live", "disposed"} /\ from[r] = pub[path[r]] /\ snap[r] < from[r]

ToldByDetached(l) == told[l] # 0 /\ phase[told[l]] = "disposed"

ReplayDropped(r) == phase[r] = "disposed" /\ path[r] \in replaying /\ got[r] = 0

FreshOrGap ==
    AtRest => \A l \in subs :
        LET ours == {r \in Reqs : path[r] = PathOf[l]} IN
        \/ latest[l] = pub[PathOf[l]]
        \/ PathOf[l] \notin replaying /\ \E r \in ours : InGap(r) \/ phase[r] = "failed"
        \/ ToldByDetached(l)
        \/ told[l] = 0 /\ \E r \in ours : ReplayDropped(r)

\* Several listeners share a path and its single entry in the session, and an
\* unsubscribe detaches whatever watch that entry names; still every listener
\* left keeps a watch that feeds it, because a replaced watch is not detached.
Feeding(p) ==
    {r \in Reqs : path[r] = p /\ owner[r] = sid /\ phase[r] \in Running \cup {"live"}}

NoListenerStarves ==
    sid # 0 /\ conns = 1 /\ ~WatchMayFail /\ up = <<>> /\ unsubs = {} =>
        \A p \in Paths :
            Cardinality({l \in subs : PathOf[l] = p}) <= Cardinality(Feeding(p))

\* When the listeners of a path are gone and the handlers are done, no watch
\* of the path is left attached: nothing is emitted after an unsubscribe
\* (test_fast_io.py, test_unsubscribe).
UnsubscribedIsSilent ==
    sid # 0 /\ conns = 1 /\ up = <<>> /\ unsubs = {} =>
        \A p \in Paths : (\A l \in subs : PathOf[l] # p) => Feeding(p) = {}

\* Every state published after a watch attached reaches the listeners of its
\* path, unless the watch is detached or the connection breaks.
EveryEventArrives ==
    \A l \in Listeners, r \in Reqs, v \in Vers :
        (/\ l \in subs /\ PathOf[l] = path[r] /\ owner[r] = sid
         /\ phase[r] = "live" /\ from[r] < v /\ pub[path[r]] = v /\ got[r] < v)
        ~> (latest[l] >= v \/ l \notin subs \/ phase[r] = "disposed" \/ owner[r] # sid)

\* An unsubscribe handler never waits for ever, and when it is done the watch
\* it was about is detached.
UnsubscribeEnds ==
    \A r \in Reqs : (r \in unsubs) ~> (phase[r] \in {"disposed", "failed"})
=============================================================================
