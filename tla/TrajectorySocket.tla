-------------------------- MODULE TrajectorySocket -------------------------
(***************************************************************************)
(* Requests over the WebSocket of the trajectory server (packages/         *)
(* dashboard/src/managers/trajectory-socket-manager.ts).  A reply carries  *)
(* no request id: a manager takes the next message of the socket for the   *)
(* reply.  The manager of the trajectories and the one of the negotiations *)
(* share one socket (rmf-ingress.ts), which also carries the negotiation   *)
(* updates the server pushes.  The server answers the requests of the      *)
(* socket in order.                                                        *)
(*                                                                         *)
(* A message is dispatched to the listeners the socket has at that time,   *)
(* one after the other; microtasks run between two calls.  The listener of *)
(* a reply is never removed (removeEventListener is given the listener,    *)
(* not the closure that was added): it goes on clearing _ongoingRequest at *)
(* every later message.                                                    *)
(***************************************************************************)
EXTENDS Selection

CONSTANTS
    Managers,   \* TrajectorySocketManager objects on the socket
    MaxSend,    \* bound: MaxSend[m], calls of send() by m
    NoRequest,  \* null
    Push,       \* a message that is not a reply
    MaxPush     \* bound: messages pushed

\* The n-th call of send() by a manager.
Requests == UNION {{m} \X (1 .. MaxSend[m]) : m \in Managers}
OwnerOf(q) == q[1]

ASSUME SocketAssumption ==
    /\ MaxSend \in [Managers -> Nat]
    /\ NoRequest \notin Requests /\ Push \notin Requests /\ NoRequest # Push
    /\ MaxPush \in Nat

VARIABLES
    sent,       \* requests in the order send() was called
    up,         \* requests under way to the server
    down,       \* messages under way to the dashboard
    pushed,     \* messages pushed
    ongoing,    \* ongoing[m]: the request of m._ongoingRequest
    waiting,    \* requests suspended at "await this._ongoingRequest", in order
    awaits,     \* awaits[q]: the request whose promise q waits for
    sockListeners,  \* the socket's listeners, each named by its request
    heard,      \* the message dispatched last
    arrived,    \* messages that arrived
    next,       \* the listener to call next
    until,      \* the last listener the message is dispatched to
    got,        \* got[q]: the message the promise of q resolved with
    at,         \* history: at[q], its place among the messages that arrived
    crowded     \* history: crowded[m], more than two requests of m were in flight at once

link     == <<up, down, pushed>>
promises == <<ongoing, waiting, awaits, sockListeners>>
dispatch == <<heard, arrived, next, until>>
socketVars == <<sent, link, promises, dispatch, got, at, crowded>>

Messages == Requests \cup {Push}  \* a reply is named by its request

SocketInit ==
    /\ sent = <<>> /\ up = <<>> /\ down = <<>> /\ pushed = 0
    /\ ongoing = [m \in Managers |-> NoRequest]
    /\ waiting = <<>>
    /\ awaits = [q \in Requests |-> NoRequest]
    /\ sockListeners = <<>>
    /\ heard = Push /\ arrived = 0 /\ next = 1 /\ until = 0
    /\ got = [q \in Requests |-> NoRequest]
    /\ at = [q \in Requests |-> 0]
    /\ crowded = [m \in Managers |-> FALSE]

Sent == {sent[n] : n \in DOMAIN sent}
InFlight == {q \in Sent : got[q] = NoRequest}
Pending(m) == {q \in InFlight : OwnerOf(q) = m}
Dispatching == next <= until

\* send() is called between two messages, or by a caller of send() whose
\* promise the listener called last has resolved.
Callable(q) ==
    \/ ~Dispatching
    \/ /\ next > 1 /\ at[sockListeners[next - 1]] = arrived
       /\ OwnerOf(q) = OwnerOf(sockListeners[next - 1])

\* The payload of q goes out, the next request of its manager.
SendPayload(q) ==
    /\ q \notin Sent /\ \A n \in 1 .. q[2] - 1 : <<OwnerOf(q), n>> \in Sent
    /\ Callable(q)
    /\ sent' = Append(sent, q)
    /\ up' = Append(up, q)
    /\ crowded' = [crowded EXCEPT ![OwnerOf(q)] =
                      @ \/ \E r, s \in Pending(OwnerOf(q)) : r # s]
    /\ UNCHANGED <<down, pushed, dispatch, got, at>>

Listen(q) ==
    /\ ongoing' = [ongoing EXCEPT ![OwnerOf(q)] = q]
    /\ sockListeners' = Append(sockListeners, q)
    /\ UNCHANGED <<waiting, awaits>>

\* Mutant: a request does not wait for the ongoing one.
SendEager(q) == SendPayload(q) /\ Listen(q)

\* send(): the payload goes out at once, the promise of the reply is made only
\* after the ongoing one is resolved.
SendMessage(q) ==
    /\ SendPayload(q)
    /\ LET before == ongoing[OwnerOf(q)] IN
          \/ /\ before = NoRequest
             /\ Listen(q)
          \/ /\ before # NoRequest
             /\ waiting' = Append(waiting, q)
             /\ awaits' = [awaits EXCEPT ![q] = before]
             /\ UNCHANGED <<ongoing, sockListeners>>

ServerAnswers ==
    /\ up # <<>>
    /\ down' = Append(down, Head(up))
    /\ up' = Tail(up)
    /\ UNCHANGED <<sent, pushed, promises, dispatch, got, at, crowded>>

ServerPushes ==
    /\ pushed < MaxPush
    /\ pushed' = pushed + 1
    /\ down' = Append(down, Push)
    /\ UNCHANGED <<sent, up, promises, dispatch, got, at, crowded>>

\* A message arrives, when the dispatch of the one before it is over.
Receive ==
    /\ down # <<>> /\ ~Dispatching
    /\ heard' = Head(down) /\ down' = Tail(down)
    /\ arrived' = arrived + 1
    /\ next' = 1 /\ until' = Len(sockListeners)
    /\ UNCHANGED <<sent, up, pushed, promises, got, at, crowded>>

\* The listener of q is called: it clears _ongoingRequest and resolves the
\* promise of q, the first time.  In microtasks, the requests in resumed go
\* on: each makes its promise, listens, and overwrites _ongoingRequest.
CallAndResume(q, resumed, cleared) ==
    /\ got' = IF got[q] = NoRequest THEN [got EXCEPT ![q] = heard] ELSE got
    /\ at' = IF got[q] = NoRequest THEN [at EXCEPT ![q] = arrived] ELSE at
    /\ ongoing' = [ongoing EXCEPT ![OwnerOf(q)] =
                      IF resumed = <<>> THEN cleared ELSE resumed[Len(resumed)]]
    /\ sockListeners' = sockListeners \o resumed
    /\ waiting' = Kept(waiting, {w \in Requests : awaits[w] # q})
    /\ next' = next + 1
    /\ UNCHANGED <<sent, link, awaits, heard, arrived, until, crowded>>

WaitingFor(q) == Kept(waiting, {w \in Requests : awaits[w] = q})

\* Mutant: a request that resumes forgets to listen.
CallListenerNobody == Dispatching /\ CallAndResume(sockListeners[next], <<>>, NoRequest)

\* The closure of _listenOnce.
CallListener ==
    Dispatching /\ CallAndResume(sockListeners[next], WaitingFor(sockListeners[next]), NoRequest)

-----------------------------------------------------------------------------
SocketNext ==
    (\E q \in Requests : SendMessage(q)) \/ ServerAnswers \/ ServerPushes \/ Receive \/ CallListener

\* Fairness: the server answers, the socket delivers, and a dispatch goes on;
\* nothing forces the dashboard to send or the server to push.
SocketSpec == SocketInit /\ [][SocketNext]_socketVars
SocketFairness ==
    WF_socketVars(ServerAnswers) /\ WF_socketVars(Receive) /\ WF_socketVars(CallListener)

-----------------------------------------------------------------------------
(* Properties.                                                             *)

SocketTypeOK ==
    /\ sent \in Seq(Requests) /\ up \in Seq(Requests)
    /\ down \in Seq(Messages) /\ pushed \in 0 .. MaxPush
    /\ ongoing \in [Managers -> Requests \cup {NoRequest}]
    /\ waiting \in Seq(Requests) /\ sockListeners \in Seq(Requests)
    /\ awaits \in [Requests -> Requests \cup {NoRequest}]
    /\ heard \in Messages /\ arrived \in Nat
    /\ next \in 1 .. until + 1 /\ until \in 0 .. Len(sockListeners)
    /\ got \in [Requests -> Messages \cup {NoRequest}]
    /\ at \in [Requests -> 0 .. arrived]
    /\ crowded \in [Managers -> BOOLEAN]

\* Every request is resolved with its own reply ("this should allow multiple
\* messages in-flight while processing the responses in the order they are
\* sent", trajectory-socket-manager.ts).
RepliesMatch == \A q \in Requests : got[q] \in {NoRequest, q}

\* It is true of one manager alone on a socket without pushed messages, as long
\* as no more than two requests are in flight: the second waits for the first,
\* and the listeners left over from answered requests take nothing from it.
FewRepliesMatch ==
    pushed = 0 /\ (\A q, s \in Sent : OwnerOf(q) = OwnerOf(s) /\ ~crowded[OwnerOf(q)]) =>
        RepliesMatch

\* "waits for the earlier response to be processed": a request that waited is
\* resolved with a later message than the one it waited for, however many are
\* in flight and whatever else the socket carries.
AwaitedFirst ==
    \A q \in Requests : awaits[q] # NoRequest /\ got[q] # NoRequest =>
        got[awaits[q]] # NoRequest /\ at[awaits[q]] < at[q]

\* The requests of a manager that never had more than two in flight are resolved
\* in the order they were sent, each with a message of its own, whatever else
\* the socket carries.  With more in flight a request that found nobody to
\* wait for can overtake one that was sent before it and waits.
NeverOvertaken ==
    \A i, j \in DOMAIN sent :
        /\ i < j /\ OwnerOf(sent[i]) = OwnerOf(sent[j]) /\ ~crowded[OwnerOf(sent[j])]
        /\ got[sent[j]] # NoRequest
        => got[sent[i]] # NoRequest /\ at[sent[i]] < at[sent[j]]

\* No request stays pending for ever, even when other requests and pushed
\* messages took its reply: it is resolved, with whatever message.
EveryRequestEnds == []<>(InFlight = {})

\* Replies are taken in order by whoever waits, and by whom they are meant for
\* as long as few requests are in flight.
RepliesInOrder ==
    /\ FewRepliesMatch
    /\ AwaitedFirst
    /\ NeverOvertaken
=============================================================================
