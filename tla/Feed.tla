-------------------------------- MODULE Feed --------------------------------
(***************************************************************************)
(* What a watch promises to the browser, whatever queues, tasks and        *)
(* handlers lie between: a channel that carries at most one state from     *)
(* before it was opened, and then every state published on its subject     *)
(* while it is open, once and in order.  When its connection breaks, what  *)
(* is under way is lost, the oldest first; when it is closed, the newest   *)
(* first.  Nothing is lost, doubled or overtaken in the middle.            *)
(*                                                                         *)
(* Module Watch shows that the server and its client implement this.       *)
(***************************************************************************)
EXTENDS Integers, Sequences

CONSTANTS Subjects, Watches

VARIABLES
    line,     \* the connection of the browser, 0 when there is none
    home,     \* home[w]: the connection watch w was asked for on, 0 for none
    current,  \* current[s]: the state last published on subject s, 0 for none
    about,    \* about[w]: the subject of watch w
    stage,    \* stage[w]: "new", "offered", "open" or "closed"
    transit,  \* transit[w]: the states on their way, oldest first
    seen      \* seen[w]: the state that arrived last, 0 for none

feedVars == <<line, home, current, about, stage, transit, seen>>

FeedInit ==
    /\ line = 0
    /\ home = [w \in Watches |-> 0]
    /\ current = [s \in Subjects |-> 0]
    /\ about \in [Watches -> Subjects]
    /\ stage = [w \in Watches |-> "new"]
    /\ transit = [w \in Watches |-> <<>>]
    /\ seen = [w \in Watches |-> 0]

-----------------------------------------------------------------------------
\* A state is published: every open watch of the subject carries it.
PublishState(s) ==
    /\ UNCHANGED <<line, home, about, stage, seen>>
    /\ current' = [current EXCEPT ![s] = @ + 1]
    /\ transit' = [w \in Watches |->
                      IF stage[w] = "open" /\ about[w] = s
                      THEN Append(transit[w], current[s] + 1) ELSE transit[w]]

\* A new connection is not one any watch was asked for on.
NewLine ==
    /\ line = 0 /\ line' \in Nat \ {0}
    /\ \A w \in Watches : home[w] # line'
    /\ UNCHANGED <<home, current, about, stage, transit, seen>>

\* A watch is asked for.
AskFor(w, s) ==
    /\ line # 0 /\ home[w] = 0
    /\ UNCHANGED <<line, current, stage, transit, seen>>
    /\ home' = [home EXCEPT ![w] = line]
    /\ about' = [about EXCEPT ![w] = s]

\* Before it opens a watch may offer a state published earlier; with nobody
\* at the other end the state is lost.
OfferEarlier(w) ==
    /\ home[w] # 0 /\ stage[w] = "new"
    /\ UNCHANGED <<line, home, current, about, seen>>
    /\ stage' = [stage EXCEPT ![w] = "offered"]
    /\ \/ home[w] # line /\ UNCHANGED transit
       \/ \E v \in 1 .. current[about[w]] : transit' = [transit EXCEPT ![w] = <<v>>]

\* A watch opens; one that has offered nothing may offer the current state.
Open(w) ==
    /\ home[w] # 0 /\ stage[w] \in {"new", "offered"}
    /\ UNCHANGED <<line, home, current, about, seen>>
    /\ stage' = [stage EXCEPT ![w] = "open"]
    /\ \/ UNCHANGED transit
       \/ /\ stage[w] = "new" /\ current[about[w]] > 0
          /\ transit' = [transit EXCEPT ![w] = <<current[about[w]]>>]

\* A watch fails before it opens, or is closed: what entered last is dropped.
Close(w) ==
    /\ home[w] # 0 /\ stage[w] \in {"new", "open"}
    /\ UNCHANGED <<line, home, current, about, seen>>
    /\ stage' = [stage EXCEPT ![w] = "closed"]
    /\ \E n \in 0 .. Len(transit[w]) :
          transit' = [transit EXCEPT ![w] = SubSeq(transit[w], 1, n)]

Arrive(w) ==
    /\ home[w] = line /\ transit[w] # <<>>
    /\ UNCHANGED <<line, home, current, about, stage>>
    /\ seen' = [seen EXCEPT ![w] = Head(transit[w])]
    /\ transit' = [transit EXCEPT ![w] = Tail(transit[w])]

\* The connection breaks: of each watch, what was ahead is lost.
Break ==
    /\ line # 0 /\ line' = 0
    /\ UNCHANGED <<home, current, about, stage, seen>>
    /\ transit' = [w \in Watches |-> transit'[w]]
    /\ \A w \in Watches : \E n \in 0 .. Len(transit[w]) :
          transit'[w] = SubSeq(transit[w], n + 1, Len(transit[w]))

\* What comes later to an end nobody is at is lost.
Lose(w) ==
    /\ home[w] # line /\ transit[w] # <<>>
    /\ UNCHANGED <<line, home, current, about, stage, seen>>
    /\ transit' = [transit EXCEPT ![w] = Tail(transit[w])]

FeedNext ==
    \/ NewLine \/ Break
    \/ \E s \in Subjects : PublishState(s)
    \/ \E w \in Watches : Arrive(w) \/ Lose(w) \/ OfferEarlier(w) \/ Open(w) \/ Close(w)
    \/ \E w \in Watches, s \in Subjects : AskFor(w, s)

FeedSpec == FeedInit /\ [][FeedNext]_feedVars
=============================================================================
