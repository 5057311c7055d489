---------------------------- MODULE WatchProofs ----------------------------
(* Proofs about Watch, for any paths and listeners and any bounds: what    *)
(* its queues, tasks and messages hold of a watch is a channel of Feed;    *)
(* listeners that come and go keep the watches that feed them; and what a  *)
(* listener shows when nothing is under way is fresh, or in a known gap.   *)
EXTENDS Watch, SelectionProofs, FiniteSetTheorems

(* The states of a watch in a sequence of messages.                        *)

LEMMA MsgOfReq == \A m \in Msg, r \in Reqs : m \in MsgOf(r) <=> m.req = r
BY DEF Msg, MsgOf

LEMMA VerOfMsg == \A m \in Msg : m.req \in Reqs /\ m.ver \in Vers
BY DEF Msg

LEMMA FieldsOfUpMsg == \A m \in UpMsg : m.path \in Paths
BY DEF UpMsg

LEMMA VersEmpty == \A r : VersOf(r, <<>>) = <<>>
<1> SUFFICES ASSUME NEW r PROVE VersOf(r, <<>>) = <<>>
  OBVIOUS
<1>1. Kept(<<>>, MsgOf(r)) = <<>>
  BY KeptEmpty
<1> QED
  BY <1>1 DEF VersOf

LEMMA VersInSeq ==
    ASSUME NEW r \in Reqs, NEW s \in Seq(Msg) PROVE VersOf(r, s) \in Seq(Vers)
<1> DEFINE k == Kept(s, MsgOf(r))
<1>1. k \in Seq(Msg \cap MsgOf(r))
  BY KeptInSeq
<1>2. Len(k) \in Nat /\ DOMAIN k = 1 .. Len(k) /\ \A n \in 1 .. Len(k) : k[n] \in Msg
  <2> HIDE DEF k
  <2> QED
    BY <1>1
<1>3. \A n \in 1 .. Len(k) : k[n].ver \in Vers
  BY <1>2, VerOfMsg
<1> QED
  BY <1>2, <1>3 DEF VersOf

LEMMA VersAppend ==
    ASSUME NEW r \in Reqs, NEW s \in Seq(Msg), NEW m \in Msg
    PROVE  VersOf(r, Append(s, m)) =
               IF m.req = r THEN Append(VersOf(r, s), m.ver) ELSE VersOf(r, s)
<1> DEFINE k == Kept(s, MsgOf(r))
           t == Append(s, m)
<1>1. Kept(t, MsgOf(r)) = IF m \in MsgOf(r) THEN Append(k, m) ELSE k
  BY KeptAppend
<1>2. k \in Seq(Msg)
  <2>1. k \in Seq(Msg \cap MsgOf(r))
    BY KeptInSeq
  <2> QED
    BY <2>1
<1>3. CASE m.req = r
  <2>1. Kept(t, MsgOf(r)) = Append(k, m)
    BY <1>1, <1>3, MsgOfReq
  <2> HIDE DEF k, t
  <2>2. /\ Len(k) \in Nat /\ DOMAIN k = 1 .. Len(k)
        /\ DOMAIN Append(k, m) = 1 .. Len(k) + 1
        /\ \A n \in 1 .. Len(k) : Append(k, m)[n] = k[n]
        /\ Append(k, m)[Len(k) + 1] = m
    BY <1>2
  <2> DEFINE v == [n \in DOMAIN k |-> k[n].ver]
  <2>3. \A n \in DOMAIN k : k[n].ver \in Vers
    <3>1. \A n \in DOMAIN k : k[n] \in Msg
      BY <1>2
    <3> QED
      BY <3>1, VerOfMsg
  <2>4. v \in Seq(Vers) /\ Len(v) = Len(k) /\ m.ver \in Vers
    BY <2>2, <2>3 DEF Msg
  <2>5. Append(v, m.ver) = [n \in 1 .. Len(k) + 1 |-> Append(k, m)[n].ver]
    <3> HIDE DEF v
    <3>1. /\ DOMAIN Append(v, m.ver) = 1 .. Len(k) + 1
          /\ Append(v, m.ver) = [n \in 1 .. Len(k) + 1 |-> Append(v, m.ver)[n]]
          /\ \A n \in 1 .. Len(k) : Append(v, m.ver)[n] = v[n]
          /\ Append(v, m.ver)[Len(k) + 1] = m.ver
      BY <2>2, <2>4
    <3>2. \A n \in 1 .. Len(k) + 1 : Append(v, m.ver)[n] = Append(k, m)[n].ver
      BY <2>2, <3>1 DEF v
    <3> QED
      BY <3>1, <3>2
  <2> QED
    BY <1>3, <2>1, <2>2, <2>5 DEF VersOf, k, t
<1>4. CASE m.req # r
  <2>1. Kept(t, MsgOf(r)) = k
    BY <1>1, <1>4, MsgOfReq
  <2> QED
    BY <1>4, <2>1 DEF VersOf
<1> QED
  BY <1>3, <1>4

LEMMA VersTail ==
    ASSUME NEW r \in Reqs, NEW s \in Seq(Msg), s # <<>>
    PROVE  /\ Head(s) \in Msg /\ Tail(s) \in Seq(Msg)
           /\ Head(s).req # r => VersOf(r, s) = VersOf(r, Tail(s))
           /\ Head(s).req = r => /\ VersOf(r, s) # <<>>
                                 /\ Head(VersOf(r, s)) = Head(s).ver
                                 /\ Tail(VersOf(r, s)) = VersOf(r, Tail(s))
<1> DEFINE m == Head(s)
           t == Tail(s)
           k == Kept(t, MsgOf(r))
<1>1. m \in Msg /\ t \in Seq(Msg)
  OBVIOUS
<1>2. Kept(s, MsgOf(r)) = (IF m \in MsgOf(r) THEN <<m>> ELSE <<>>) \o k
  BY KeptTail
<1>3. k \in Seq(Msg)
  <2>1. k \in Seq(Msg \cap MsgOf(r))
    BY <1>1, KeptInSeq
  <2> QED
    BY <2>1
<1> HIDE DEF k, t, m
<1>4. ASSUME m.req # r PROVE VersOf(r, s) = VersOf(r, t)
  <2>1. Kept(s, MsgOf(r)) = <<>> \o k
    BY <1>1, <1>2, <1>4, MsgOfReq
  <2>2. <<>> \o k = k
    BY <1>3
  <2> QED
    BY <2>1, <2>2 DEF VersOf, k
<1>5. ASSUME m.req = r
      PROVE  /\ VersOf(r, s) # <<>>
             /\ Head(VersOf(r, s)) = m.ver
             /\ Tail(VersOf(r, s)) = VersOf(r, t)
  <2> DEFINE c == <<m>> \o k
  <2>1. Kept(s, MsgOf(r)) = c
    BY <1>1, <1>2, <1>5, MsgOfReq
  <2>2. /\ c \in Seq(Msg) /\ Len(k) \in Nat /\ Len(c) = Len(k) + 1 /\ c[1] = m
        /\ \A n \in 1 .. Len(k) : c[n + 1] = k[n]
    BY <1>1, <1>3
  <2> HIDE DEF c
  <2> DEFINE v == [n \in DOMAIN c |-> c[n].ver]
  <2>3. /\ v \in Seq(Vers) /\ Len(v) = Len(k) + 1 /\ v[1] = m.ver
        /\ \A n \in 1 .. Len(k) : v[n + 1] = k[n].ver
    <3>1. DOMAIN c = 1 .. Len(k) + 1 /\ \A n \in 1 .. Len(k) + 1 : c[n] \in Msg
      BY <2>2
    <3>2. \A n \in 1 .. Len(k) + 1 : c[n].ver \in Vers
      BY <3>1, VerOfMsg
    <3>3. 1 \in 1 .. Len(k) + 1 /\ \A n \in 1 .. Len(k) : n + 1 \in 1 .. Len(k) + 1
      BY <2>2
    <3>4. v = [n \in 1 .. Len(k) + 1 |-> c[n].ver]
      BY <3>1
    <3> HIDE DEF v
    <3> QED
      BY <2>2, <3>2, <3>3, <3>4
  <2>4. v = VersOf(r, s)
    BY <2>1 DEF VersOf
  <2> HIDE DEF v
  <2>5. v # <<>> /\ Head(v) = m.ver
    BY <2>2, <2>3
  <2>6. Tail(v) = [n \in 1 .. Len(k) |-> k[n].ver]
    <3>1. Tail(v) \in Seq(Vers) /\ Len(Tail(v)) = Len(k)
      BY <2>2, <2>3
    <3>2. \A n \in 1 .. Len(k) : Tail(v)[n] = v[n + 1]
      BY <2>2, <2>3
    <3>3. Tail(v) = [n \in 1 .. Len(k) |-> Tail(v)[n]]
      <4>1. Tail(v) \in [1 .. Len(k) -> Vers]
        BY <3>1, LenProperties
      <4> QED
        BY <4>1
    <3> QED
      BY <2>3, <3>2, <3>3
  <2>7. DOMAIN k = 1 .. Len(k)
    BY <1>3
  <2> QED
    BY <2>4, <2>5, <2>6, <2>7 DEF VersOf, k
<1> QED
  BY <1>1, <1>4, <1>5 DEF m, t

-----------------------------------------------------------------------------
(* The invariant.                                                          *)

Unattached == {"none", "start", "read"}

\* The browser never asks for more watches than there are requests.
BudgetInv == made + Len(Kept(up, Asks)) <= MaxReq

\* Requests are numbered in the order they are made, each on the connection of
\* that moment; the session and the handlers know only requests that were made.
RequestInv ==
    /\ sid \in {0, conns}
    /\ \A r \in Reqs :
          /\ owner[r] <= conns
          /\ r <= made <=> owner[r] # 0
          /\ r <= made <=> phase[r] # "none"
    /\ \A p \in Paths : session[p] <= made
    /\ \A r \in unsubs : r <= made

\* What is saved, and what a coroutine read, was published before.  A coroutine
\* whose subject replays reads nothing.
SavedInv ==
    /\ \A p \in Paths : db[p] <= pub[p] /\ \A v \in unsaved[p] : v <= pub[p]
    /\ \A r \in Reqs :
          /\ snap[r] <= pub[path[r]]
          /\ phase[r] \in {"none", "start"} => snap[r] = 0
          /\ phase[r] \in {"read", "sent"} => path[r] \notin replaying

\* A watch that has sent nothing has nothing under way; observe_on holds events
\* for attached watches only; the wire carries what is for this connection.
TransitInv ==
    \A r \in Reqs :
        /\ phase[r] # "live" => queue[r] = <<>>
        /\ phase[r] \in Unattached => VersOf(r, down) = <<>> /\ VersOf(r, emits) = <<>>
        /\ owner[r] # sid => VersOf(r, down) = <<>>

WatchInv == TypeOK /\ BudgetInv /\ RequestInv /\ SavedInv /\ TransitInv

LEMMA HeadOfUp ==
    ASSUME WatchInv, up # <<>>
    PROVE  Head(up) \in UpMsg /\ Tail(up) \in Seq(UpMsg) /\ Head(up).path \in Paths
<1>1. up \in Seq(UpMsg)
  BY DEF WatchInv, TypeOK
<1>2. Head(up) \in UpMsg /\ Tail(up) \in Seq(UpMsg)
  BY <1>1
<1> QED
  BY <1>2, FieldsOfUpMsg

LEMMA WatchInit == Init => WatchInv
<1> SUFFICES ASSUME Init PROVE WatchInv
  OBVIOUS
<1> USE WatchAssumption DEF Init
<1>1. TypeOK
  BY DEF TypeOK, Phases, Reqs
<1>2. BudgetInv
  BY KeptEmpty DEF BudgetInv
<1>3. RequestInv
  BY DEF RequestInv, Reqs
<1>4. SavedInv
  BY DEF SavedInv
<1>5. TransitInv
  BY VersEmpty DEF TransitInv
<1> QED
  BY <1>1, <1>2, <1>3, <1>4, <1>5 DEF WatchInv

LEMMA PublishKeeps ==
    ASSUME WatchInv, NEW p \in Paths, Publish(p) PROVE WatchInv'
<1> USE WatchAssumption DEF WatchInv, Publish, PublishTo, On
<1>1. TypeOK'
  <2>1. pub[p] + 1 \in Vers /\ pub[p] + 1 \in 0 .. MaxVer
    BY DEF TypeOK, Vers
  <2>2. queue' \in [Reqs -> Seq(Vers)]
    BY <2>1 DEF TypeOK
  <2> QED
    BY <2>1, <2>2 DEF TypeOK, link, request, client, shown
<1>2. BudgetInv'
  BY DEF BudgetInv, request, client
<1>3. RequestInv'
  BY DEF RequestInv, link, request
<1>4. SavedInv'
  <2>1. pub' = [pub EXCEPT ![p] = pub[p] + 1] /\ pub[p] \in Nat /\ pub[p] + 1 <= pub[p] + 1
    BY DEF TypeOK
  <2>2. \A q \in Paths : pub[q] \in Nat /\ pub'[q] \in Nat /\ pub[q] <= pub'[q]
    BY <2>1 DEF TypeOK
  <2>3. \A q \in Paths : db[q] <= pub'[q] /\ \A v \in unsaved'[q] : v <= pub'[q]
    <3> SUFFICES ASSUME NEW q \in Paths
                 PROVE  db[q] <= pub'[q] /\ \A v \in unsaved'[q] : v <= pub'[q]
      OBVIOUS
    <3>1. db[q] \in Nat /\ db[q] <= pub[q] /\ \A v \in unsaved[q] : v \in Nat /\ v <= pub[q]
      BY DEF TypeOK, SavedInv, Vers
    <3>2. \A v \in unsaved'[q] : v \in unsaved[q] \/ (q = p /\ v = pub[p] + 1)
      BY DEF TypeOK
    <3> QED
      BY <2>1, <2>2, <3>1, <3>2 DEF TypeOK
  <2>4. \A r \in Reqs : snap[r] <= pub'[path[r]]
    <3> SUFFICES ASSUME NEW r \in Reqs PROVE snap[r] <= pub'[path[r]]
      OBVIOUS
    <3>1. path[r] \in Paths /\ snap[r] \in Nat /\ snap[r] <= pub[path[r]]
      BY DEF TypeOK, SavedInv
    <3> QED
      BY <2>2, <3>1
  <2> QED
    BY <2>3, <2>4 DEF SavedInv, request
<1>5. TransitInv'
  BY DEF TransitInv, request, link
<1> QED
  BY <1>1, <1>2, <1>3, <1>4, <1>5

LEMMA SaveKeeps ==
    ASSUME WatchInv, NEW p \in Paths, Save(p) PROVE WatchInv'
<1> USE WatchAssumption DEF WatchInv, Save
<1>1. TypeOK'
  <2>1. PICK v \in unsaved[p] : /\ db' = [db EXCEPT ![p] = v]
                                /\ unsaved' = [unsaved EXCEPT ![p] = @ \ {v}]
    OBVIOUS
  <2>2. db' \in [Paths -> 0 .. MaxVer]
    BY <2>1 DEF TypeOK, Vers
  <2>3. unsaved' \in [Paths -> SUBSET Vers]
    BY <2>1 DEF TypeOK
  <2>4. UNCHANGED <<replaying, pub, sid, conns, session, made, path, owner, phase, snap, queue,
                    unsubs, emits, down, up, subs, latest, told, from, got>>
    BY DEF link, request, client, shown
  <2> HIDE DEF Save, WatchInv
  <2>5. TypeOK
    BY DEF WatchInv
  <2> QED
    BY <2>2, <2>3, <2>4, <2>5 DEF TypeOK
<1>2. BudgetInv'
  BY DEF BudgetInv, request, client
<1>3. RequestInv'
  BY DEF RequestInv, link, request
<1>4. SavedInv'
  BY DEF SavedInv, TypeOK, request
<1>5. TransitInv'
  BY DEF TransitInv, request, link
<1> QED
  BY <1>1, <1>2, <1>3, <1>4, <1>5

LEMMA ConnectKeeps == ASSUME WatchInv, Connect PROVE WatchInv'
<1> USE WatchAssumption DEF WatchInv, Connect
<1>1. TypeOK'
  <2>1. UNCHANGED <<replaying, pub, unsaved, db, made, path, owner, snap, subs, up, latest, told>>
    BY DEF world, request, client, shown
  <2> QED
    BY <2>1 DEF TypeOK
<1>2. BudgetInv'
  BY DEF BudgetInv, request, client
<1>3. RequestInv'
  BY DEF RequestInv, TypeOK, request
<1>4. SavedInv'
  BY DEF SavedInv, world, request
<1>5. TransitInv'
  <2> SUFFICES ASSUME NEW r \in Reqs PROVE VersOf(r, down) = <<>>
    BY DEF TransitInv, request
  <2>1. CASE owner[r] # 0
    BY <2>1 DEF TransitInv
  <2>2. CASE owner[r] = 0
    BY <2>2 DEF TransitInv, RequestInv, Unattached
  <2> QED
    BY <2>1, <2>2
<1> QED
  BY <1>1, <1>2, <1>3, <1>4, <1>5

LEMMA DisconnectKeeps == ASSUME WatchInv, Disconnect PROVE WatchInv'
<1> USE WatchAssumption DEF WatchInv, Disconnect
<1>1. TypeOK'
  BY DEF TypeOK, world, request, shown
<1>2. BudgetInv'
  <2>1. Len(Kept(<<>>, Asks)) = 0 /\ Len(Kept(up, Asks)) \in Nat
    BY KeptEmpty, KeptInSeq DEF TypeOK
  <2> QED
    BY <2>1 DEF BudgetInv, TypeOK, request
<1>3. RequestInv'
  BY DEF RequestInv, TypeOK, request
<1>4. SavedInv'
  BY DEF SavedInv, world, request
<1>5. TransitInv'
  BY VersEmpty DEF TransitInv, request
<1> QED
  BY <1>1, <1>2, <1>3, <1>4, <1>5

\* What a subscribe message and an unsubscribe message add to the count.
LEMMA BudgetOfAppend ==
    ASSUME TypeOK, NEW m \in UpMsg, up' = Append(up, m)
    PROVE  Len(Kept(up', Asks)) = IF m.ev = "subscribe" THEN Len(Kept(up, Asks)) + 1
                                                        ELSE Len(Kept(up, Asks))
<1>1. m \in Asks <=> m.ev = "subscribe"
  BY DEF Asks, UpMsg
<1>2. Kept(up, Asks) \in Seq(UpMsg \cap Asks) /\ up \in Seq(UpMsg)
  BY KeptInSeq DEF TypeOK
<1>3. Kept(up', Asks) = IF m \in Asks THEN Append(Kept(up, Asks), m) ELSE Kept(up, Asks)
  BY <1>2, KeptAppend
<1> DEFINE k == Kept(up, Asks)
<1> HIDE DEF k
<1>4. k \in Seq(UpMsg)
  BY <1>2 DEF k
<1>5. Len(Append(k, m)) = Len(k) + 1
  BY <1>4
<1> QED
  BY <1>1, <1>3, <1>5 DEF k

LEMMA BudgetOfTail ==
    ASSUME TypeOK, up # <<>>, up' = Tail(up)
    PROVE  Len(Kept(up, Asks)) = IF Head(up).ev = "subscribe" THEN Len(Kept(up', Asks)) + 1
                                                              ELSE Len(Kept(up', Asks))
<1>0. up \in Seq(UpMsg)
  BY DEF TypeOK
<1>1. Head(up) \in UpMsg /\ Tail(up) \in Seq(UpMsg)
  BY <1>0
<1>2. Head(up) \in Asks <=> Head(up).ev = "subscribe"
  BY <1>1 DEF Asks, UpMsg
<1> DEFINE k == Kept(up', Asks)
           h == Head(up)
<1>3. k \in Seq(UpMsg \cap Asks)
  BY <1>1, KeptInSeq
<1>4. Kept(up, Asks) = (IF h \in Asks THEN <<h>> ELSE <<>>) \o k
  BY <1>0, KeptTail
<1> HIDE DEF k, h
<1>5. k \in Seq(UpMsg) /\ h \in UpMsg
  BY <1>1, <1>3 DEF h
<1>6. Len(<<h>> \o k) = Len(k) + 1 /\ Len(<<>> \o k) = Len(k)
  BY <1>5
<1> QED
  BY <1>2, <1>4, <1>6 DEF k, h

LEMMA SubscribeKeeps ==
    ASSUME WatchInv, NEW l \in Listeners, Subscribe(l) \/ Unsubscribe(l) PROVE WatchInv'
<1> USE WatchAssumption DEF WatchInv, Subscribe, Unsubscribe
<1>1. PICK e \in {"subscribe", "unsubscribe"} :
         /\ up' = Append(up, [ev |-> e, path |-> PathOf[l]])
         /\ e = "subscribe" => Budget > 0
  OBVIOUS
<1>2. [ev |-> e, path |-> PathOf[l]] \in UpMsg
  BY DEF UpMsg
<1>3. TypeOK'
  <2>1. up' \in Seq(UpMsg)
    <3> DEFINE m == [ev |-> e, path |-> PathOf[l]]
    <3>1. m \in UpMsg /\ up' = Append(up, m)
      BY <1>1, <1>2
    <3> HIDE DEF m
    <3> QED
      BY <3>1 DEF TypeOK
  <2>2. subs' \subseteq Listeners
    BY DEF TypeOK
  <2>3. latest' \in [Listeners -> 0 .. MaxVer] /\ told' \in [Listeners -> 0 .. MaxReq]
    <3>1. 0 \in 0 .. MaxVer /\ 0 \in 0 .. MaxReq
      OBVIOUS
    <3>2. latest' \in {latest, [latest EXCEPT ![l] = 0]} /\ told' \in {told, [told EXCEPT ![l] = 0]}
      BY DEF shown
    <3>3. latest \in [Listeners -> 0 .. MaxVer] /\ told \in [Listeners -> 0 .. MaxReq]
      BY DEF TypeOK
    <3>4. latest' \in [Listeners -> 0 .. MaxVer]
      BY <3>1, <3>2, <3>3
    <3>5. told' \in [Listeners -> 0 .. MaxReq]
      BY <3>1, <3>2, <3>3
    <3> QED
      BY <3>4, <3>5
  <2> QED
    BY <2>1, <2>2, <2>3 DEF TypeOK, world, link, request
<1>4. BudgetInv'
  <2> DEFINE m == [ev |-> e, path |-> PathOf[l]]
             n == Len(Kept(up, Asks))
  <2>1. m.ev = e /\ m \in UpMsg /\ up' = Append(up, m)
    BY <1>1, <1>2
  <2>2. n \in Nat /\ made \in Nat /\ made' = made /\ n + made <= MaxReq
    BY KeptInSeq DEF TypeOK, request, BudgetInv
  <2>3. e = "subscribe" => MaxReq - made - n > 0
    BY <1>1 DEF Budget
  <2> HIDE DEF m
  <2>4. Len(Kept(up', Asks)) = IF e = "subscribe" THEN n + 1 ELSE n
    BY <2>1, BudgetOfAppend
  <2> HIDE DEF n
  <2> QED
    BY <2>2, <2>3, <2>4 DEF BudgetInv
<1>5. RequestInv'
  BY DEF RequestInv, link, request
<1>6. SavedInv'
  BY DEF SavedInv, world, request
<1>7. TransitInv'
  BY DEF TransitInv, request, link
<1> QED
  BY <1>3, <1>4, <1>5, <1>6, <1>7

LEMMA ReceiveKeeps == ASSUME WatchInv, Receive PROVE WatchInv'
<1> USE WatchAssumption DEF WatchInv, Receive
<1>0. Head(down) \in Msg /\ Tail(down) \in Seq(Msg)
  BY DEF TypeOK
<1>1. TypeOK'
  <2>1. Head(down).ver \in 0 .. MaxVer /\ Head(down).req \in 0 .. MaxReq
    BY <1>0, VerOfMsg DEF Vers, Reqs
  <2>2. latest' \in [Listeners -> 0 .. MaxVer] /\ told' \in [Listeners -> 0 .. MaxReq]
    BY <2>1 DEF TypeOK
  <2> QED
    BY <1>0, <2>1, <2>2 DEF TypeOK, world, link, request, client
<1>2. BudgetInv'
  BY DEF BudgetInv, request, client
<1>3. RequestInv'
  BY DEF RequestInv, link, request
<1>4. SavedInv'
  BY DEF SavedInv, world, request
<1>5. TransitInv'
  <2> SUFFICES ASSUME NEW r \in Reqs, VersOf(r, down) = <<>> PROVE VersOf(r, down') = <<>>
    BY DEF TransitInv, link, request
  <2> QED
    BY VersTail DEF TypeOK
<1> QED
  BY <1>1, <1>2, <1>3, <1>4, <1>5

LEMMA OnSubscribeKeeps == ASSUME WatchInv, OnSubscribe PROVE WatchInv'
<1> USE WatchAssumption DEF WatchInv, OnSubscribe
<1>0. /\ Head(up) \in UpMsg /\ Tail(up) \in Seq(UpMsg) /\ Head(up).path \in Paths
      /\ made' = made + 1 /\ made \in Nat
  <2>1. up # <<>>
    OBVIOUS
  <2>2. made' = made + 1 /\ made \in Nat
    BY DEF TypeOK
  <2> QED
    BY <2>1, <2>2, HeadOfUp
<1>1. /\ made + 1 \in Reqs /\ made' \in 0 .. MaxReq
      /\ BudgetInv'
  <2>1. Len(Kept(up, Asks)) = Len(Kept(up', Asks)) + 1
    BY BudgetOfTail
  <2>2. Len(Kept(up', Asks)) \in Nat
    BY <1>0, KeptInSeq
  <2> QED
    BY <1>0, <2>1, <2>2 DEF BudgetInv, Reqs
<1>2. TypeOK'
  BY <1>0, <1>1 DEF TypeOK, world, link, shown, Phases
<1>3. RequestInv'
  <2>1. \A r \in Reqs : r <= made + 1 <=> r <= made \/ r = made + 1
    BY <1>0 DEF Reqs
  <2>2. sid <= conns /\ \A x \in Nat : x <= made => x <= made + 1
    BY <1>0 DEF RequestInv, TypeOK
  <2>3. \A p \in Paths : session'[p] <= made'
    BY <1>0, <2>2 DEF RequestInv, TypeOK
  <2>4. \A r \in unsubs : r \in Nat /\ r <= made'
    BY <1>0, <2>2 DEF RequestInv, TypeOK, Reqs
  <2>5. sid \in {0, conns} /\ sid # 0 /\ 0 \notin Reqs
    BY DEF RequestInv, Reqs
  <2>6. ASSUME NEW r \in Reqs
        PROVE  /\ owner'[r] <= conns
               /\ r <= made + 1 <=> owner'[r] # 0
               /\ r <= made + 1 <=> phase'[r] # "none"
    <3>1. CASE r = made + 1
      BY <1>0, <1>1, <2>1, <2>2, <2>5, <3>1 DEF TypeOK
    <3>2. CASE r # made + 1
      BY <1>0, <2>1, <3>2 DEF TypeOK, RequestInv
    <3> QED
      BY <3>1, <3>2
  <2> QED
    BY <1>0, <2>3, <2>4, <2>5, <2>6 DEF RequestInv, link
<1>4. SavedInv'
  <2>1. ~(made + 1 <= made)
    BY <1>0
  <2>2. phase[made + 1] = "none" /\ snap[made + 1] = 0
    BY <1>1, <2>1 DEF RequestInv, SavedInv
  <2>3. pub[Head(up).path] >= 0
    BY <1>0 DEF TypeOK
  <2> QED
    BY <1>0, <1>1, <2>2, <2>3 DEF SavedInv, world, TypeOK
<1>5. TransitInv'
  <2>1. ~(made + 1 <= made)
    BY <1>0
  <2>2. phase[made + 1] = "none"
    BY <1>1, <2>1 DEF RequestInv
  <2> QED
    BY <1>0, <1>1, <2>2 DEF TransitInv, link, TypeOK, Unattached
<1> QED
  BY <1>1, <1>2, <1>3, <1>4, <1>5

\* What _on_unsubscribe may do to the watches.
Loosened ==
    /\ phase' \in [Reqs -> Phases] /\ queue' \in [Reqs -> Seq(Vers)]
    /\ \A q \in Reqs :
          \/ phase'[q] = phase[q] /\ queue'[q] = queue[q]
          \/ phase'[q] = phase[q] /\ queue'[q] = <<>>
          \/ phase[q] = "live" /\ phase'[q] = "disposed" /\ queue'[q] = <<>>

LEMMA DetachLoosens == ASSUME TypeOK, NEW r \in Reqs, Detach(r) PROVE Loosened
BY DEF TypeOK, Detach, Loosened, Phases

LEMMA StayLoosens == ASSUME TypeOK, phase' = phase, queue' = queue PROVE Loosened
BY DEF TypeOK, Loosened

LEMMA OnUnsubscribeKeeps == ASSUME WatchInv, OnUnsubscribe PROVE WatchInv'
<1> USE WatchAssumption DEF WatchInv, OnUnsubscribe
<1>0. /\ Head(up) \in UpMsg /\ Tail(up) \in Seq(UpMsg) /\ Head(up).path \in Paths
      /\ session[Head(up).path] \in 0 .. MaxReq /\ made \in Nat
      /\ session[Head(up).path] <= made
  <2>1. up # <<>>
    OBVIOUS
  <2>2. Head(up) \in UpMsg /\ Tail(up) \in Seq(UpMsg) /\ Head(up).path \in Paths
    BY <2>1, HeadOfUp
  <2> QED
    BY <2>2 DEF TypeOK, RequestInv
<1>6. Loosened /\ unsubs' \subseteq Reqs /\ \A r \in unsubs' : r <= made
  <2> DEFINE r == session[Head(up).path]
  <2>1. r # 0 => r \in Reqs
    BY <1>0 DEF Reqs
  <2>2. ASSUME phase' = phase, queue' = queue PROVE Loosened
    BY <2>2, StayLoosens
  <2>3. ASSUME r # 0, Detach(r) PROVE Loosened
    <3>1. r \in Reqs
      BY <2>1, <2>3
    <3> HIDE DEF r
    <3> QED
      BY <2>3, <3>1, DetachLoosens
  <2>4. (r # 0 /\ unsubs' = unsubs \cup {r}) \/ unsubs' = unsubs
    BY DEF Detach
  <2>5. unsubs' \subseteq Reqs /\ \A q \in unsubs' : q <= made
    BY <1>0, <2>1, <2>4 DEF TypeOK, RequestInv
  <2>6. (phase' = phase /\ queue' = queue) \/ (r # 0 /\ Detach(r))
    OBVIOUS
  <2> QED
    BY <2>2, <2>3, <2>5, <2>6
<1>1. TypeOK'
  BY <1>0, <1>6 DEF TypeOK, world, link, request, shown, Loosened
<1>2. BudgetInv'
  <2>1. Len(Kept(up, Asks)) = Len(Kept(up', Asks))
    BY BudgetOfTail
  <2> QED
    BY <2>1 DEF BudgetInv, request
<1>3. RequestInv'
  BY <1>6 DEF RequestInv, link, request, Loosened
<1>4. SavedInv'
  BY <1>6 DEF SavedInv, world, request, Loosened
<1>5. TransitInv'
  BY <1>6 DEF TransitInv, link, request, Unattached, Loosened
<1> QED
  BY <1>1, <1>2, <1>3, <1>4, <1>5

LEMMA ResumesKeeps ==
    ASSUME WatchInv, NEW q \in Reqs, UnsubscribeResumes(q) PROVE WatchInv'
<1> USE WatchAssumption DEF WatchInv, UnsubscribeResumes
<1>6. Loosened
  BY DetachLoosens
<1>1. TypeOK'
  BY <1>6 DEF TypeOK, world, link, request, client, shown, Loosened
<1>2. BudgetInv'
  BY DEF BudgetInv, request, client
<1>3. RequestInv'
  BY <1>6 DEF RequestInv, link, request, Loosened
<1>4. SavedInv'
  BY <1>6 DEF SavedInv, world, request, Loosened
<1>5. TransitInv'
  BY <1>6 DEF TransitInv, link, request, Unattached, Loosened
<1> QED
  BY <1>1, <1>2, <1>3, <1>4, <1>5

LEMMA AttachKeeps ==
    ASSUME TypeOK, NEW q \in Reqs, Attach(q)
    PROVE  /\ phase' = [phase EXCEPT ![q] = "live"]
           /\ from' \in [Reqs -> 0 .. MaxVer] /\ queue' \in [Reqs -> Seq(Vers)]
           /\ \A r \in Reqs : r # q => queue'[r] = queue[r]
           /\ path[q] \notin replaying => queue'[q] = <<>>
           /\ queue'[q] = <<>> \/ (pub[path[q]] > 0 /\ queue'[q] = <<pub[path[q]]>>)
<1> USE DEF Attach, AttachWith
<1>1. path[q] \in Paths /\ pub[path[q]] \in 0 .. MaxVer
  BY DEF TypeOK
<1>2. from' \in [Reqs -> 0 .. MaxVer]
  BY <1>1 DEF TypeOK
<1>3. pub[path[q]] > 0 => <<pub[path[q]]>> \in Seq(Vers)
  <2>1. pub[path[q]] > 0 => pub[path[q]] \in Vers
    BY <1>1, WatchAssumption DEF Vers
  <2> QED
    BY <2>1
<1>4. \/ queue' = [queue EXCEPT ![q] = <<>>]
      \/ /\ pub[path[q]] > 0 /\ path[q] \in replaying
         /\ queue' = [queue EXCEPT ![q] = <<pub[path[q]]>>]
  OBVIOUS
<1>5. queue' \in [Reqs -> Seq(Vers)]
  BY <1>3, <1>4 DEF TypeOK
<1> QED
  BY <1>2, <1>4, <1>5 DEF TypeOK

\* What sio.emit does to the messages of each watch.
LEMMA SendTransit ==
    ASSUME TypeOK, NEW q \in Reqs, NEW v \in Vers, SendTo(q, v)
    PROVE  /\ down' \in Seq(Msg)
           /\ \A r \in Reqs : r # q \/ owner[q] # sid => VersOf(r, down') = VersOf(r, down)
           /\ owner[q] = sid => VersOf(q, down') = Append(VersOf(q, down), v)
<1> DEFINE m == [req |-> q, ver |-> v]
<1>1. m \in Msg /\ m.req = q /\ m.ver = v
  BY DEF Msg
<1>2. down' = IF owner[q] = sid THEN Append(down, m) ELSE down
  BY DEF SendTo
<1> HIDE DEF m
<1>3. down \in Seq(Msg)
  BY DEF TypeOK
<1> QED
  BY <1>1, <1>2, <1>3, VersAppend

LEMMA CoroutineKeeps ==
    ASSUME WatchInv, NEW q \in Reqs, Coroutine(q) PROVE WatchInv'
<1> USE WatchAssumption DEF WatchInv
<1>1. /\ UNCHANGED <<world, link, session, request, unsubs, emits, client, shown, got>>
      /\ phase[q] \in {"start", "read", "sent"}
  BY DEF Coroutine, WatchRead, WatchFails, WatchSend, WatchAttach
<1>2. /\ from' \in [Reqs -> 0 .. MaxVer]
      /\ queue' \in [Reqs -> Seq(Vers)]
      /\ \A r \in Reqs : r # q => queue'[r] = queue[r]
      /\ phase' \in [Reqs -> Phases]
      /\ \A r \in Reqs : r # q => phase'[r] = phase[r]
      /\ phase'[q] # "none" /\ phase'[q] # "start"
      /\ phase'[q] # "live" => queue'[q] = queue[q]
  <2>1. CASE Attach(q)
    BY <2>1, AttachKeeps DEF TypeOK, Phases
  <2>2. CASE ~Attach(q)
    <3>1. /\ from' = from /\ queue' = queue
          /\ \E s \in {"read", "sent", "failed"} : phase' = [phase EXCEPT ![q] = s]
      BY <2>2 DEF Coroutine, WatchRead, WatchFails, WatchSend, WatchAttach
    <3> QED
      BY <3>1 DEF TypeOK, Phases
  <2> QED
    BY <2>1, <2>2
<1>3. /\ snap' \in [Reqs -> 0 .. MaxVer]
      /\ \A r \in Reqs : snap'[r] = snap[r] \/ (r = q /\ snap'[r] = db[path[r]])
  <2>1. snap' = snap \/ snap' = [snap EXCEPT ![q] = db[path[q]]]
    BY DEF Coroutine, WatchRead, WatchFails, WatchSend, WatchAttach
  <2>2. db[path[q]] \in 0 .. MaxVer
    BY DEF TypeOK
  <2> QED
    BY <2>1, <2>2 DEF TypeOK
<1>4. /\ down' \in Seq(Msg)
      /\ \A r \in Reqs : VersOf(r, down') = VersOf(r, down)
                           \/ (r = q /\ owner[r] = sid /\ phase'[r] = "sent")
  <2>1. CASE down' = down
    BY <2>1 DEF TypeOK
  <2>2. CASE down' # down
    <3>1. /\ SendTo(q, snap[q]) /\ snap[q] # 0
          /\ phase' = [phase EXCEPT ![q] = "sent"]
      BY <2>2 DEF Coroutine, WatchRead, WatchFails, WatchSend, WatchAttach
    <3>2. snap[q] \in Vers
      BY <3>1 DEF TypeOK, Vers
    <3> QED
      BY <3>1, <3>2, SendTransit DEF TypeOK
  <2> QED
    BY <2>1, <2>2
<1>5. /\ phase'[q] \in {"read", "sent"} => path[q] \notin replaying
      /\ phase'[q] = "read" => phase[q] = "start"
  BY DEF Coroutine, WatchRead, WatchFails, WatchSend, WatchAttach, Attach, AttachWith,
         SavedInv, TypeOK
<1>6. TypeOK'
  BY <1>1, <1>2, <1>3, <1>4 DEF TypeOK, world, link, request, client, shown
<1>7. BudgetInv'
  BY <1>1 DEF BudgetInv, request, client
<1>8. RequestInv'
  BY <1>1, <1>2 DEF RequestInv, link, request
<1>9. SavedInv'
  BY <1>1, <1>2, <1>3, <1>5 DEF SavedInv, world, request, TypeOK
<1>10. TransitInv'
  <2> SUFFICES ASSUME NEW r \in Reqs
               PROVE  /\ phase'[r] # "live" => queue'[r] = <<>>
                      /\ phase'[r] \in Unattached =>
                            VersOf(r, down') = <<>> /\ VersOf(r, emits) = <<>>
                      /\ owner[r] # sid => VersOf(r, down') = <<>>
    BY <1>1 DEF TransitInv, link, request
  <2>1. CASE r # q
    BY <1>2, <1>4, <2>1 DEF TransitInv
  <2>2. CASE r = q
    BY <1>1, <1>2, <1>4, <1>5, <2>2 DEF TransitInv, Unattached
  <2> QED
    BY <2>1, <2>2
<1> QED
  BY <1>6, <1>7, <1>8, <1>9, <1>10

LEMMA HandleKeeps ==
    ASSUME WatchInv, NEW q \in Reqs, Handle(q) PROVE WatchInv'
<1> USE WatchAssumption DEF WatchInv, Handle
<1> DEFINE m == [req |-> q, ver |-> Head(queue[q])]
<1>0. m \in Msg /\ m.req = q /\ emits \in Seq(Msg) /\ Tail(queue[q]) \in Seq(Vers)
  <2>1. queue[q] \in Seq(Vers) /\ queue[q] # <<>>
    BY DEF TypeOK
  <2>2. Head(queue[q]) \in Vers /\ Tail(queue[q]) \in Seq(Vers)
    BY <2>1
  <2> QED
    BY <2>2 DEF TypeOK, Msg
<1>6. emits' = Append(emits, m)
  OBVIOUS
<1> HIDE DEF m
<1>1. TypeOK'
  <2>1. emits' \in Seq(Msg)
    BY <1>0, <1>6
  <2>2. queue' \in [Reqs -> Seq(Vers)]
    BY <1>0 DEF TypeOK
  <2> QED
    BY <2>1, <2>2 DEF TypeOK, world, link, request, client, shown
<1>2. BudgetInv'
  BY DEF BudgetInv, request, client
<1>3. RequestInv'
  BY DEF RequestInv, link, request
<1>4. SavedInv'
  BY DEF SavedInv, world, request
<1>5. TransitInv'
  <2>1. phase[q] = "live"
    BY DEF TransitInv
  <2>2. \A r \in Reqs : r # q => VersOf(r, emits') = VersOf(r, emits) /\ queue'[r] = queue[r]
    <3>1. \A r \in Reqs : r # q => VersOf(r, emits') = VersOf(r, emits)
      BY <1>0, <1>6, VersAppend
    <3> QED
      BY <3>1 DEF TypeOK
  <2> QED
    BY <2>1, <2>2 DEF TransitInv, link, request, Unattached
<1> QED
  BY <1>1, <1>2, <1>3, <1>4, <1>5

LEMMA EmitKeeps == ASSUME WatchInv, Emit PROVE WatchInv'
<1> USE WatchAssumption DEF WatchInv, Emit
<1>0. Head(emits) \in Msg /\ Tail(emits) \in Seq(Msg) /\ emits \in Seq(Msg)
  BY DEF TypeOK
<1>6. PICK q \in Reqs, v \in Vers : q = Head(emits).req /\ v = Head(emits).ver /\ SendTo(q, v)
  BY <1>0, VerOfMsg
<1>7. /\ down' \in Seq(Msg)
      /\ \A r \in Reqs : r # q \/ owner[q] # sid => VersOf(r, down') = VersOf(r, down)
  BY <1>6, SendTransit
<1>8. VersOf(q, emits) # <<>>
  BY <1>0, <1>6, VersTail
<1>9. \A r \in Reqs : VersOf(r, emits) = <<>> => VersOf(r, emits') = <<>>
  BY <1>0, VersTail
<1>1. TypeOK'
  BY <1>0, <1>7 DEF TypeOK, world, link, request, client, shown
<1>2. BudgetInv'
  BY DEF BudgetInv, request, client
<1>3. RequestInv'
  BY DEF RequestInv, link, request
<1>4. SavedInv'
  BY DEF SavedInv, world, request
<1>5. TransitInv'
  BY <1>7, <1>8, <1>9 DEF TransitInv, link, request
<1> QED
  BY <1>1, <1>2, <1>3, <1>4, <1>5

LEMMA WatchStep == ASSUME WatchInv, [Next]_vars PROVE WatchInv'
<1>1. ASSUME UNCHANGED vars PROVE WatchInv'
  BY <1>1 DEF vars, world, link, request, client, shown, WatchInv, TypeOK, BudgetInv,
              RequestInv, SavedInv, TransitInv
<1> QED
  BY <1>1, PublishKeeps, SaveKeeps, ConnectKeeps, DisconnectKeeps, SubscribeKeeps,
     ReceiveKeeps, OnSubscribeKeeps, OnUnsubscribeKeeps, ResumesKeeps, CoroutineKeeps,
     HandleKeeps, EmitKeeps
  DEF Next, Browser, Server

LEMMA WatchInvariant == Spec => []WatchInv
BY WatchInit, WatchStep, PTL DEF Spec

\* fast_io/__init__.py, routes/utils.py, api-client index.ts: every value has its
\* type, and no request is made beyond the bound the browser keeps.
THEOREM WatchTypeCorrect == Spec => []TypeOK
BY WatchInvariant, PTL DEF WatchInv

-----------------------------------------------------------------------------
(* The refinement of Feed: what each step does to the channels.            *)

LEMMA TailOfConcat ==
    ASSUME NEW A, NEW x \in Seq(A), NEW y \in Seq(A), x # <<>>
    PROVE  x \o y # <<>> /\ Head(x \o y) = Head(x) /\ Tail(x \o y) = Tail(x) \o y
OBVIOUS

LEMMA PartsOfConcat ==
    ASSUME NEW A, NEW x \in Seq(A), NEW y \in Seq(A)
    PROVE  /\ SubSeq(x \o y, 1, Len(x)) = x
           /\ SubSeq(x \o y, Len(x) + 1, Len(x \o y)) = y
           /\ Len(x) \in 0 .. Len(x \o y)
OBVIOUS

LEMMA HeadMoves ==
    ASSUME NEW A, NEW x \in Seq(A), NEW y \in Seq(A), y # <<>>, NEW z, z = Append(x, Head(y))
    PROVE  z \o Tail(y) = x \o y
OBVIOUS

\* The parts of a channel: on the wire, in tasks of the loop, in observe_on.
Wire(r)  == VersOf(r, down)
Tasks(r) == VersOf(r, emits)

LEMMA TransitParts ==
    ASSUME TypeOK, TypeOK'
    PROVE  /\ Transit = [r \in Reqs |-> Transit[r]]
           /\ Transit' = [r \in Reqs |-> Transit'[r]]
           /\ \A r \in Reqs :
                 /\ Wire(r) \in Seq(Vers) /\ Tasks(r) \in Seq(Vers)
                 /\ Wire(r)' \in Seq(Vers) /\ Tasks(r)' \in Seq(Vers)
                 /\ queue[r] \in Seq(Vers) /\ queue'[r] \in Seq(Vers)
                 /\ Transit[r] = Wire(r) \o Tasks(r) \o queue[r]
                 /\ Transit'[r] = Wire(r)' \o Tasks(r)' \o queue'[r]
                 /\ Transit[r] \in Seq(Vers) /\ Transit'[r] \in Seq(Vers)
<1>1. /\ down \in Seq(Msg) /\ emits \in Seq(Msg) /\ down' \in Seq(Msg) /\ emits' \in Seq(Msg)
      /\ queue \in [Reqs -> Seq(Vers)] /\ queue' \in [Reqs -> Seq(Vers)]
  BY DEF TypeOK
<1>2. \A r \in Reqs : /\ Wire(r) \in Seq(Vers) /\ Tasks(r) \in Seq(Vers)
                      /\ Wire(r)' \in Seq(Vers) /\ Tasks(r)' \in Seq(Vers)
  BY <1>1, VersInSeq DEF Wire, Tasks
<1>3. /\ Transit = [r \in Reqs |-> Wire(r) \o Tasks(r) \o queue[r]]
      /\ Transit' = [r \in Reqs |-> Wire(r)' \o Tasks(r)' \o queue'[r]]
  BY DEF Transit, Wire, Tasks
<1>4. /\ Transit = [r \in Reqs |-> Transit[r]]
      /\ Transit' = [r \in Reqs |-> Transit'[r]]
  BY <1>3
<1>5. \A r \in Reqs : /\ Transit[r] = Wire(r) \o Tasks(r) \o queue[r]
                      /\ Transit'[r] = Wire(r)' \o Tasks(r)' \o queue'[r]
  BY <1>3
<1>6. \A r \in Reqs : queue[r] \in Seq(Vers) /\ queue'[r] \in Seq(Vers)
  BY <1>1
<1>7. \A r \in Reqs : Transit[r] \in Seq(Vers)
  <2> SUFFICES ASSUME NEW r \in Reqs PROVE Transit[r] \in Seq(Vers)
    OBVIOUS
  <2>1. PICK x \in Seq(Vers), y \in Seq(Vers), z \in Seq(Vers) :
           x = Wire(r) /\ y = Tasks(r) /\ z = queue[r]
    BY <1>2, <1>6
  <2>2. (x \o y) \o z \in Seq(Vers)
    OBVIOUS
  <2> QED
    BY <1>5, <2>1, <2>2
<1>8. \A r \in Reqs : Transit'[r] \in Seq(Vers)
  <2> SUFFICES ASSUME NEW r \in Reqs PROVE Transit'[r] \in Seq(Vers)
    OBVIOUS
  <2>1. PICK x \in Seq(Vers), y \in Seq(Vers), z \in Seq(Vers) :
           x = Wire(r)' /\ y = Tasks(r)' /\ z = queue'[r]
    BY <1>2, <1>6
  <2>2. (x \o y) \o z \in Seq(Vers)
    OBVIOUS
  <2> QED
    BY <1>5, <2>1, <2>2
<1> QED
  BY <1>2, <1>4, <1>5, <1>6, <1>7, <1>8

LEMMA StagesStay ==
    ASSUME \A r \in Reqs : StageOf(phase'[r]) = StageOf(phase[r])
    PROVE  Stages' = Stages
BY DEF Stages

LEMMA TransitStays ==
    ASSUME TypeOK, TypeOK', \A r \in Reqs : Transit'[r] = Transit[r]
    PROVE  Transit' = Transit
BY TransitParts

LEMMA PublishFeeds ==
    ASSUME WatchInv, WatchInv', NEW p \in Paths, Publish(p)
    PROVE  Channel!PublishState(p)
<1> USE DEF WatchInv
<1>1. /\ UNCHANGED <<sid, owner, path, phase, got, down, emits>>
      /\ pub' = [pub EXCEPT ![p] = @ + 1]
      /\ queue' = [r \in Reqs |-> IF path[r] = p /\ phase[r] = "live"
                                    THEN Append(queue[r], pub[p] + 1) ELSE queue[r]]
      /\ pub[p] + 1 \in Vers
  BY DEF Publish, PublishTo, On, link, request, TypeOK, Vers
<1>2. Stages' = Stages /\ \A r \in Reqs : Stages[r] = "open" <=> phase[r] = "live"
  BY <1>1 DEF Stages, StageOf
<1>3. ASSUME NEW r \in Reqs
      PROVE  Transit'[r] = IF Stages[r] = "open" /\ path[r] = p
                           THEN Append(Transit[r], pub[p] + 1) ELSE Transit[r]
  <2>1. PICK x \in Seq(Vers) :
           /\ queue[r] \in Seq(Vers)
           /\ Transit[r] = x \o queue[r] /\ Transit'[r] = x \o queue'[r]
    <3>1. Wire(r)' = Wire(r) /\ Tasks(r)' = Tasks(r)
      BY <1>1 DEF Wire, Tasks
    <3>2. PICK a \in Seq(Vers), b \in Seq(Vers) : a = Wire(r) /\ b = Tasks(r)
      BY TransitParts
    <3>3. a \o b \in Seq(Vers)
      OBVIOUS
    <3>4. /\ queue[r] \in Seq(Vers) /\ Transit[r] = (a \o b) \o queue[r]
          /\ Transit'[r] = (a \o b) \o queue'[r]
      BY <3>1, <3>2, TransitParts
    <3> QED
      BY <3>3, <3>4
  <2>2. CASE path[r] = p /\ phase[r] = "live"
    <3>1. PICK e, y, z, t :
             /\ e \in Vers /\ y \in Seq(Vers) /\ e = pub[p] + 1 /\ y = queue[r] /\ z = queue'[r] /\ t = Transit[r]
      BY <1>1, <2>1
    <3>2. z = Append(y, e) /\ t = x \o y /\ Transit'[r] = x \o z
      BY <1>1, <2>1, <2>2, <3>1
    <3>3. x \o z = Append(t, e)
      BY <3>2, AppendToConcat
    <3> QED
      BY <1>2, <2>2, <3>1, <3>2, <3>3
  <2>3. CASE ~(path[r] = p /\ phase[r] = "live")
    BY <1>1, <1>2, <2>1, <2>3
  <2> QED
    BY <2>2, <2>3
<1>4. Transit' = [r \in Reqs |-> IF Stages[r] = "open" /\ path[r] = p
                                THEN Append(Transit[r], pub[p] + 1) ELSE Transit[r]]
  BY <1>3, TransitParts
<1> QED
  BY <1>1, <1>2, <1>4 DEF Channel!PublishState

LEMMA ConnectFeeds ==
    ASSUME WatchInv, WatchInv', Connect PROVE Channel!NewLine
<1> USE DEF WatchInv
<1>1. /\ sid = 0 /\ sid' = conns + 1 /\ conns \in Nat
      /\ UNCHANGED <<owner, pub, path, phase, got, down, emits, queue>>
  BY DEF Connect, TypeOK, world, request
<1>2. Stages' = Stages /\ Transit' = Transit
  BY <1>1 DEF Stages, Transit
<1>3. \A r \in Reqs : owner[r] # sid'
  <2>1. \A r \in Reqs : owner[r] \in Nat /\ owner[r] <= conns
    BY DEF TypeOK, RequestInv
  <2> QED
    BY <1>1, <2>1
<1> QED
  BY <1>1, <1>2, <1>3 DEF Channel!NewLine

LEMMA DisconnectFeeds ==
    ASSUME WatchInv, WatchInv', Disconnect PROVE Channel!Break
<1> USE DEF WatchInv
<1>1. /\ sid # 0 /\ sid' = 0 /\ down' = <<>>
      /\ UNCHANGED <<owner, pub, path, phase, got, emits, queue>>
  BY DEF Disconnect, world, request
<1>2. Stages' = Stages
  BY <1>1 DEF Stages
<1>3. ASSUME NEW r \in Reqs
      PROVE  \E n \in 0 .. Len(Transit[r]) :
                Transit'[r] = SubSeq(Transit[r], n + 1, Len(Transit[r]))
  <2>1. PICK x \in Seq(Vers), b \in Seq(Vers), c \in Seq(Vers) :
           x = Wire(r) /\ b = Tasks(r) /\ c = queue[r]
    BY TransitParts
  <2>2. Wire(r)' = <<>> /\ Tasks(r)' = b
    BY <1>1, <2>1, VersEmpty DEF Wire, Tasks
  <2>3. PICK y \in Seq(Vers) : y = b \o c
    <3>1. b \o c \in Seq(Vers)
      OBVIOUS
    <3> QED
      BY <3>1
  <2>4. (x \o b) \o c = x \o (b \o c) /\ <<>> \o b = b
    OBVIOUS
  <2>5. Transit[r] = x \o y
    BY <2>1, <2>3, <2>4, TransitParts
  <2>6. Transit'[r] = y
    BY <1>1, <2>1, <2>2, <2>3, <2>4, TransitParts
  <2>7. PICK n, t : n \in Nat /\ n = Len(x) /\ t = Transit[r]
    OBVIOUS
  <2>8. y = SubSeq(t, n + 1, Len(t)) /\ n \in 0 .. Len(t)
    BY <2>5, <2>7, PartsOfConcat
  <2> QED
    BY <2>6, <2>7, <2>8
<1>4. Transit' = [r \in Reqs |-> Transit'[r]]
  BY TransitParts
<1> QED
  BY <1>1, <1>2, <1>3, <1>4 DEF Channel!Break

\* A channel whose parts stay, or move from one part to the next, stays.
LEMMA TransitSame ==
    ASSUME TypeOK, TypeOK', NEW r \in Reqs,
           Wire(r)' = Wire(r), Tasks(r)' = Tasks(r), queue'[r] = queue[r]
    PROVE  Transit'[r] = Transit[r]
BY TransitParts

\* SioClient's own steps and the saves touch no channel.
LEMMA OutsideFeeds ==
    ASSUME WatchInv, WatchInv',
           (\E p \in Paths : Save(p)) \/ \E l \in Listeners : Subscribe(l) \/ Unsubscribe(l)
    PROVE  UNCHANGED Channel!feedVars
<1>1. UNCHANGED <<sid, owner, pub, path, phase, got, down, emits, queue>>
  BY DEF Save, Subscribe, Unsubscribe, link, request, world
<1> QED
  BY <1>1 DEF Channel!feedVars, Stages, Transit

LEMMA ReceiveFeeds ==
    ASSUME WatchInv, WatchInv', Receive
    PROVE  \E r \in Reqs : Channel!Arrive(r)
<1> USE DEF WatchInv
<1>1. PICK q \in Reqs, v \in Vers : q = Head(down).req /\ v = Head(down).ver
  <2>1. Head(down) \in Msg
    BY DEF Receive, TypeOK
  <2> QED
    BY <2>1, VerOfMsg
<1>2. /\ UNCHANGED <<sid, owner, pub, path, phase, emits, queue>>
      /\ down # <<>> /\ down \in Seq(Msg) /\ down' = Tail(down)
      /\ got' = [got EXCEPT ![q] = v]
  BY <1>1 DEF Receive, link, request, world, TypeOK
<1>3. /\ Wire(q) # <<>> /\ Head(Wire(q)) = v /\ Wire(q)' = Tail(Wire(q))
      /\ \A r \in Reqs : r # q => Wire(r)' = Wire(r)
      /\ \A r \in Reqs : Tasks(r)' = Tasks(r)
  BY <1>1, <1>2, VersTail DEF Wire, Tasks
<1>4. owner[q] = sid
  BY <1>3 DEF TransitInv, Wire
<1>5. Transit[q] # <<>> /\ Head(Transit[q]) = v /\ Transit'[q] = Tail(Transit[q])
  <2>1. PICK x \in Seq(Vers), b \in Seq(Vers), c \in Seq(Vers) :
           x = Wire(q) /\ b = Tasks(q) /\ c = queue[q]
    BY TransitParts
  <2>2. Transit[q] = (x \o b) \o c /\ Transit'[q] = (Tail(x) \o b) \o c /\ x # <<>> /\ Head(x) = v
    BY <1>2, <1>3, <2>1, TransitParts
  <2>3. /\ (x \o b) \o c # <<>> /\ Head((x \o b) \o c) = Head(x)
        /\ Tail((x \o b) \o c) = (Tail(x) \o b) \o c
    <3>1. x # <<>>
      BY <2>2
    <3> QED
      BY <3>1
  <2> QED
    BY <2>2, <2>3
<1>6. \A r \in Reqs : r # q => Transit'[r] = Transit[r]
  BY <1>2, <1>3, TransitSame
<1>7. Transit' = [Transit EXCEPT ![q] = Tail(@)]
  BY <1>5, <1>6, TransitParts
<1>8. Stages' = Stages
  BY <1>2 DEF Stages
<1> QED
  BY <1>2, <1>4, <1>5, <1>7, <1>8 DEF Channel!Arrive

LEMMA OnSubscribeFeeds ==
    ASSUME WatchInv, WatchInv', OnSubscribe
    PROVE  \E r \in Reqs, p \in Paths : Channel!AskFor(r, p)
<1> USE DEF WatchInv
<1> DEFINE r == made + 1
           p == Head(up).path
<1>1. /\ sid # 0 /\ UNCHANGED <<sid, pub, got, down, emits, queue>>
      /\ owner' = [owner EXCEPT ![r] = sid] /\ path' = [path EXCEPT ![r] = p]
      /\ phase' = [phase EXCEPT ![r] = "start"]
  BY DEF OnSubscribe, link, world
<1>2. r \in Reqs /\ ~(r <= made)
  <2>1. made' = r /\ made' \in Nat /\ made' <= MaxReq /\ made \in Nat
    <3>1. made' = r
      BY DEF OnSubscribe
    <3>2. made' \in 0 .. MaxReq /\ made \in Nat
      BY DEF TypeOK
    <3> QED
      BY <3>1, <3>2
  <2> QED
    BY <2>1 DEF Reqs
<1>3. p \in Paths
  <2>1. up # <<>>
    BY DEF OnSubscribe
  <2> QED
    BY <2>1, HeadOfUp
<1> HIDE DEF r, p
<1>4. owner[r] = 0 /\ phase[r] = "none"
  BY <1>2 DEF RequestInv
<1>5. Stages' = Stages
  BY <1>1, <1>4, StagesStay DEF StageOf, TypeOK
<1>6. Transit' = Transit
  BY <1>1 DEF Transit
<1> QED
  BY <1>1, <1>2, <1>3, <1>4, <1>5, <1>6 DEF Channel!AskFor

\* _on_unsubscribe closes the channel of a watch that is attached; the events
\* observe_on held are what entered it last.
LEMMA DetachFeeds ==
    ASSUME WatchInv, WatchInv', NEW q \in Reqs, Detach(q), q <= made,
           phase[q] \notin Running,
           sid' = sid, owner' = owner, pub' = pub, path' = path, got' = got,
           down' = down, emits' = emits
    PROVE  Channel!Close(q) \/ UNCHANGED Channel!feedVars
<1> USE DEF WatchInv
<1>1. CASE phase[q] # "live"
  <2>1. phase' = phase /\ queue' = queue
    BY <1>1 DEF Detach, TransitInv, TypeOK
  <2> QED
    BY <2>1 DEF Channel!feedVars, Stages, Transit
<1>2. CASE phase[q] = "live"
  <2>1. /\ phase' = [phase EXCEPT ![q] = "disposed"] /\ queue' = [queue EXCEPT ![q] = <<>>]
        /\ owner[q] # 0
    BY <1>2 DEF Detach, RequestInv
  <2>2. Stages[q] = "open" /\ Stages' = [Stages EXCEPT ![q] = "closed"]
    BY <1>2, <2>1 DEF Stages, StageOf, TypeOK
  <2>3. /\ \A r \in Reqs : Wire(r)' = Wire(r) /\ Tasks(r)' = Tasks(r)
        /\ \A r \in Reqs : r # q => queue'[r] = queue[r]
        /\ queue'[q] = <<>>
    BY <2>1 DEF Wire, Tasks, TypeOK
  <2>4. PICK a \in Seq(Vers), b \in Seq(Vers), c \in Seq(Vers) :
           a = Wire(q) /\ b = Tasks(q) /\ c = queue[q]
    BY TransitParts
  <2>5. PICK x \in Seq(Vers) : x = a \o b
    <3>1. a \o b \in Seq(Vers)
      OBVIOUS
    <3> QED
      BY <3>1
  <2>6. x \o <<>> = x
    OBVIOUS
  <2>7. Transit[q] = x \o c /\ Transit'[q] = x
    BY <2>3, <2>4, <2>5, <2>6, TransitParts
  <2>8. \E n \in 0 .. Len(Transit[q]) : Transit'[q] = SubSeq(Transit[q], 1, n)
    BY <2>7, PartsOfConcat
  <2>9. \A r \in Reqs : r # q => Transit'[r] = Transit[r]
    BY <2>3, TransitSame
  <2>10. Transit' = [Transit EXCEPT ![q] = Transit'[q]]
    BY <2>9, TransitParts
  <2>11. \E n \in 0 .. Len(Transit[q]) :
             Transit' = [Transit EXCEPT ![q] = SubSeq(Transit[q], 1, n)]
    BY <2>8, <2>10
  <2> QED
    BY <2>1, <2>2, <2>11 DEF Channel!Close
<1> QED
  BY <1>1, <1>2

LEMMA UnsubscribeFeeds ==
    ASSUME WatchInv, WatchInv', OnUnsubscribe \/ \E r \in Reqs : UnsubscribeResumes(r)
    PROVE  (\E r \in Reqs : Channel!Close(r)) \/ UNCHANGED Channel!feedVars
<1>1. /\ sid' = sid /\ owner' = owner /\ pub' = pub /\ path' = path /\ got' = got
      /\ down' = down /\ emits' = emits
  BY DEF OnUnsubscribe, UnsubscribeResumes, link, request, world
<1>2. CASE phase' = phase /\ queue' = queue
  BY <1>1, <1>2 DEF Channel!feedVars, Stages, Transit
<1>3. ASSUME NEW q \in Reqs, Detach(q), phase[q] \notin Running, q <= made
      PROVE  Channel!Close(q) \/ UNCHANGED Channel!feedVars
  BY <1>1, <1>3, DetachFeeds
<1>4. CASE OnUnsubscribe
  <2>1. PICK q \in 0 .. MaxReq : q = session[Head(up).path] /\ q <= made
    <3>1. up # <<>>
      BY <1>4 DEF OnUnsubscribe
    <3>2. Head(up).path \in Paths
      BY <3>1, HeadOfUp
    <3> QED
      BY <3>2 DEF WatchInv, TypeOK, RequestInv
  <2>2. \/ phase' = phase /\ queue' = queue
        \/ q # 0 /\ phase[q] \notin Running /\ Detach(q)
    BY <1>4, <2>1 DEF OnUnsubscribe
  <2>3. q # 0 => q \in Reqs
    BY <2>1 DEF Reqs
  <2> QED
    BY <1>2, <1>3, <2>1, <2>2, <2>3
<1>5. ASSUME NEW q \in Reqs, UnsubscribeResumes(q)
      PROVE  Channel!Close(q) \/ UNCHANGED Channel!feedVars
  <2>1. Detach(q) /\ phase[q] \notin Running /\ q <= made
    BY <1>5 DEF UnsubscribeResumes, WatchInv, RequestInv
  <2> QED
    BY <1>3, <2>1
<1> QED
  BY <1>4, <1>5

\* Nothing is under way to a watch that has sent nothing.
LEMMA UnattachedIsEmpty ==
    ASSUME WatchInv, WatchInv', NEW r \in Reqs, phase[r] \in Unattached
    PROVE  Transit[r] = <<>> /\ queue[r] = <<>> /\ Wire(r) = <<>> /\ Tasks(r) = <<>>
<1>1. Wire(r) = <<>> /\ Tasks(r) = <<>> /\ queue[r] = <<>>
  BY DEF WatchInv, TransitInv, Wire, Tasks, Unattached
<1>2. (<<>> \o <<>>) \o <<>> = <<>>
  OBVIOUS
<1> QED
  BY <1>1, <1>2, TransitParts DEF WatchInv

LEMMA AttachFeeds ==
    ASSUME WatchInv, WatchInv', NEW q \in Reqs, Attach(q), phase[q] \in Running,
           sid' = sid, owner' = owner, pub' = pub, path' = path, got' = got,
           down' = down, emits' = emits
    PROVE  Channel!Open(q)
<1> USE DEF WatchInv
<1>1. /\ phase' = [phase EXCEPT ![q] = "live"]
      /\ \A r \in Reqs : r # q => queue'[r] = queue[r]
      /\ path[q] \notin replaying => queue'[q] = <<>>
      /\ queue'[q] = <<>> \/ (pub[path[q]] > 0 /\ queue'[q] = <<pub[path[q]]>>)
  BY AttachKeeps
<1>2. owner[q] # 0 /\ Stages[q] \in {"new", "offered"}
      /\ Stages' = [Stages EXCEPT ![q] = "open"]
  BY <1>1 DEF Running, RequestInv, Stages, StageOf, TypeOK
<1>3. /\ \A r \in Reqs : Wire(r)' = Wire(r) /\ Tasks(r)' = Tasks(r)
      /\ queue[q] = <<>>
  BY DEF Wire, Tasks, TransitInv, Running
<1>4. \A r \in Reqs : r # q => Transit'[r] = Transit[r]
  BY <1>1, <1>3, TransitSame
<1>5. Transit' = [Transit EXCEPT ![q] = Transit'[q]]
  BY <1>4, TransitParts
<1>6. CASE queue'[q] = <<>>
  <2>1. Transit'[q] = Transit[q]
    BY <1>3, <1>6, TransitSame
  <2>2. Transit' = Transit
    BY <1>4, <2>1, TransitStays
  <2> QED
    BY <1>2, <2>2 DEF Channel!Open
<1>7. CASE queue'[q] # <<>>
  <2>1. pub[path[q]] > 0 /\ queue'[q] = <<pub[path[q]]>> /\ phase[q] = "start"
    BY <1>1, <1>7 DEF SavedInv, Running
  <2>2. Wire(q)' = <<>> /\ Tasks(q)' = <<>> /\ Stages[q] = "new"
    BY <1>3, <2>1, UnattachedIsEmpty DEF Unattached, Stages, StageOf
  <2>3. PICK e \in Vers : e = pub[path[q]]
    <3>1. pub[path[q]] \in 0 .. MaxVer
      BY DEF TypeOK
    <3> QED
      BY <2>1, <3>1 DEF Vers
  <2>4. (<<>> \o <<>>) \o <<e>> = <<e>>
    OBVIOUS
  <2>5. Transit'[q] = <<e>>
    BY <2>1, <2>2, <2>3, <2>4, TransitParts
  <2> QED
    BY <1>2, <1>5, <2>1, <2>2, <2>3, <2>5 DEF Channel!Open
<1> QED
  BY <1>6, <1>7

LEMMA CoroutineFeeds ==
    ASSUME WatchInv, WatchInv', NEW q \in Reqs, Coroutine(q)
    PROVE  \/ Channel!Open(q) \/ Channel!OfferEarlier(q) \/ Channel!Close(q)
           \/ UNCHANGED Channel!feedVars
<1> USE DEF WatchInv
<1>1. /\ sid' = sid /\ owner' = owner /\ pub' = pub /\ path' = path /\ got' = got
      /\ emits' = emits /\ phase[q] \in Running
  BY DEF Coroutine, WatchRead, WatchFails, WatchSend, WatchAttach, link, request, world, Running
<1>2. owner[q] # 0
  BY <1>1 DEF RequestInv, Running
<1>3. CASE Attach(q) /\ down' = down
  BY <1>1, <1>3, AttachFeeds
<1>4. CASE phase[q] = "start" /\ phase' = [phase EXCEPT ![q] = "read"] /\ queue' = queue
           /\ down' = down
  <2>1. Stages' = Stages
    BY <1>4, StagesStay DEF StageOf, TypeOK
  <2> QED
    BY <1>1, <1>4, <2>1 DEF Channel!feedVars, Transit
<1>5. CASE phase[q] = "start" /\ phase' = [phase EXCEPT ![q] = "failed"] /\ queue' = queue
           /\ down' = down
  <2>1. Stages[q] = "new" /\ Stages' = [Stages EXCEPT ![q] = "closed"]
    BY <1>5 DEF Stages, StageOf, TypeOK
  <2>2. Transit' = Transit
    BY <1>1, <1>5 DEF Transit
  <2>3. Transit[q] = <<>>
    BY <1>5, UnattachedIsEmpty DEF Unattached
  <2>4. 0 \in 0 .. Len(<<>>) /\ SubSeq(<<>>, 1, 0) = <<>>
    OBVIOUS
  <2>5. Transit' = [Transit EXCEPT ![q] = SubSeq(Transit[q], 1, 0)] /\ 0 \in 0 .. Len(Transit[q])
    BY <2>2, <2>3, <2>4, TransitParts
  <2> QED
    BY <1>1, <1>2, <2>1, <2>5 DEF Channel!Close
<1>6. CASE /\ phase[q] = "read" /\ snap[q] # 0 /\ SendTo(q, snap[q])
           /\ phase' = [phase EXCEPT ![q] = "sent"] /\ queue' = queue
  <2>1. Stages[q] = "new" /\ Stages' = [Stages EXCEPT ![q] = "offered"]
    BY <1>6 DEF Stages, StageOf, TypeOK
  <2>2. PICK v \in Vers : v = snap[q] /\ v \in 1 .. pub[path[q]]
    <3>1. snap[q] \in 0 .. MaxVer /\ path[q] \in Paths /\ pub[path[q]] \in Nat
          /\ snap[q] <= pub[path[q]]
      BY DEF TypeOK, SavedInv
    <3> QED
      BY <1>6, <3>1 DEF Vers
  <2>3. /\ \A r \in Reqs : r # q \/ owner[q] # sid => Wire(r)' = Wire(r)
        /\ owner[q] = sid => Wire(q)' = Append(Wire(q), v)
        /\ \A r \in Reqs : Tasks(r)' = Tasks(r)
    BY <1>1, <1>6, <2>2, SendTransit DEF Wire, Tasks
  <2>4. \A r \in Reqs : r # q \/ owner[q] # sid => Transit'[r] = Transit[r]
    BY <1>6, <2>3, TransitSame
  <2>5. CASE owner[q] # sid
    <3>1. Transit' = Transit
      BY <2>4, <2>5, TransitStays
    <3> QED
      BY <1>1, <1>2, <2>1, <2>5, <3>1 DEF Channel!OfferEarlier
  <2>6. CASE owner[q] = sid
    <3>1. Wire(q) = <<>> /\ Tasks(q) = <<>> /\ queue[q] = <<>>
      BY <1>6, UnattachedIsEmpty DEF Unattached
    <3>2. (Append(<<>>, v) \o <<>>) \o <<>> = <<v>>
      OBVIOUS
    <3>3. Transit'[q] = <<v>>
      BY <1>6, <2>3, <2>6, <3>1, <3>2, TransitParts
    <3>4. Transit' = [Transit EXCEPT ![q] = <<v>>]
      BY <2>4, <3>3, TransitParts
    <3> QED
      BY <1>1, <1>2, <2>1, <2>2, <3>4 DEF Channel!OfferEarlier
  <2> QED
    BY <2>5, <2>6
<1> QED
  BY <1>3, <1>4, <1>5, <1>6 DEF Coroutine, WatchRead, WatchFails, WatchSend, WatchAttach

LEMMA HandleFeeds ==
    ASSUME WatchInv, WatchInv', NEW q \in Reqs, Handle(q)
    PROVE  UNCHANGED Channel!feedVars
<1> USE DEF WatchInv
<1>1. /\ sid' = sid /\ owner' = owner /\ pub' = pub /\ path' = path /\ got' = got
      /\ down' = down /\ phase' = phase /\ queue[q] # <<>>
      /\ queue' = [queue EXCEPT ![q] = Tail(@)]
  BY DEF Handle, link, request, world
<1>2. PICK v \in Vers : v = Head(queue[q])
  <2>1. queue[q] \in Seq(Vers)
    BY DEF TypeOK
  <2>2. Head(queue[q]) \in Vers
    BY <1>1, <2>1
  <2> QED
    BY <2>2
<1>3. /\ \A r \in Reqs : Wire(r)' = Wire(r)
      /\ \A r \in Reqs : r # q => Tasks(r)' = Tasks(r)
      /\ Tasks(q)' = Append(Tasks(q), v)
  <2> DEFINE m == [req |-> q, ver |-> v]
  <2>1. m \in Msg /\ m.req = q /\ m.ver = v
    BY DEF Msg
  <2>2. emits' = Append(emits, m) /\ emits \in Seq(Msg)
    BY <1>2 DEF Handle, TypeOK
  <2> HIDE DEF m
  <2> QED
    BY <1>1, <2>1, <2>2, VersAppend DEF Wire, Tasks
<1>4. Transit'[q] = Transit[q]
  <2>1. PICK a \in Seq(Vers), b \in Seq(Vers), c \in Seq(Vers) :
           a = Wire(q) /\ b = Tasks(q) /\ c = queue[q]
    BY TransitParts
  <2>2. c # <<>> /\ v = Head(c) /\ queue'[q] = Tail(c)
    BY <1>1, <1>2, <2>1 DEF TypeOK
  <2>3. Head(c) \in Vers
    BY <2>2
  <2>4. PICK x \in Seq(Vers) : x = a \o b
    <3>1. a \o b \in Seq(Vers)
      OBVIOUS
    <3> QED
      BY <3>1
  <2>5. PICK y \in Seq(Vers) : y = Append(b, Head(c))
    <3>1. Append(b, Head(c)) \in Seq(Vers)
      BY <2>3
    <3> QED
      BY <3>1
  <2>6. PICK z \in Seq(Vers) : z = a \o y
    <3>1. a \o y \in Seq(Vers)
      OBVIOUS
    <3> QED
      BY <3>1
  <2>7. z = Append(x, Head(c))
    BY <2>3, <2>4, <2>5, <2>6, AppendToConcat
  <2>8. z \o Tail(c) = x \o c
    BY <2>2, <2>7, HeadMoves
  <2>9. Transit[q] = x \o c /\ Transit'[q] = z \o Tail(c)
    BY <1>3, <2>1, <2>2, <2>4, <2>5, <2>6, TransitParts
  <2> QED
    BY <2>8, <2>9
<1>5. \A r \in Reqs : r # q => Transit'[r] = Transit[r]
  BY <1>1, <1>3, TransitSame DEF TypeOK
<1>6. Transit' = Transit
  BY <1>4, <1>5, TransitStays
<1> QED
  BY <1>1, <1>6 DEF Channel!feedVars, Stages

LEMMA EmitFeeds ==
    ASSUME WatchInv, WatchInv', Emit
    PROVE  (\E r \in Reqs : Channel!Lose(r)) \/ UNCHANGED Channel!feedVars
<1> USE DEF WatchInv
<1>1. PICK q \in Reqs, v \in Vers : q = Head(emits).req /\ v = Head(emits).ver /\ SendTo(q, v)
  <2>1. Head(emits) \in Msg
    BY DEF Emit, TypeOK
  <2> QED
    BY <2>1, VerOfMsg DEF Emit
<1>2. /\ sid' = sid /\ owner' = owner /\ pub' = pub /\ path' = path /\ got' = got
      /\ phase' = phase /\ queue' = queue
      /\ emits # <<>> /\ emits \in Seq(Msg) /\ emits' = Tail(emits)
  BY DEF Emit, link, request, world, TypeOK
<1>3. /\ \A r \in Reqs : r # q \/ owner[q] # sid => Wire(r)' = Wire(r)
      /\ owner[q] = sid => Wire(q)' = Append(Wire(q), v)
  BY <1>1, SendTransit DEF Wire
<1>4. /\ \A r \in Reqs : r # q => Tasks(r)' = Tasks(r)
      /\ Tasks(q) # <<>> /\ Head(Tasks(q)) = v /\ Tasks(q)' = Tail(Tasks(q))
  BY <1>1, <1>2, VersTail DEF Tasks
<1>5. \A r \in Reqs : r # q => Transit'[r] = Transit[r]
  BY <1>2, <1>3, <1>4, TransitSame
<1>6. PICK a \in Seq(Vers), b \in Seq(Vers), c \in Seq(Vers) :
         a = Wire(q) /\ b = Tasks(q) /\ c = queue[q]
  BY TransitParts
<1>7. b # <<>> /\ Head(b) = v /\ Tasks(q)' = Tail(b) /\ queue'[q] = c
  BY <1>2, <1>4, <1>6
<1>8. CASE owner[q] = sid
  <2>1. (Append(a, Head(b)) \o Tail(b)) \o c = (a \o b) \o c
    BY <1>7
  <2>2. Transit'[q] = Transit[q]
    BY <1>3, <1>6, <1>7, <1>8, <2>1, TransitParts
  <2>3. Transit' = Transit
    BY <1>5, <2>2, TransitStays
  <2> QED
    BY <1>2, <2>3 DEF Channel!feedVars, Stages
<1>9. CASE owner[q] # sid
  <2>1. Wire(q) = <<>>
    BY <1>9 DEF TransitInv, Wire
  <2>2. /\ (<<>> \o b) \o c # <<>>
        /\ Tail((<<>> \o b) \o c) = (<<>> \o Tail(b)) \o c
    BY <1>7
  <2>3. Transit[q] # <<>> /\ Transit'[q] = Tail(Transit[q])
    BY <1>3, <1>6, <1>7, <1>9, <2>1, <2>2, TransitParts
  <2>4. Transit' = [Transit EXCEPT ![q] = Tail(@)]
    BY <1>5, <2>3, TransitParts
  <2>5. Stages' = Stages
    BY <1>2 DEF Stages
  <2> QED
    BY <1>2, <1>9, <2>3, <2>4, <2>5 DEF Channel!Lose
<1> QED
  BY <1>8, <1>9

LEMMA FeedInits == Init => Channel!FeedInit
<1> SUFFICES ASSUME Init PROVE Channel!FeedInit
  OBVIOUS
<1>1. Stages = [r \in Reqs |-> "new"]
  BY DEF Init, Stages, StageOf
<1>2. Transit = [r \in Reqs |-> <<>>]
  <2>1. \A r \in Reqs : VersOf(r, down) = <<>> /\ VersOf(r, emits) = <<>> /\ queue[r] = <<>>
    BY VersEmpty DEF Init
  <2>2. (<<>> \o <<>>) \o <<>> = <<>>
    OBVIOUS
  <2> QED
    BY <2>1, <2>2 DEF Transit
<1> QED
  BY <1>1, <1>2 DEF Init, Channel!FeedInit

LEMMA FeedStep ==
    ASSUME WatchInv, WatchInv', [Next]_vars
    PROVE  [Channel!FeedNext]_(Channel!feedVars)
<1>1. CASE UNCHANGED vars
  BY <1>1 DEF vars, world, link, request, client, shown, Channel!feedVars, Stages, Transit
<1>2. CASE Next
  BY <1>2, PublishFeeds, ConnectFeeds, DisconnectFeeds, OutsideFeeds, ReceiveFeeds,
     OnSubscribeFeeds, UnsubscribeFeeds, CoroutineFeeds, HandleFeeds, EmitFeeds
  DEF Next, Browser, Server, Channel!FeedNext
<1> QED
  BY <1>1, <1>2

\* fast_io/__init__.py, routes/utils.py rx_watcher and api-client index.ts: through
\* every queue, task, message and handler between RMF and the browser, each watch
\* is a channel, however many watches, listeners and connections there are.
THEOREM WatchImplementsFeed == Spec => ImplementsFeed
BY FeedInits, FeedStep, WatchInvariant, PTL DEF Spec, ImplementsFeed, Channel!FeedSpec

-----------------------------------------------------------------------------
(* Listeners, the messages they send, and the watches that feed them.      *)

\* The connection never broke.
FirstLink == conns = 0 \/ (conns = 1 /\ sid # 0)

Kinds == {"subscribe", "unsubscribe"}

\* The messages of some kinds about p that are on their way to the server.
UpOf(kinds, p) == Kept(up, [ev : kinds, path : {p}])

ListenersOf(p) == {l \in subs : PathOf[l] = p}

\* The watches of p that no unsubscribe was handled for: those that feed it, and
\* those whose read raised.
Fed(p) == {r \in Reqs : path[r] = p /\ phase[r] \in Running \cup {"live"}} \ unsubs
FedOrFailed(p) ==
    {r \in Reqs : path[r] = p /\ phase[r] \in Running \cup {"live", "failed"}} \ unsubs

LEMMA UpInSeq ==
    ASSUME TypeOK, NEW kinds, NEW p
    PROVE  UpOf(kinds, p) \in Seq(UpMsg) /\ Len(UpOf(kinds, p)) \in Nat
<1> DEFINE S == [ev : kinds, path : {p}]
<1>1. Kept(up, S) \in Seq(UpMsg \cap S)
  BY KeptInSeq DEF TypeOK
<1>2. UpOf(kinds, p) \in Seq(UpMsg \cap S)
  BY <1>1 DEF UpOf
<1> QED
  BY <1>2

LEMMA AboutPath ==
    ASSUME NEW m \in UpMsg, NEW kinds, NEW p
    PROVE  m \in [ev : kinds, path : {p}] <=> m.ev \in kinds /\ m.path = p
BY DEF UpMsg

LEMMA UpAppend ==
    ASSUME TypeOK, NEW m \in UpMsg, up' = Append(up, m), NEW kinds, NEW p
    PROVE  UpOf(kinds, p)' = IF m.ev \in kinds /\ m.path = p
                             THEN Append(UpOf(kinds, p), m) ELSE UpOf(kinds, p)
<1> DEFINE S == [ev : kinds, path : {p}]
<1>1. m \in S <=> m.ev \in kinds /\ m.path = p
  BY AboutPath
<1>2. up \in Seq(UpMsg)
  BY DEF TypeOK
<1>3. Kept(up', S) = IF m \in S THEN Append(Kept(up, S), m) ELSE Kept(up, S)
  BY <1>2, KeptAppend
<1> QED
  BY <1>1, <1>3 DEF UpOf

\* Taking the first message away takes it from what is kept, or changes nothing.
LEMMA UpTail ==
    ASSUME TypeOK, up # <<>>, up' = Tail(up), NEW kinds, NEW p
    PROVE  LET m == Head(up) IN
           IF m.ev \in kinds /\ m.path = p
           THEN /\ UpOf(kinds, p) # <<>> /\ UpOf(kinds, p)[1] = m
                /\ UpOf(kinds, p)' = Tail(UpOf(kinds, p))
           ELSE UpOf(kinds, p)' = UpOf(kinds, p)
<1> DEFINE S == [ev : kinds, path : {p}]
           m == Head(up)
           k == Kept(up', S)
<1>1. up \in Seq(UpMsg) /\ m \in UpMsg /\ up' \in Seq(UpMsg)
  BY DEF TypeOK
<1>2. m \in S <=> m.ev \in kinds /\ m.path = p
  BY <1>1, AboutPath
<1>3. Kept(up, S) = (IF m \in S THEN <<m>> ELSE <<>>) \o k
  BY <1>1, KeptTail
<1>4. k \in Seq(UpMsg)
  <2>1. k \in Seq(UpMsg \cap S)
    BY <1>1, KeptInSeq
  <2> QED
    BY <2>1
<1>5. UpOf(kinds, p) = Kept(up, S) /\ UpOf(kinds, p)' = k
  BY DEF UpOf
<1> HIDE DEF k, m, S
<1>6. <<m>> \o k # <<>> /\ (<<m>> \o k)[1] = m /\ Tail(<<m>> \o k) = k /\ <<>> \o k = k
  BY <1>1, <1>4
<1> QED
  BY <1>2, <1>3, <1>5, <1>6 DEF m

-----------------------------------------------------------------------------
\* What is neither a subscription nor its end leaves the listeners, the messages
\* and the requests alone; a coroutine may go on or fail, and a handler that
\* waited for one may end.
Calm ==
    /\ up' = up /\ subs' = subs /\ path' = path /\ made' = made /\ unsubs' \subseteq unsubs
    /\ replaying' = replaying
    /\ \/ session' = session
       \/ session' = [p \in Paths |-> 0] /\ (conns = 0 \/ ~FirstLink')
    /\ FirstLink' => FirstLink
    /\ \A r \in Reqs :
          \/ phase'[r] = phase[r] /\ (r \in unsubs => r \in unsubs')
          \/ /\ phase[r] \in Running /\ phase'[r] \in Running \cup {"live", "failed"}
             /\ r \in unsubs => r \in unsubs'
             /\ phase'[r] = "failed" => WatchMayFail /\ path[r] \notin replaying
          \/ /\ r \in unsubs \ unsubs' /\ phase'[r] \notin Running \cup {"live"}
             /\ phase'[r] = "failed" => phase[r] = "failed"

LEMMA WorldIsCalm ==
    ASSUME WatchInv, NEW p \in Paths, Publish(p) \/ Save(p) PROVE Calm
BY DEF Calm, Publish, PublishTo, Save, link, world, request, client, FirstLink

LEMMA ConnectIsCalm == ASSUME WatchInv, Connect PROVE Calm
BY DEF Calm, Connect, request, world, client, FirstLink, WatchInv, TypeOK

LEMMA ReceiveIsCalm == ASSUME WatchInv, Receive PROVE Calm
BY DEF Calm, Receive, link, world, request, client, FirstLink

LEMMA EmitIsCalm == ASSUME WatchInv, Emit PROVE Calm
BY DEF Calm, Emit, link, world, request, client, FirstLink

LEMMA HandleIsCalm == ASSUME WatchInv, NEW q \in Reqs, Handle(q) PROVE Calm
BY DEF Calm, Handle, link, world, request, client, FirstLink

LEMMA ResumesIsCalm ==
    ASSUME WatchInv, NEW q \in Reqs, UnsubscribeResumes(q) PROVE Calm
BY DEF Calm, UnsubscribeResumes, Detach, link, world, request, client, FirstLink, Running, WatchInv,
       TypeOK, Phases

LEMMA CoroutineIsCalm ==
    ASSUME WatchInv, NEW q \in Reqs, Coroutine(q) PROVE Calm
<1> USE DEF WatchInv, TypeOK
<1>1. /\ UNCHANGED <<replaying, up, subs, path, made, unsubs, session, conns, sid>>
      /\ \E ph \in Running \cup {"live", "failed"} :
            /\ phase' = [phase EXCEPT ![q] = ph]
            /\ ph = "failed" => WatchMayFail /\ path[q] \notin replaying
      /\ phase[q] \in Running
  <2>1. CASE WatchRead(q)
    BY <2>1 DEF WatchRead, Attach, AttachWith, world, link, request, client, Running
  <2>2. CASE WatchFails(q)
    BY <2>2 DEF WatchFails, world, link, request, client, Running
  <2>3. CASE WatchSend(q)
    BY <2>3 DEF WatchSend, Attach, AttachWith, world, link, request, client, Running
  <2>4. CASE WatchAttach(q)
    BY <2>4 DEF WatchAttach, Attach, AttachWith, world, link, request, client, Running
  <2> QED
    BY <2>1, <2>2, <2>3, <2>4 DEF Coroutine
<1> QED
  BY <1>1 DEF Calm, FirstLink

-----------------------------------------------------------------------------
\* A path has as many watches to feed it as it has listeners, even if a handler
\* was to answer every message that is on its way.
EnoughWatches ==
    \A p \in Paths :
        Cardinality(ListenersOf(p)) + Len(UpOf({"unsubscribe"}, p))
            <= Cardinality(FedOrFailed(p)) + Len(UpOf({"subscribe"}, p))

\* No two listeners share a path.
OneListenerEach == \A l, m \in Listeners : PathOf[l] = PathOf[m] => l = m

\* The server knows nobody who listens to p.
Idle(p) ==
    LET turns == UpOf(Kinds, p) IN
    IF turns = <<>> THEN ListenersOf(p) = {} ELSE turns[1].ev = "subscribe"

\* The messages about a path alternate, the last says whether it has a listener,
\* and it is fed by the watch of the session or by none.
TakesTurns(p) ==
    LET turns == UpOf(Kinds, p) IN
    /\ \A i \in 1 .. Len(turns) - 1 : turns[i].ev # turns[i + 1].ev
    /\ turns # <<>> => (turns[Len(turns)].ev = "subscribe" <=> ListenersOf(p) # {})
    /\ Fed(p) \subseteq {session[p]}
    /\ Idle(p) => Fed(p) = {}

SessionInv == \A p \in Paths : session[p] # 0 => path[session[p]] = p

FailInv == \A r \in Reqs : phase[r] = "failed" => WatchMayFail /\ path[r] \notin replaying

ListenerInv ==
    /\ IsFiniteSet(subs) /\ SessionInv /\ FailInv
    /\ FirstLink => EnoughWatches
    /\ FirstLink /\ OneListenerEach => \A p \in Paths : TakesTurns(p)

LEMMA FedFinite ==
    \A p : IsFiniteSet(FedOrFailed(p)) /\ Cardinality(FedOrFailed(p)) \in Nat
<1> SUFFICES ASSUME NEW p
             PROVE  IsFiniteSet(FedOrFailed(p)) /\ Cardinality(FedOrFailed(p)) \in Nat
  OBVIOUS
<1>1. IsFiniteSet(Reqs)
  BY FS_Interval, WatchAssumption DEF Reqs
<1>2. FedOrFailed(p) \in SUBSET Reqs
  BY DEF FedOrFailed
<1>3. IsFiniteSet(FedOrFailed(p))
  BY <1>1, <1>2, FS_Subset
<1> QED
  BY <1>3, FS_CardinalityType

LEMMA ListenersFinite ==
    ASSUME IsFiniteSet(subs)
    PROVE  \A p : IsFiniteSet(ListenersOf(p)) /\ Cardinality(ListenersOf(p)) \in Nat
<1> SUFFICES ASSUME NEW p
             PROVE  IsFiniteSet(ListenersOf(p)) /\ Cardinality(ListenersOf(p)) \in Nat
  OBVIOUS
<1>1. ListenersOf(p) \in SUBSET subs
  BY DEF ListenersOf
<1>2. IsFiniteSet(ListenersOf(p))
  BY <1>1, FS_Subset
<1> QED
  BY <1>2, FS_CardinalityType

LEMMA ListenerInit == Init => ListenerInv
<1> SUFFICES ASSUME Init PROVE ListenerInv
  OBVIOUS
<1> USE DEF Init
<1>1. IsFiniteSet(subs) /\ SessionInv /\ FailInv
  BY FS_EmptySet DEF SessionInv, FailInv
<1>2. ASSUME NEW p \in Paths
      PROVE  /\ ListenersOf(p) = {} /\ Fed(p) = {} /\ Cardinality(ListenersOf(p)) = 0
             /\ \A kinds : UpOf(kinds, p) = <<>>
  <2>1. ListenersOf(p) = {} /\ Fed(p) = {}
    BY DEF ListenersOf, Fed, Running
  <2>2. \A kinds : UpOf(kinds, p) = <<>>
    BY KeptEmpty DEF UpOf
  <2> QED
    BY <2>1, <2>2, FS_EmptySet
<1>3. EnoughWatches
  <2> SUFFICES ASSUME NEW p \in Paths
               PROVE  Cardinality(ListenersOf(p)) + Len(UpOf({"unsubscribe"}, p))
                          <= Cardinality(FedOrFailed(p)) + Len(UpOf({"subscribe"}, p))
    BY DEF EnoughWatches
  <2>1. Cardinality(FedOrFailed(p)) \in Nat
    BY FedFinite
  <2>2. Len(UpOf({"unsubscribe"}, p)) = 0 /\ Len(UpOf({"subscribe"}, p)) = 0
    BY <1>2
  <2> QED
    BY <1>2, <2>1, <2>2
<1>4. \A p \in Paths : TakesTurns(p)
  BY <1>2 DEF TakesTurns
<1> QED
  BY <1>1, <1>3, <1>4 DEF ListenerInv

LEMMA CalmKeeps == ASSUME WatchInv, ListenerInv, Calm PROVE ListenerInv'
<1> USE DEF WatchInv
<1>1. /\ \A p : UpOf({"subscribe"}, p)' = UpOf({"subscribe"}, p)
      /\ \A p : UpOf({"unsubscribe"}, p)' = UpOf({"unsubscribe"}, p)
      /\ \A p : UpOf(Kinds, p)' = UpOf(Kinds, p) /\ ListenersOf(p)' = ListenersOf(p)
      /\ \A p : Idle(p)' = Idle(p)
  BY DEF Calm, UpOf, ListenersOf, Idle
<1>2. \A p : FedOrFailed(p) \subseteq FedOrFailed(p)' /\ Fed(p)' \subseteq Fed(p)
  BY DEF Calm, FedOrFailed, Fed, Running
<1>3. IsFiniteSet(subs)' /\ SessionInv' /\ FailInv'
  BY DEF Calm, ListenerInv, SessionInv, FailInv, Running
<1>4. FirstLink' => EnoughWatches'
  <2> SUFFICES ASSUME FirstLink', NEW p \in Paths
               PROVE  Cardinality(ListenersOf(p)') + Len(UpOf({"unsubscribe"}, p)')
                          <= Cardinality(FedOrFailed(p)') + Len(UpOf({"subscribe"}, p)')
    BY DEF EnoughWatches
  <2>1. Cardinality(ListenersOf(p)) + Len(UpOf({"unsubscribe"}, p))
            <= Cardinality(FedOrFailed(p)) + Len(UpOf({"subscribe"}, p))
    BY DEF Calm, ListenerInv, EnoughWatches
  <2>2. IsFiniteSet(FedOrFailed(p)') /\ Cardinality(FedOrFailed(p)') \in Nat
    <3>1. IsFiniteSet(Reqs) /\ FedOrFailed(p)' \in SUBSET Reqs
      BY FS_Interval, WatchAssumption DEF Reqs, FedOrFailed
    <3>2. IsFiniteSet(FedOrFailed(p)')
      BY <3>1, FS_Subset
    <3> QED
      BY <3>2, FS_CardinalityType
  <2>3. Cardinality(FedOrFailed(p)) <= Cardinality(FedOrFailed(p)')
    BY <1>2, <2>2, FS_Subset
  <2>4. /\ Cardinality(ListenersOf(p)) \in Nat /\ Cardinality(FedOrFailed(p)) \in Nat
        /\ Len(UpOf({"unsubscribe"}, p)) \in Nat /\ Len(UpOf({"subscribe"}, p)) \in Nat
    BY ListenersFinite, FedFinite, UpInSeq DEF ListenerInv
  <2> QED
    BY <1>1, <2>1, <2>2, <2>3, <2>4
<1>5. FirstLink' /\ OneListenerEach' => \A p \in Paths : TakesTurns(p)'
  <2> SUFFICES ASSUME FirstLink', OneListenerEach, NEW p \in Paths PROVE TakesTurns(p)'
    BY DEF OneListenerEach
  <2>1. TakesTurns(p)
    BY DEF ListenerInv, Calm
  <2>2. Fed(p)' \subseteq {session'[p]}
    <3>1. CASE session' = session
      BY <3>1, <1>2, <2>1 DEF TakesTurns
    <3>2. CASE conns = 0
      <4>1. \A r \in Reqs : owner[r] = 0 /\ phase[r] = "none"
        BY <3>2 DEF RequestInv, TypeOK
      <4>2. Fed(p) = {}
        BY <4>1 DEF Fed, Running
      <4> QED
        BY <4>2, <1>2
    <3> QED
      BY <3>1, <3>2 DEF Calm
  <2> QED
    BY <1>1, <1>2, <2>1, <2>2 DEF TakesTurns
<1> QED
  BY <1>3, <1>4, <1>5 DEF ListenerInv

LEMMA DisconnectKeepsListeners ==
    ASSUME WatchInv, ListenerInv, Disconnect PROVE ListenerInv'
<1>1. ~FirstLink'
  BY DEF FirstLink, Disconnect, WatchInv, RequestInv
<1>2. IsFiniteSet(subs)' /\ SessionInv' /\ FailInv'
  BY DEF Disconnect, world, request, ListenerInv, SessionInv, FailInv
<1> QED
  BY <1>1, <1>2 DEF ListenerInv

\* The last element of what is appended to, and its neighbours.
LEMMA AppendTurns ==
    ASSUME NEW A, NEW s \in Seq(A), NEW m \in A, NEW t, t = Append(s, m)
    PROVE  /\ t \in Seq(A) /\ Len(s) \in Nat /\ Len(t) = Len(s) + 1 /\ t # <<>>
           /\ t[Len(t)] = m /\ \A i \in 1 .. Len(s) : t[i] = s[i]
           /\ t[1] = IF s = <<>> THEN m ELSE s[1]
OBVIOUS

LEMMA EmptyTurns == ASSUME NEW A, NEW t \in Seq(A) PROVE t = <<>> <=> Len(t) = 0
OBVIOUS

LEMMA TailTurns ==
    ASSUME NEW A, NEW s \in Seq(A), s # <<>>, NEW t, t = Tail(s)
    PROVE  /\ t \in Seq(A) /\ Len(s) \in Nat \ {0} /\ Len(t) = Len(s) - 1
           /\ \A i \in 1 .. Len(t) : t[i] = s[i + 1]
           /\ t = <<>> <=> Len(s) = 1
<1>1. /\ t \in Seq(A) /\ Len(s) \in Nat \ {0} /\ Len(t) = Len(s) - 1
      /\ \A i \in 1 .. Len(t) : t[i] = s[i + 1]
  OBVIOUS
<1>2. t = <<>> <=> Len(t) = 0
  BY <1>1, EmptyTurns
<1> QED
  BY <1>1, <1>2

\* A listener comes or goes, and says so.
LEMMA SubscribeKeepsListeners ==
    ASSUME WatchInv, ListenerInv, NEW l \in Listeners, Subscribe(l) \/ Unsubscribe(l)
    PROVE  ListenerInv'
<1> USE DEF WatchInv
<1> DEFINE p == PathOf[l]
<1>1. PICK e \in Kinds :
         /\ up' = Append(up, [ev |-> e, path |-> PathOf[l]])
         /\ e = "subscribe" => l \notin subs /\ subs' = subs \cup {l}
         /\ e = "unsubscribe" => l \in subs /\ subs' = subs \ {l}
  BY DEF Subscribe, Unsubscribe, Kinds
<1>2. UNCHANGED <<replaying, sid, conns, session, path, phase, unsubs>>
  BY DEF Subscribe, Unsubscribe, world, link, request
<1> DEFINE m == [ev |-> e, path |-> PathOf[l]]
<1>3. m \in UpMsg /\ up' = Append(up, m) /\ p \in Paths /\ m.ev = e /\ m.path = p
  BY <1>1, WatchAssumption DEF UpMsg, Kinds
<1> HIDE DEF m
<1>4. \A q : Fed(q)' = Fed(q) /\ FedOrFailed(q)' = FedOrFailed(q)
  BY <1>2 DEF Fed, FedOrFailed
<1>5. IsFiniteSet(subs)' /\ SessionInv' /\ FailInv'
  <2>1. IsFiniteSet(subs) /\ SessionInv' /\ FailInv'
    BY <1>2 DEF ListenerInv, SessionInv, FailInv
  <2> QED
    BY <1>1, <2>1, FS_AddElement, FS_RemoveElement DEF Kinds
<1>6. \A q \in Paths : /\ q # p => ListenersOf(q)' = ListenersOf(q)
                       /\ e = "subscribe" => ListenersOf(p)' = ListenersOf(p) \cup {l}
                       /\ e = "unsubscribe" => ListenersOf(p)' = ListenersOf(p) \ {l}
                       /\ l \in ListenersOf(p) <=> l \in subs
  BY <1>1 DEF ListenersOf, Kinds
<1>7. FirstLink' => EnoughWatches'
  <2> SUFFICES ASSUME FirstLink', NEW q \in Paths
               PROVE  Cardinality(ListenersOf(q)') + Len(UpOf({"unsubscribe"}, q)')
                          <= Cardinality(FedOrFailed(q)') + Len(UpOf({"subscribe"}, q)')
    BY DEF EnoughWatches
  <2>1. Cardinality(ListenersOf(q)) + Len(UpOf({"unsubscribe"}, q))
            <= Cardinality(FedOrFailed(q)) + Len(UpOf({"subscribe"}, q))
    BY <1>2 DEF ListenerInv, EnoughWatches, FirstLink
  <2>2. /\ Cardinality(ListenersOf(q)) \in Nat /\ Cardinality(FedOrFailed(q)) \in Nat
        /\ Len(UpOf({"unsubscribe"}, q)) \in Nat /\ Len(UpOf({"subscribe"}, q)) \in Nat
        /\ UpOf({"unsubscribe"}, q) \in Seq(UpMsg) /\ UpOf({"subscribe"}, q) \in Seq(UpMsg)
        /\ IsFiniteSet(ListenersOf(q))
    BY ListenersFinite, FedFinite, UpInSeq DEF ListenerInv
  <2>3. CASE q = p /\ e = "subscribe"
    <3>1. Cardinality(ListenersOf(q)') = Cardinality(ListenersOf(q)) + 1
      BY <1>1, <1>6, <2>2, <2>3, FS_AddElement
    <3>2. /\ UpOf({"unsubscribe"}, q)' = UpOf({"unsubscribe"}, q)
          /\ UpOf({"subscribe"}, q)' = Append(UpOf({"subscribe"}, q), m)
      BY <1>3, <2>3, UpAppend
    <3>3. Len(UpOf({"subscribe"}, q)') = Len(UpOf({"subscribe"}, q)) + 1
      BY <1>3, <2>2, <3>2, AppendTurns
    <3> QED
      BY <1>4, <2>1, <2>2, <3>1, <3>2, <3>3
  <2>4. CASE q = p /\ e = "unsubscribe"
    <3>1. Cardinality(ListenersOf(q)') = Cardinality(ListenersOf(q)) - 1
      BY <1>1, <1>6, <2>2, <2>4, FS_RemoveElement
    <3>2. /\ UpOf({"subscribe"}, q)' = UpOf({"subscribe"}, q)
          /\ UpOf({"unsubscribe"}, q)' = Append(UpOf({"unsubscribe"}, q), m)
      BY <1>3, <2>4, UpAppend
    <3>3. Len(UpOf({"unsubscribe"}, q)') = Len(UpOf({"unsubscribe"}, q)) + 1
      BY <1>3, <2>2, <3>2, AppendTurns
    <3> QED
      BY <1>4, <2>1, <2>2, <3>1, <3>2, <3>3
  <2>5. CASE q # p
    <3>1. /\ UpOf({"subscribe"}, q)' = UpOf({"subscribe"}, q)
          /\ UpOf({"unsubscribe"}, q)' = UpOf({"unsubscribe"}, q)
      BY <1>3, <2>5, UpAppend
    <3> QED
      BY <1>4, <1>6, <2>1, <2>5, <3>1
  <2> QED
    BY <2>3, <2>4, <2>5 DEF Kinds
<1>8. FirstLink' /\ OneListenerEach => \A q \in Paths : TakesTurns(q)'
  <2> SUFFICES ASSUME FirstLink', OneListenerEach, NEW q \in Paths PROVE TakesTurns(q)'
    BY DEF OneListenerEach
  <2>1. TakesTurns(q)
    BY <1>2 DEF ListenerInv, FirstLink
  <2>2. CASE q # p
    <3>1. UpOf(Kinds, q)' = UpOf(Kinds, q) /\ ListenersOf(q)' = ListenersOf(q)
      BY <1>3, <1>6, <2>2, UpAppend
    <3> QED
      BY <1>2, <1>4, <2>1, <3>1 DEF TakesTurns, Idle
  <2>3. CASE q = p
    <3> DEFINE s == UpOf(Kinds, q)
               t == UpOf(Kinds, q)'
    <3>1. s \in Seq(UpMsg) /\ t = Append(s, m)
      BY <1>3, <2>3, UpInSeq, UpAppend
    <3>2. ListenersOf(p) \subseteq {l}
      BY DEF ListenersOf, OneListenerEach, TypeOK
    <3>3. /\ e = "subscribe" => ListenersOf(q) = {} /\ ListenersOf(q)' = {l}
          /\ e = "unsubscribe" => ListenersOf(q) = {l} /\ ListenersOf(q)' = {}
      BY <1>1, <1>6, <2>3, <3>2
    <3>4. /\ \A i \in 1 .. Len(s) - 1 : s[i].ev # s[i + 1].ev
          /\ s # <<>> => (s[Len(s)].ev = "subscribe" <=> ListenersOf(q) # {})
          /\ Fed(q) \subseteq {session[q]}
          /\ IF s = <<>> THEN ListenersOf(q) = {} => Fed(q) = {}
                         ELSE s[1].ev = "subscribe" => Fed(q) = {}
      BY <2>1 DEF TakesTurns, Idle
    <3> HIDE DEF s, t
    <3>5. /\ Len(s) \in Nat /\ Len(t) = Len(s) + 1 /\ t # <<>> /\ t[Len(t)] = m
          /\ \A i \in 1 .. Len(s) : t[i] = s[i] /\ s[i] \in UpMsg
          /\ t[1] = IF s = <<>> THEN m ELSE s[1]
          /\ s # <<>> => Len(s) # 0
      BY <1>3, <3>1, AppendTurns
    <3>6. ASSUME NEW i \in 1 .. Len(t) - 1 PROVE t[i].ev # t[i + 1].ev
      <4>1. i \in 1 .. Len(s)
        BY <3>5
      <4>2. CASE i = Len(s)
        <5>1. s # <<>> /\ t[i] = s[Len(s)] /\ t[i + 1] = m /\ s[Len(s)].ev \in Kinds
          BY <3>1, <3>5, <4>1, <4>2 DEF UpMsg, Kinds
        <5> QED
          BY <1>3, <3>3, <3>4, <5>1 DEF Kinds
      <4>3. CASE i # Len(s)
        <5>1. i \in 1 .. Len(s) - 1 /\ i + 1 \in 1 .. Len(s)
          BY <3>5, <4>1, <4>3
        <5> QED
          BY <3>4, <3>5, <4>1, <5>1
      <4> QED
        BY <4>2, <4>3
    <3>7. t[Len(t)].ev = "subscribe" <=> ListenersOf(q)' # {}
      BY <1>3, <3>3, <3>5 DEF Kinds
    <3>8. t[1].ev = "subscribe" => Fed(q) = {}
      BY <1>3, <3>3, <3>4, <3>5 DEF Kinds
    <3> QED
      BY <1>2, <1>4, <3>4, <3>5, <3>6, <3>7, <3>8 DEF TakesTurns, Idle, t
  <2> QED
    BY <2>2, <2>3
<1> QED
  BY <1>5, <1>7, <1>8 DEF ListenerInv

\* A request is made for the first message, a subscribe.
LEMMA OnSubscribeKeepsListeners ==
    ASSUME WatchInv, ListenerInv, OnSubscribe PROVE ListenerInv'
<1> USE DEF WatchInv
<1>0. Head(up) \in UpMsg /\ Head(up).path \in Paths /\ made + 1 \in Nat \ {0} /\ TypeOK'
  <2>1. up # <<>>
    BY DEF OnSubscribe
  <2>2. TypeOK'
    BY OnSubscribeKeeps
  <2>3. made + 1 \in Nat \ {0}
    BY DEF TypeOK
  <2> QED
    BY <2>1, <2>2, <2>3, HeadOfUp
<1> PICK p \in Paths : p = Head(up).path
  BY <1>0
<1> PICK r \in Nat \ {0} : r = made + 1
  BY <1>0
<1>1. /\ up # <<>> /\ up' = Tail(up) /\ Head(up).ev = "subscribe"
      /\ UNCHANGED <<replaying, sid, conns, subs, unsubs>>
      /\ made' = r
      /\ path' = [path EXCEPT ![r] = p] /\ phase' = [phase EXCEPT ![r] = "start"]
      /\ session' = [session EXCEPT ![p] = r]
  BY DEF OnSubscribe, world, link
<1>2. /\ r \in Reqs /\ phase[r] = "none" /\ r \notin unsubs
      /\ \A q \in Paths : session[q] # r
  <2>1. r \in Reqs
    BY <1>0, <1>1 DEF TypeOK, Reqs
  <2>2. ~(r <= made)
    BY DEF TypeOK
  <2> QED
    BY <2>1, <2>2 DEF RequestInv
<1>3. /\ \A q \in Paths : ListenersOf(q)' = ListenersOf(q)
      /\ FedOrFailed(p)' = FedOrFailed(p) \cup {r} /\ r \notin FedOrFailed(p)
      /\ Fed(p)' = Fed(p) \cup {r}
      /\ \A q \in Paths \ {p} : Fed(q)' = Fed(q) /\ FedOrFailed(q)' = FedOrFailed(q)
  <2>1. \A q \in Reqs : q # r => path'[q] = path[q] /\ phase'[q] = phase[q]
    BY <1>1 DEF TypeOK
  <2>2. path'[r] = p /\ phase'[r] = "start"
    BY <1>1, <1>2 DEF TypeOK
  <2> QED
    BY <1>1, <1>2, <2>1, <2>2 DEF ListenersOf, FedOrFailed, Fed, Running
<1>4. IsFiniteSet(subs)' /\ SessionInv' /\ FailInv'
  <2>1. IsFiniteSet(subs)'
    BY <1>1 DEF ListenerInv
  <2>2. SessionInv'
    <3> SUFFICES ASSUME NEW q \in Paths, session'[q] # 0 PROVE path'[session'[q]] = q
      BY DEF SessionInv
    <3>1. CASE q = p
      BY <1>1, <1>2, <3>1 DEF TypeOK
    <3>2. CASE q # p
      <4>1. session'[q] = session[q] /\ session[q] \in Reqs /\ session[q] # r
        BY <1>1, <1>2, <3>2 DEF TypeOK, Reqs
      <4> QED
        BY <1>1, <4>1 DEF TypeOK, ListenerInv, SessionInv
    <3> QED
      BY <3>1, <3>2
  <2>3. FailInv'
    BY <1>1, <1>2 DEF TypeOK, ListenerInv, FailInv
  <2> QED
    BY <2>1, <2>2, <2>3
<1>5. FirstLink' => EnoughWatches'
  <2> SUFFICES ASSUME FirstLink', NEW q \in Paths
               PROVE  Cardinality(ListenersOf(q)') + Len(UpOf({"unsubscribe"}, q)')
                          <= Cardinality(FedOrFailed(q)') + Len(UpOf({"subscribe"}, q)')
    BY DEF EnoughWatches
  <2>1. Cardinality(ListenersOf(q)) + Len(UpOf({"unsubscribe"}, q))
            <= Cardinality(FedOrFailed(q)) + Len(UpOf({"subscribe"}, q))
    BY <1>1 DEF ListenerInv, EnoughWatches, FirstLink
  <2>2. /\ Cardinality(ListenersOf(q)) \in Nat /\ Cardinality(FedOrFailed(q)) \in Nat
        /\ Len(UpOf({"unsubscribe"}, q)) \in Nat /\ Len(UpOf({"subscribe"}, q)) \in Nat
        /\ UpOf({"unsubscribe"}, q) \in Seq(UpMsg) /\ UpOf({"subscribe"}, q) \in Seq(UpMsg)
        /\ IsFiniteSet(FedOrFailed(q))
    BY ListenersFinite, FedFinite, UpInSeq DEF ListenerInv
  <2>3. UpOf({"unsubscribe"}, q)' = UpOf({"unsubscribe"}, q)
    BY <1>1, <1>0, UpTail
  <2>4. CASE q = p
    <3>1. Cardinality(FedOrFailed(q)') = Cardinality(FedOrFailed(q)) + 1
      BY <1>3, <2>2, <2>4, FS_AddElement
    <3>2. /\ UpOf({"subscribe"}, q) # <<>>
          /\ UpOf({"subscribe"}, q)' = Tail(UpOf({"subscribe"}, q))
      BY <1>1, <2>4, <1>0, UpTail
    <3>3. Len(UpOf({"subscribe"}, q)') = Len(UpOf({"subscribe"}, q)) - 1
      BY <2>2, <3>2, TailTurns
    <3> QED
      BY <1>3, <2>1, <2>2, <2>3, <3>1, <3>3
  <2>5. CASE q # p
    <3>1. UpOf({"subscribe"}, q)' = UpOf({"subscribe"}, q)
      BY <1>1, <2>5, <1>0, UpTail
    <3> QED
      BY <1>3, <2>1, <2>3, <2>5, <3>1
  <2> QED
    BY <2>4, <2>5
<1>6. FirstLink' /\ OneListenerEach => \A q \in Paths : TakesTurns(q)'
  <2> SUFFICES ASSUME FirstLink', OneListenerEach, NEW q \in Paths PROVE TakesTurns(q)'
    BY DEF OneListenerEach
  <2>1. TakesTurns(q)
    BY <1>1 DEF ListenerInv, FirstLink
  <2>2. CASE q # p
    <3>1. UpOf(Kinds, q)' = UpOf(Kinds, q) /\ session'[q] = session[q]
      BY <1>1, <2>2, <1>0, UpTail DEF TypeOK
    <3> QED
      BY <1>3, <2>1, <2>2, <3>1 DEF TakesTurns, Idle
  <2>3. CASE q = p
    <3> DEFINE s == UpOf(Kinds, q)
               t == UpOf(Kinds, q)'
    <3>1. s \in Seq(UpMsg) /\ s # <<>> /\ s[1] = Head(up) /\ t = Tail(s)
      BY <1>1, <2>3, UpInSeq, <1>0, UpTail DEF Kinds
    <3>2. /\ \A i \in 1 .. Len(s) - 1 : s[i].ev # s[i + 1].ev
          /\ s[Len(s)].ev = "subscribe" <=> ListenersOf(q) # {}
          /\ Fed(q) = {}
      BY <1>1, <2>1, <3>1 DEF TakesTurns, Idle
    <3> HIDE DEF s, t
    <3>3. /\ Len(s) \in Nat \ {0} /\ Len(t) = Len(s) - 1
          /\ t = <<>> <=> Len(s) = 1
          /\ \A i \in 1 .. Len(t) : t[i] = s[i + 1]
      BY <3>1, TailTurns
    <3>4. Fed(q)' = {r} /\ session'[q] = r /\ ListenersOf(q)' = ListenersOf(q)
      BY <1>1, <1>3, <2>3, <3>2 DEF TypeOK
    <3>5. \A i \in 1 .. Len(t) - 1 : t[i].ev # t[i + 1].ev
      <4>1. \A i \in 1 .. Len(t) - 1 : /\ i + 1 \in 1 .. Len(s) - 1
                                       /\ t[i] = s[i + 1] /\ t[i + 1] = s[i + 1 + 1]
        BY <3>3
      <4> QED
        BY <3>2, <4>1
    <3>6. t # <<>> => (t[Len(t)].ev = "subscribe" <=> ListenersOf(q)' # {})
      BY <3>2, <3>3, <3>4
    <3>7. IF t = <<>> THEN ListenersOf(q) # {} ELSE t[1].ev # "subscribe"
      <4>1. CASE t = <<>>
        BY <1>1, <3>1, <3>2, <3>3, <4>1
      <4>2. CASE t # <<>>
        <5>1. 1 \in 1 .. Len(s) - 1 /\ 1 \in 1 .. Len(t) /\ t[1] = s[1 + 1]
          BY <3>3, <4>2
        <5> QED
          BY <1>1, <3>1, <3>2, <5>1, <4>2
      <4> QED
        BY <4>1, <4>2
    <3> QED
      BY <3>4, <3>5, <3>6, <3>7 DEF TakesTurns, Idle, t
  <2> QED
    BY <2>2, <2>3
<1> QED
  BY <1>4, <1>5, <1>6 DEF ListenerInv

\* The first message is an unsubscribe: the watch of the session stops to feed
\* its path, at once or when its coroutine is done.
LEMMA OnUnsubscribeKeepsListeners ==
    ASSUME WatchInv, ListenerInv, OnUnsubscribe PROVE ListenerInv'
<1> USE DEF WatchInv
<1>0. /\ Head(up) \in UpMsg /\ Head(up).path \in Paths
      /\ session[Head(up).path] \in 0 .. MaxReq
  <2>1. up # <<>>
    BY DEF OnUnsubscribe
  <2>2. Head(up) \in UpMsg /\ Head(up).path \in Paths
    BY <2>1, HeadOfUp
  <2> QED
    BY <2>2 DEF TypeOK
<1> PICK p \in Paths : p = Head(up).path
  BY <1>0
<1> PICK r \in 0 .. MaxReq : r = session[p]
  BY <1>0
<1>1. /\ up # <<>> /\ up' = Tail(up) /\ Head(up).ev = "unsubscribe"
      /\ UNCHANGED <<replaying, sid, conns, subs, session, path>>
      /\ 0 \notin Reqs /\ (r # 0 => r \in Reqs /\ path[r] = p)
  <2>1. up # <<>> /\ up' = Tail(up) /\ Head(up).ev = "unsubscribe"
        /\ UNCHANGED <<replaying, sid, conns, subs, session, path>>
    BY DEF OnUnsubscribe, world, link, request
  <2>2. r # 0 => r \in Reqs /\ path[r] = p
    BY DEF ListenerInv, SessionInv, Reqs
  <2> QED
    BY <2>1, <2>2 DEF Reqs
<1>2. /\ \A q \in Reqs : q # r => phase'[q] = phase[q] /\ (q \in unsubs' <=> q \in unsubs)
      /\ r # 0 => r \in unsubs' \/ phase'[r] \notin Running \cup {"live"}
      /\ \A q \in Reqs : phase'[q] = "failed" => phase[q] = "failed"
  <2>1. \/ r = 0 /\ phase' = phase /\ unsubs' = unsubs
        \/ r # 0 /\ phase' = phase /\ unsubs' = unsubs \cup {r}
        \/ /\ r # 0 /\ phase[r] \notin Running /\ unsubs' = unsubs
           /\ phase' = [phase EXCEPT ![r] = IF @ = "live" THEN "disposed" ELSE @]
    BY DEF OnUnsubscribe, Detach
  <2>2. CASE r = 0 /\ phase' = phase /\ unsubs' = unsubs
    BY <1>1, <2>2
  <2>4. CASE r # 0 /\ phase' = phase /\ unsubs' = unsubs \cup {r}
    BY <1>1, <2>4
  <2>3. CASE /\ r # 0 /\ phase[r] \notin Running /\ unsubs' = unsubs
             /\ phase' = [phase EXCEPT ![r] = IF @ = "live" THEN "disposed" ELSE @]
    <3>1. r \in Reqs /\ \A q \in Reqs : q # r => phase'[q] = phase[q]
      BY <1>1, <2>3 DEF TypeOK
    <3>2. phase'[r] = IF phase[r] = "live" THEN "disposed" ELSE phase[r]
      BY <2>3, <3>1 DEF TypeOK
    <3> QED
      BY <2>3, <3>1, <3>2 DEF Running
  <2> QED
    BY <2>1, <2>2, <2>3, <2>4
<1>3. /\ \A q \in Paths : ListenersOf(q)' = ListenersOf(q)
      /\ FedOrFailed(p) \ {r} \subseteq FedOrFailed(p)'
      /\ Fed(p)' = Fed(p) \ {r}
      /\ \A q \in Paths \ {p} : Fed(q)' = Fed(q) /\ FedOrFailed(q)' = FedOrFailed(q)
  BY <1>1, <1>2 DEF ListenersOf, FedOrFailed, Fed, Running
<1>4. IsFiniteSet(subs)' /\ SessionInv' /\ FailInv'
  BY <1>1, <1>2 DEF ListenerInv, SessionInv, FailInv
<1>5. FirstLink' => EnoughWatches'
  <2> SUFFICES ASSUME FirstLink', NEW q \in Paths
               PROVE  Cardinality(ListenersOf(q)') + Len(UpOf({"unsubscribe"}, q)')
                          <= Cardinality(FedOrFailed(q)') + Len(UpOf({"subscribe"}, q)')
    BY DEF EnoughWatches
  <2>1. Cardinality(ListenersOf(q)) + Len(UpOf({"unsubscribe"}, q))
            <= Cardinality(FedOrFailed(q)) + Len(UpOf({"subscribe"}, q))
    BY <1>1 DEF ListenerInv, EnoughWatches, FirstLink
  <2>2. /\ Cardinality(ListenersOf(q)) \in Nat /\ Cardinality(FedOrFailed(q)) \in Nat
        /\ Len(UpOf({"unsubscribe"}, q)) \in Nat /\ Len(UpOf({"subscribe"}, q)) \in Nat
        /\ UpOf({"unsubscribe"}, q) \in Seq(UpMsg) /\ UpOf({"subscribe"}, q) \in Seq(UpMsg)
        /\ IsFiniteSet(FedOrFailed(q))
    BY ListenersFinite, FedFinite, UpInSeq DEF ListenerInv
  <2>3. UpOf({"subscribe"}, q)' = UpOf({"subscribe"}, q)
    BY <1>1, <1>0, UpTail
  <2>4. CASE q = p
    <3>1. Cardinality(FedOrFailed(q) \ {r}) >= Cardinality(FedOrFailed(q)) - 1
      <4>1. Cardinality(FedOrFailed(q) \ {r}) = IF r \in FedOrFailed(q)
                THEN Cardinality(FedOrFailed(q)) - 1 ELSE Cardinality(FedOrFailed(q))
        BY <2>2, FS_RemoveElement
      <4> QED
        BY <2>2, <4>1
    <3>2. IsFiniteSet(FedOrFailed(q)') /\ Cardinality(FedOrFailed(q)') \in Nat
      <4>1. IsFiniteSet(Reqs) /\ FedOrFailed(q)' \in SUBSET Reqs
        BY FS_Interval, WatchAssumption DEF Reqs, FedOrFailed
      <4>2. IsFiniteSet(FedOrFailed(q)')
        BY <4>1, FS_Subset
      <4> QED
        BY <4>2, FS_CardinalityType
    <3>3. Cardinality(FedOrFailed(q) \ {r}) <= Cardinality(FedOrFailed(q)')
      BY <1>3, <2>4, <3>2, FS_Subset
    <3>4. /\ UpOf({"unsubscribe"}, q) # <<>>
          /\ UpOf({"unsubscribe"}, q)' = Tail(UpOf({"unsubscribe"}, q))
      BY <1>1, <2>4, <1>0, UpTail
    <3>5. Len(UpOf({"unsubscribe"}, q)') = Len(UpOf({"unsubscribe"}, q)) - 1
      BY <2>2, <3>4, TailTurns
    <3>6. Cardinality(FedOrFailed(q) \ {r}) \in Nat
      <4>1. IsFiniteSet(FedOrFailed(q) \ {r})
        BY <2>2, FS_RemoveElement
      <4> QED
        BY <4>1, FS_CardinalityType
    <3> QED
      BY <1>3, <2>1, <2>2, <2>3, <3>1, <3>2, <3>3, <3>5, <3>6
  <2>5. CASE q # p
    <3>1. UpOf({"unsubscribe"}, q)' = UpOf({"unsubscribe"}, q)
      BY <1>1, <2>5, <1>0, UpTail
    <3> QED
      BY <1>3, <2>1, <2>3, <2>5, <3>1
  <2> QED
    BY <2>4, <2>5
<1>6. FirstLink' /\ OneListenerEach => \A q \in Paths : TakesTurns(q)'
  <2> SUFFICES ASSUME FirstLink', OneListenerEach, NEW q \in Paths PROVE TakesTurns(q)'
    BY DEF OneListenerEach
  <2>1. TakesTurns(q)
    BY <1>1 DEF ListenerInv, FirstLink
  <2>2. CASE q # p
    <3>1. UpOf(Kinds, q)' = UpOf(Kinds, q) /\ session'[q] = session[q]
      BY <1>1, <2>2, <1>0, UpTail
    <3> QED
      BY <1>3, <2>1, <2>2, <3>1 DEF TakesTurns, Idle
  <2>3. CASE q = p
    <3> DEFINE s == UpOf(Kinds, q)
               t == UpOf(Kinds, q)'
    <3>1. s \in Seq(UpMsg) /\ s # <<>> /\ t = Tail(s)
      BY <1>1, <2>3, UpInSeq, <1>0, UpTail DEF Kinds
    <3>2. /\ \A i \in 1 .. Len(s) - 1 : s[i].ev # s[i + 1].ev
          /\ s[Len(s)].ev = "subscribe" <=> ListenersOf(q) # {}
          /\ Fed(q) \subseteq {session[q]}
      BY <1>1, <2>1, <3>1 DEF TakesTurns
    <3> HIDE DEF s, t
    <3>3. /\ Len(s) \in Nat \ {0} /\ Len(t) = Len(s) - 1
          /\ t = <<>> <=> Len(s) = 1
          /\ \A i \in 1 .. Len(t) : t[i] = s[i + 1]
      BY <3>1, TailTurns
    <3>4. Fed(q)' = {} /\ ListenersOf(q)' = ListenersOf(q)
      BY <1>3, <2>3, <3>2
    <3>5. \A i \in 1 .. Len(t) - 1 : t[i].ev # t[i + 1].ev
      <4>1. \A i \in 1 .. Len(t) - 1 : /\ i + 1 \in 1 .. Len(s) - 1
                                       /\ t[i] = s[i + 1] /\ t[i + 1] = s[i + 1 + 1]
        BY <3>3
      <4> QED
        BY <3>2, <4>1
    <3>6. t # <<>> => (t[Len(t)].ev = "subscribe" <=> ListenersOf(q)' # {})
      BY <3>2, <3>3, <3>4
    <3> QED
      BY <3>4, <3>5, <3>6 DEF TakesTurns, Idle, t
  <2> QED
    BY <2>2, <2>3
<1> QED
  BY <1>4, <1>5, <1>6 DEF ListenerInv

LEMMA ListenerStep ==
    ASSUME WatchInv, ListenerInv, [Next]_vars PROVE ListenerInv'
<1>1. CASE UNCHANGED vars
  <2>1. Calm
    BY <1>1 DEF vars, Calm, world, link, request, client, FirstLink
  <2> QED
    BY <2>1, CalmKeeps
<1>2. CASE Next
  BY <1>2, CalmKeeps, WorldIsCalm, ConnectIsCalm, ReceiveIsCalm, EmitIsCalm, HandleIsCalm,
     ResumesIsCalm, CoroutineIsCalm, DisconnectKeepsListeners, SubscribeKeepsListeners,
     OnSubscribeKeepsListeners, OnUnsubscribeKeepsListeners DEF Next, Browser, Server
<1> QED
  BY <1>1, <1>2

LEMMA ListenerInvariant == Spec => [](WatchInv /\ ListenerInv)
<1>1. Spec => []WatchInv
  BY WatchInvariant
<1>2. Init => ListenerInv
  BY ListenerInit
<1>3. WatchInv /\ ListenerInv /\ [Next]_vars => ListenerInv'
  BY ListenerStep
<1> QED
  BY <1>1, <1>2, <1>3, PTL DEF Spec

LEMMA OwnedByLink ==
    ASSUME WatchInv, sid # 0, conns = 1, NEW r \in Reqs, phase[r] # "none"
    PROVE  owner[r] = sid
BY DEF WatchInv, TypeOK, RequestInv

\* On a connection that never broke, with every unsubscribe handled, no path has
\* more listeners than watches that feed it: whatever order listeners come and go
\* in, and however many share the entry of the session (_on_subscribe and
\* _on_unsubscribe of fast_io).
THEOREM NobodyStarves == Spec => []NoListenerStarves
<1>1. WatchInv /\ ListenerInv => NoListenerStarves
  <2> SUFFICES ASSUME WatchInv, ListenerInv, sid # 0, conns = 1, ~WatchMayFail, up = <<>>,
                      unsubs = {}, NEW p \in Paths
               PROVE  Cardinality({l \in subs : PathOf[l] = p}) <= Cardinality(Feeding(p))
    BY DEF NoListenerStarves
  <2>1. Cardinality(ListenersOf(p)) + Len(UpOf({"unsubscribe"}, p))
            <= Cardinality(FedOrFailed(p)) + Len(UpOf({"subscribe"}, p))
    BY DEF ListenerInv, EnoughWatches, FirstLink
  <2>2. Len(UpOf({"unsubscribe"}, p)) = 0 /\ Len(UpOf({"subscribe"}, p)) = 0
    BY KeptEmpty DEF UpOf
  <2>3. Cardinality(ListenersOf(p)) \in Nat /\ Cardinality(FedOrFailed(p)) \in Nat
    BY ListenersFinite, FedFinite DEF ListenerInv
  <2>4. FedOrFailed(p) = Feeding(p)
    BY OwnedByLink DEF FedOrFailed, Feeding, ListenerInv, FailInv, Running
  <2> QED
    BY <2>1, <2>2, <2>3, <2>4 DEF ListenersOf
<1> QED
  BY <1>1, ListenerInvariant, PTL

\* When every listener has a path of its own, a path without a listener has no
\* watch left once its unsubscribe was handled: the next subscribe of a path is
\* handled only after the unsubscribe of the one before, so that the entry of the
\* session names the watch to detach.  (With two listeners it is false.)
THEOREM SilentAfterUnsubscribe ==
    ASSUME OneListenerEach PROVE Spec => []UnsubscribedIsSilent
<1>1. WatchInv /\ ListenerInv => UnsubscribedIsSilent
  <2> SUFFICES ASSUME WatchInv, ListenerInv, sid # 0, conns = 1, up = <<>>, unsubs = {},
                      NEW p \in Paths, \A l \in subs : PathOf[l] # p
               PROVE  Feeding(p) = {}
    BY DEF UnsubscribedIsSilent
  <2>1. TakesTurns(p)
    BY DEF ListenerInv, FirstLink
  <2>2. UpOf(Kinds, p) = <<>> /\ ListenersOf(p) = {}
    BY KeptEmpty DEF UpOf, ListenersOf
  <2>3. Fed(p) = {}
    BY <2>1, <2>2 DEF TakesTurns, Idle
  <2> QED
    BY <2>3 DEF Fed, Feeding
<1> QED
  BY <1>1, ListenerInvariant, PTL

-----------------------------------------------------------------------------
(* What is proved of every channel holds of every watch.                   *)

InOrder == INSTANCE FeedProofs WITH
    Subjects <- Paths, Watches <- Reqs, line <- sid, home <- owner,
    current <- pub, about <- path, seen <- got,
    stage <- Stages, transit <- Transit

LEMMA SameFeed == Channel!FeedSpec <=> InOrder!FeedSpec
<1>1. Channel!FeedInit <=> InOrder!FeedInit
  BY DEF Channel!FeedInit, InOrder!FeedInit
<1>2. [Channel!FeedNext]_(Channel!feedVars) <=> [InOrder!FeedNext]_(InOrder!feedVars)
  <2>1. Channel!feedVars = InOrder!feedVars
    BY DEF Channel!feedVars, InOrder!feedVars
  <2>2. UNCHANGED Channel!feedVars <=> UNCHANGED InOrder!feedVars
    BY DEF Channel!feedVars, InOrder!feedVars
  <2>3. Channel!FeedNext <=> InOrder!FeedNext
    BY Zenon DEF Channel!FeedNext, InOrder!FeedNext, Channel!NewLine, InOrder!NewLine,
       Channel!Break, InOrder!Break, Channel!PublishState, InOrder!PublishState,
       Channel!Arrive, InOrder!Arrive, Channel!Lose, InOrder!Lose,
       Channel!OfferEarlier, InOrder!OfferEarlier, Channel!Open, InOrder!Open,
       Channel!Close, InOrder!Close, Channel!AskFor, InOrder!AskFor
  <2> QED
    BY <2>2, <2>3
<1> QED
  BY <1>1, <1>2, PTL DEF Channel!FeedSpec, InOrder!FeedSpec


\* index.ts, fast_io and routes/utils.py: what is on its way to a watch, in
\* whatever queue, task or message, is published, in order, and newer than all the
\* browser has seen of it.
THEOREM WatchesStayInOrder == Spec => []InOrder!FeedInv
<1>1. Spec => InOrder!FeedSpec
  BY WatchImplementsFeed, SameFeed DEF ImplementsFeed
<1>2. InOrder!FeedSpec => []InOrder!FeedInv
  BY InOrder!FeedInOrder
<1> QED
  BY <1>1, <1>2, PTL

\* SioClient never gets an older state of a watch, nor one twice.
THEOREM WatchesNeverGoBack == Spec => [][InOrder!SeenGrows]_(InOrder!feedVars)
<1>1. Spec => InOrder!FeedSpec
  BY WatchImplementsFeed, SameFeed DEF ImplementsFeed
<1>2. InOrder!FeedSpec => [][InOrder!SeenGrows]_(InOrder!feedVars)
  BY InOrder!NeverGoesBack
<1> QED
  BY <1>1, <1>2, PTL

-----------------------------------------------------------------------------
(* What listeners are shown.                                               *)

Started == {"sent", "live", "disposed"}

AskOf(p) == [ev |-> "subscribe", path |-> p]

\* The newest state of r, under way or arrived.
Newest(r) == IF Transit[r] = <<>> THEN got[r] ELSE Transit[r][Len(Transit[r])]

\* A watch whose read raised sends nothing; one that attached did so after its
\* read and before now.
QuietInv ==
    \A r \in Reqs :
        /\ phase[r] = "failed" => Wire(r) = <<>> /\ Tasks(r) = <<>>
        /\ phase[r] \in {"live", "disposed"} => snap[r] <= from[r] /\ from[r] <= pub[path[r]]

\* The newest state of a watch is the row it read, until something is published
\* or replayed; a row that was read arrives.
DeliveryInv ==
    \A r \in Reqs :
        /\ phase[r] = "sent" => Newest(r) = snap[r]
        /\ phase[r] = "live" =>
              Newest(r) = IF from[r] < pub[path[r]] \/ path[r] \in replaying
                          THEN pub[path[r]] ELSE snap[r]
        /\ phase[r] \in Started /\ snap[r] # 0 => got[r] # 0 \/ Wire(r) # <<>>

\* A listener shows what the watch that called it last got last.
ToldInv ==
    \A l \in subs :
        IF told[l] = 0 THEN latest[l] = 0
        ELSE /\ told[l] \in Reqs /\ path[told[l]] = PathOf[l] /\ phase[told[l]] \in Started
             /\ latest[l] = got[told[l]]

\* Nothing of a path was seen that was published after r attached.
BeforeAll(r) == \A q \in Reqs : path[q] = path[r] => got[q] <= from[r]

\* A listener that was not called yet is asked for, or waits for a watch that has
\* sent it nothing.
Awaits(l, r) ==
    /\ path[r] = PathOf[l] /\ phase[r] # "none" /\ got[r] = 0
    /\ phase[r] \in {"live", "disposed"} => BeforeAll(r)

WaitInv ==
    \A l \in subs : told[l] = 0 => AskOf(PathOf[l]) \in Elems(up) \/ \E r \in Reqs : Awaits(l, r)

FreshInv == QuietInv /\ ToldInv /\ (FirstLink => DeliveryInv /\ WaitInv)

LEMMA SeenFacts ==
    ASSUME WatchInv, InOrder!FeedInv, NEW r \in Reqs
    PROVE  /\ got[r] \in Nat /\ path[r] \in Paths /\ pub[path[r]] \in Nat /\ got[r] <= pub[path[r]]
           /\ from[r] \in Nat /\ snap[r] \in Nat
           /\ phase[r] \in Unattached => Transit[r] = <<>> /\ got[r] = 0
<1>1. /\ got[r] \in Nat /\ path[r] \in Paths /\ pub[path[r]] \in Nat
      /\ from[r] \in Nat /\ snap[r] \in Nat
  BY DEF WatchInv, TypeOK
<1>2. got[r] <= pub[path[r]]
  BY DEF InOrder!FeedInv, InOrder!SeenIsPublished
<1>3. phase[r] \in Unattached => Stages[r] = "new"
  BY DEF Stages, StageOf, Unattached
<1>4. Stages[r] = "new" => Transit[r] = <<>> /\ got[r] = 0
  BY DEF InOrder!FeedInv, InOrder!NewIsEmpty
<1> QED
  BY <1>1, <1>2, <1>3, <1>4

LEMMA FreshInit == Init => FreshInv
<1> SUFFICES ASSUME Init PROVE FreshInv
  OBVIOUS
<1> QED
  BY DEF Init, FreshInv, QuietInv, ToldInv, DeliveryInv, WaitInv, Started

\* Steps that send, publish and attach nothing, and call nobody.
Undisturbed ==
    /\ UNCHANGED <<replaying, pub, got, latest, told>>
    /\ subs' \subseteq subs /\ (FirstLink' => FirstLink)
    /\ \A r \in Reqs :
          /\ phase'[r] = "failed" => Wire(r)' = <<>> /\ Tasks(r)' = <<>>
          /\ phase[r] # "none" => phase'[r] # "none" /\ path'[r] = path[r]
          /\ phase[r] \in Started => phase'[r] \in Started
          /\ phase'[r] \in Started =>
                /\ phase'[r] = phase[r] \/ (phase[r] = "live" /\ phase'[r] = "disposed")
                /\ snap'[r] = snap[r] /\ from'[r] = from[r]
                /\ FirstLink' => /\ Wire(r) # <<>> => Wire(r)' # <<>>
                                 /\ phase'[r] # "disposed" => Transit'[r] = Transit[r]
    /\ FirstLink' =>
          \A p \in Paths : AskOf(p) \in Elems(up) =>
              \/ AskOf(p) \in Elems(up')
              \/ \E r \in Reqs : path'[r] = p /\ phase'[r] = "start" /\ got[r] = 0

LEMMA UndisturbedKeeps ==
    ASSUME WatchInv, WatchInv', InOrder!FeedInv, InOrder!FeedInv', FreshInv, Undisturbed
    PROVE  FreshInv'
<1>1. QuietInv'
  <2> SUFFICES ASSUME NEW r \in Reqs
               PROVE  /\ phase'[r] = "failed" => Wire(r)' = <<>> /\ Tasks(r)' = <<>>
                      /\ phase'[r] \in {"live", "disposed"} =>
                            snap'[r] <= from'[r] /\ from'[r] <= pub'[path'[r]]
    BY DEF QuietInv
  <2> QED
    BY DEF Undisturbed, FreshInv, QuietInv, Started
<1>2. ToldInv'
  <2> SUFFICES ASSUME NEW l \in subs'
               PROVE  IF told[l] = 0 THEN latest[l] = 0
                      ELSE /\ told[l] \in Reqs /\ path'[told[l]] = PathOf[l]
                           /\ phase'[told[l]] \in Started /\ latest[l] = got[told[l]]
    BY DEF ToldInv, Undisturbed
  <2> QED
    BY DEF Undisturbed, FreshInv, ToldInv, Started
<1>3. ASSUME FirstLink' PROVE DeliveryInv'
  <2> SUFFICES ASSUME NEW r \in Reqs
               PROVE  /\ phase'[r] = "sent" => Newest(r)' = snap'[r]
                      /\ phase'[r] = "live" =>
                            Newest(r)' = IF from'[r] < pub'[path'[r]] \/ path'[r] \in replaying'
                                         THEN pub'[path'[r]] ELSE snap'[r]
                      /\ phase'[r] \in Started /\ snap'[r] # 0 => got'[r] # 0 \/ Wire(r)' # <<>>
    BY DEF DeliveryInv
  <2>1. CASE phase'[r] \notin Started
    BY <2>1 DEF Started
  <2>2. CASE phase'[r] \in Started
    <3>1. /\ phase'[r] = phase[r] \/ (phase[r] = "live" /\ phase'[r] = "disposed")
          /\ path'[r] = path[r] /\ snap'[r] = snap[r] /\ from'[r] = from[r]
          /\ Wire(r) # <<>> => Wire(r)' # <<>>
          /\ phase'[r] # "disposed" => Transit'[r] = Transit[r]
          /\ replaying' = replaying /\ pub' = pub /\ got' = got
      BY <1>3, <2>2 DEF Undisturbed, Started
    <3>2. phase'[r] # "disposed" => Newest(r)' = Newest(r)
      BY <3>1 DEF Newest
    <3>3. DeliveryInv
      BY <1>3 DEF Undisturbed, FreshInv
    <3> QED
      BY <3>1, <3>2, <3>3 DEF DeliveryInv, Started
  <2> QED
    BY <2>1, <2>2
<1>4. ASSUME FirstLink' PROVE WaitInv'
  <2> SUFFICES ASSUME NEW l \in subs', told'[l] = 0
               PROVE  AskOf(PathOf[l]) \in Elems(up') \/ \E r \in Reqs : Awaits(l, r)'
    BY DEF WaitInv
  <2>1. l \in subs /\ told[l] = 0 /\ PathOf[l] \in Paths /\ WaitInv
    BY <1>4, WatchAssumption DEF Undisturbed, FreshInv, WatchInv, TypeOK
  <2>2. CASE AskOf(PathOf[l]) \in Elems(up)
    <3>1. CASE \E r \in Reqs : path'[r] = PathOf[l] /\ phase'[r] = "start" /\ got[r] = 0
      BY <3>1 DEF Awaits, Undisturbed
    <3> QED
      BY <1>4, <2>1, <2>2, <3>1 DEF Undisturbed
  <2>3. ASSUME NEW r \in Reqs, Awaits(l, r) PROVE Awaits(l, r)'
    <3>1. phase'[r] # "none" /\ path'[r] = path[r] /\ got' = got
      BY <2>3 DEF Awaits, Undisturbed
    <3>2. ASSUME phase'[r] \in {"live", "disposed"}, NEW q \in Reqs, path'[q] = path[r]
          PROVE  got[q] <= from'[r]
      <4>1. phase[r] \in {"live", "disposed"} /\ from'[r] = from[r]
        BY <3>2 DEF Undisturbed, Started
      <4>2. CASE phase[q] = "none"
        BY <4>1, <4>2, SeenFacts DEF Unattached
      <4>3. CASE phase[q] # "none"
        BY <2>3, <3>2, <4>1, <4>3 DEF Awaits, BeforeAll, Undisturbed
      <4> QED
        BY <4>2, <4>3
    <3> QED
      BY <2>3, <3>1, <3>2 DEF Awaits, BeforeAll
  <2> QED
    BY <2>1, <2>2, <2>3 DEF WaitInv
<1> QED
  BY <1>1, <1>2, <1>3, <1>4 DEF FreshInv

\* Steps that touch neither requests nor what is on its way.
LEMMA OutsideUndisturbed ==
    ASSUME WatchInv, FreshInv,
           \/ \E p \in Paths : Save(p)
           \/ \E l \in Listeners : Unsubscribe(l)
           \/ Connect \/ Disconnect
    PROVE  Undisturbed
<1>1. /\ UNCHANGED <<replaying, pub, got, latest, told, phase, path, snap, from, queue, emits>>
      /\ subs' \subseteq subs /\ (down' = down \/ down' = <<>>) /\ (FirstLink' => FirstLink)
      /\ FirstLink' => down' = down
  <2>1. CASE \E p \in Paths : Save(p)
    BY <2>1 DEF Save, link, request, client, shown, FirstLink
  <2>2. CASE \E l \in Listeners : Unsubscribe(l)
    BY <2>2 DEF Unsubscribe, world, link, request, shown, FirstLink
  <2>3. CASE Connect
    BY <2>3 DEF Connect, world, request, client, shown, FirstLink, WatchInv, TypeOK
  <2>4. CASE Disconnect
    <3>1. ~FirstLink'
      BY <2>4 DEF Disconnect, FirstLink, WatchInv, RequestInv
    <3> QED
      BY <2>4, <3>1 DEF Disconnect, world, request, shown
  <2> QED
    BY <2>1, <2>2, <2>3, <2>4
<1>2. \A r \in Reqs : /\ Tasks(r)' = Tasks(r) /\ (Wire(r)' = Wire(r) \/ Wire(r)' = <<>>)
                      /\ FirstLink' => Wire(r)' = Wire(r) /\ Transit'[r] = Transit[r]
  BY <1>1, VersEmpty DEF Wire, Tasks, Transit
<1>3. ASSUME FirstLink', NEW p \in Paths, AskOf(p) \in Elems(up) PROVE AskOf(p) \in Elems(up')
  <2>1. up' = up \/ \E l \in Listeners : up' = Append(up, [ev |-> "unsubscribe", path |-> PathOf[l]])
    BY <1>3 DEF Save, Unsubscribe, Connect, Disconnect, client, FirstLink, WatchInv, TypeOK, RequestInv
  <2>2. CASE up' = up
    BY <1>3, <2>2
  <2>3. ASSUME NEW m \in UpMsg, up' = Append(up, m) PROVE AskOf(p) \in Elems(up')
    <3>1. up \in Seq(UpMsg)
      BY DEF WatchInv, TypeOK
    <3>2. Elems(up') = Elems(up) \cup {m}
      BY <2>3, <3>1, AppendElems
    <3> QED
      BY <1>3, <3>2
  <2>4. \A l \in Listeners : [ev |-> "unsubscribe", path |-> PathOf[l]] \in UpMsg
    BY WatchAssumption DEF UpMsg
  <2> QED
    BY <2>1, <2>2, <2>3, <2>4
<1> QED
  BY <1>1, <1>2, <1>3 DEF Undisturbed, Started, FreshInv, QuietInv

\* The elements of a sequence but for its first.
LEMMA RestOf ==
    ASSUME NEW A, NEW s \in Seq(A), s # <<>>
    PROVE  Elems(s) \subseteq {Head(s)} \cup Elems(Tail(s))
<1>1. /\ Len(s) \in Nat \ {0} /\ Head(s) = s[1] /\ Len(Tail(s)) = Len(s) - 1
      /\ \A i \in 1 .. Len(s) - 1 : Tail(s)[i] = s[i + 1]
  OBVIOUS
<1> DEFINE n == Len(s)
           t == Tail(s)
<1>2. Len(t) = n - 1 /\ n \in Nat \ {0} /\ \A i \in 1 .. n - 1 : t[i] = s[i + 1]
  BY <1>1
<1> HIDE DEF n, t
<1>3. ASSUME NEW i \in 1 .. n, i # 1 PROVE s[i] \in Elems(t)
  <2>1. i - 1 \in 1 .. n - 1 /\ s[(i - 1) + 1] = s[i]
    BY <1>2, <1>3
  <2>2. t[i - 1] = s[i]
    BY <1>2, <2>1
  <2> QED
    BY <1>2, <2>1, <2>2 DEF Elems
<1> QED
  BY <1>1, <1>3 DEF Elems, n, t

LEMMA OnSubscribeUndisturbed ==
    ASSUME WatchInv, WatchInv', InOrder!FeedInv, FreshInv, OnSubscribe PROVE Undisturbed
<1> PICK p \in Paths : p = Head(up).path
  <2>1. up # <<>>
    BY DEF OnSubscribe
  <2> QED
    BY <2>1, HeadOfUp
<1> PICK r \in Reqs : r = made + 1
  <2>1. made' = made + 1 /\ made' \in 0 .. MaxReq /\ made \in Nat
    <3>1. made' = made + 1
      BY DEF OnSubscribe
    <3>2. made' \in 0 .. MaxReq /\ made \in Nat
      BY DEF WatchInv, TypeOK
    <3> QED
      BY <3>1, <3>2
  <2> QED
    BY <2>1 DEF Reqs
<1>1. /\ UNCHANGED <<replaying, sid, conns, pub, got, latest, told, subs, snap, from, queue, emits, down>>
      /\ path' = [path EXCEPT ![r] = p] /\ phase' = [phase EXCEPT ![r] = "start"]
      /\ up # <<>> /\ up' = Tail(up)
  BY DEF OnSubscribe, world, link, shown
<1>2. phase[r] = "none" /\ got[r] = 0
  <2>1. ~(r <= made)
    BY DEF WatchInv, TypeOK
  <2>2. phase[r] = "none"
    BY <2>1 DEF WatchInv, RequestInv
  <2> QED
    BY <2>2, SeenFacts DEF Unattached
<1>3. \A q \in Reqs : q # r => path'[q] = path[q] /\ phase'[q] = phase[q]
  BY <1>1 DEF WatchInv, TypeOK
<1>4. path'[r] = p /\ phase'[r] = "start"
  BY <1>1 DEF WatchInv, TypeOK
<1>5. \A q \in Reqs : Wire(q)' = Wire(q) /\ Tasks(q)' = Tasks(q) /\ Transit'[q] = Transit[q]
  BY <1>1 DEF Wire, Tasks, Transit
<1>6. ASSUME NEW q \in Paths, AskOf(q) \in Elems(up), AskOf(q) \notin Elems(up') PROVE q = p
  <2>1. up \in Seq(UpMsg)
    BY DEF WatchInv, TypeOK
  <2>2. AskOf(q) = Head(up)
    BY <1>1, <1>6, <2>1, RestOf
  <2> QED
    BY <2>2 DEF AskOf
<1> QED
  BY <1>1, <1>2, <1>3, <1>4, <1>5, <1>6 DEF Undisturbed, Started, FreshInv, QuietInv, FirstLink

\* Detaching leaves the channels of the other watches alone.
LEMMA DetachUndisturbed ==
    ASSUME WatchInv, WatchInv', FreshInv, Loosened,
           UNCHANGED <<replaying, sid, conns, pub, got, latest, told, subs, snap, from, path,
                       emits, down>>,
           \A r \in Reqs : phase'[r] = "live" => queue'[r] = queue[r],
           \A p \in Paths : AskOf(p) \in Elems(up) => AskOf(p) \in Elems(up')
    PROVE  Undisturbed
<1>1. \A r \in Reqs : Wire(r)' = Wire(r) /\ Tasks(r)' = Tasks(r)
  BY DEF Wire, Tasks
<1>2. ASSUME NEW r \in Reqs, phase'[r] # "disposed", phase'[r] \in Started
      PROVE  Transit'[r] = Transit[r]
  <2>1. phase'[r] = phase[r] /\ (queue'[r] = queue[r] \/ queue'[r] = <<>>)
    BY <1>2 DEF Loosened
  <2>2. CASE queue'[r] = queue[r]
    BY <1>1, <2>2, TransitSame DEF WatchInv
  <2>3. CASE phase'[r] # "live"
    <3>1. queue[r] = <<>> /\ queue'[r] = <<>>
      BY <2>1, <2>3 DEF WatchInv, TransitInv
    <3> QED
      BY <1>1, <3>1, TransitSame DEF WatchInv
  <2> QED
    BY <2>1, <2>2, <2>3
<1> QED
  BY <1>1, <1>2 DEF Undisturbed, Loosened, Started, FreshInv, QuietInv, FirstLink

LEMMA OnUnsubscribeUndisturbed ==
    ASSUME WatchInv, WatchInv', FreshInv,
           OnUnsubscribe \/ \E r \in Reqs : UnsubscribeResumes(r)
    PROVE  Undisturbed
<1>1. UNCHANGED <<replaying, sid, conns, pub, got, latest, told, subs, snap, from, path,
                  emits, down>>
  BY DEF OnUnsubscribe, UnsubscribeResumes, world, link, request, client, shown
<1>2. \/ phase' = phase /\ queue' = queue
      \/ \E r \in Reqs : Detach(r) /\ phase[r] \notin Running
  <2>1. CASE OnUnsubscribe
    <3>1. PICK r \in 0 .. MaxReq : r = session[Head(up).path]
      <4>1. up # <<>>
        BY <2>1 DEF OnUnsubscribe
      <4>2. Head(up).path \in Paths
        BY <4>1, HeadOfUp
      <4> QED
        BY <4>2 DEF WatchInv, TypeOK
    <3>2. (phase' = phase /\ queue' = queue) \/ (r # 0 /\ Detach(r) /\ phase[r] \notin Running)
      BY <2>1, <3>1 DEF OnUnsubscribe
    <3>3. r # 0 => r \in Reqs
      BY <3>1 DEF Reqs
    <3> QED
      BY <3>2, <3>3
  <2>2. CASE \E r \in Reqs : UnsubscribeResumes(r)
    BY <2>2 DEF UnsubscribeResumes
  <2> QED
    BY <2>1, <2>2
<1>3. Loosened
  BY <1>2, DetachLoosens, StayLoosens DEF WatchInv
<1>4. \A r \in Reqs : phase'[r] = "live" => queue'[r] = queue[r]
  <2>1. ASSUME NEW q \in Reqs, Detach(q), NEW r \in Reqs, phase'[r] = "live"
        PROVE  queue'[r] = queue[r]
    BY <2>1 DEF Detach, WatchInv, TypeOK
  <2> QED
    BY <1>2, <2>1
<1>5. ASSUME NEW p \in Paths, AskOf(p) \in Elems(up) PROVE AskOf(p) \in Elems(up')
  <2>1. CASE OnUnsubscribe
    <3>1. /\ up \in Seq(UpMsg) /\ up # <<>> /\ up' = Tail(up) /\ Head(up).ev = "unsubscribe"
          /\ AskOf(p).ev = "subscribe"
      BY <2>1 DEF OnUnsubscribe, WatchInv, TypeOK, AskOf
    <3>2. AskOf(p) \in {Head(up)} \cup Elems(up')
      BY <1>5, <3>1, RestOf
    <3> QED
      BY <3>1, <3>2
  <2>2. CASE \E r \in Reqs : UnsubscribeResumes(r)
    BY <1>5, <2>2 DEF UnsubscribeResumes, client
  <2> QED
    BY <2>1, <2>2
<1> QED
  BY <1>1, <1>3, <1>4, <1>5, DetachUndisturbed

\* Every request that was made is of the connection that never broke.
LEMMA OfFirstLink ==
    ASSUME WatchInv, FirstLink, NEW r \in Reqs, phase[r] # "none" PROVE owner[r] = sid
BY DEF WatchInv, TypeOK, RequestInv, FirstLink

\* An event goes from observe_on to its task, and from the task to the wire.
LEMMA MovesUndisturbed ==
    ASSUME WatchInv, WatchInv', FreshInv, Emit \/ \E q \in Reqs : Handle(q)
    PROVE  Undisturbed
<1>1. /\ UNCHANGED <<replaying, sid, conns, pub, got, latest, told, subs, snap, from, path, up,
                     phase, owner>>
  BY DEF Emit, Handle, world, link, request, client, shown
<1>2. CASE \E q \in Reqs : Handle(q)
  <2>1. PICK q \in Reqs : Handle(q)
    BY <1>2
  <2>2. UNCHANGED Channel!feedVars
    BY <2>1, HandleFeeds
  <2>3. \A r \in Reqs : Wire(r)' = Wire(r) /\ Transit'[r] = Transit[r]
    BY <2>1, <2>2 DEF Handle, Wire, Channel!feedVars
  <2>4. \A r \in Reqs : phase[r] = "failed" => Tasks(r)' = Tasks(r)
    <3> DEFINE m == [req |-> q, ver |-> Head(queue[q])]
    <3>1. queue[q] \in Seq(Vers) /\ queue[q] # <<>> /\ emits \in Seq(Msg)
      BY <2>1 DEF Handle, WatchInv, TypeOK
    <3>2. Head(queue[q]) \in Vers
      BY <3>1
    <3>3. m \in Msg /\ m.req = q /\ emits' = Append(emits, m)
      BY <2>1, <3>2 DEF Handle, Msg
    <3>4. phase[q] = "live"
      BY <3>1 DEF WatchInv, TransitInv
    <3> HIDE DEF m
    <3> QED
      BY <3>1, <3>3, <3>4, VersAppend DEF Tasks
  <2> QED
    BY <1>1, <2>3, <2>4 DEF Undisturbed, Started, FreshInv, QuietInv, FirstLink
<1>3. CASE Emit
  <2>1. PICK q \in Reqs, v \in Vers : q = Head(emits).req /\ v = Head(emits).ver /\ SendTo(q, v)
    <3>1. Head(emits) \in Msg
      BY <1>3 DEF Emit, WatchInv, TypeOK
    <3> QED
      BY <1>3, <3>1, VerOfMsg DEF Emit
  <2>2. emits # <<>> /\ emits \in Seq(Msg) /\ emits' = Tail(emits)
    BY <1>3 DEF Emit, WatchInv, TypeOK
  <2>3. /\ \A r \in Reqs : r # q \/ owner[q] # sid => Wire(r)' = Wire(r)
        /\ owner[q] = sid => Wire(q)' = Append(Wire(q), v)
    BY <2>1, SendTransit DEF Wire, WatchInv
  <2>4. Tasks(q) # <<>> /\ \A r \in Reqs : r # q => Tasks(r)' = Tasks(r)
    BY <2>1, <2>2, VersTail DEF Tasks
  <2>5. \A r \in Reqs : phase[r] = "failed" => r # q
    BY <2>4 DEF FreshInv, QuietInv
  <2>6. \A r \in Reqs : Wire(r) # <<>> => Wire(r)' # <<>>
    <3>1. Wire(q) \in Seq(Vers)
      BY TransitParts DEF WatchInv
    <3>2. Append(Wire(q), v) # <<>>
      BY <3>1
    <3> QED
      BY <2>3, <3>2
  <2>7. ASSUME FirstLink, NEW r \in Reqs, phase[r] # "none" PROVE Transit'[r] = Transit[r]
    <3>1. CASE UNCHANGED Channel!feedVars
      BY <3>1 DEF Channel!feedVars
    <3>2. ASSUME NEW s \in Reqs, Channel!Lose(s) PROVE Transit'[r] = Transit[r]
      <4>1. owner[r] = sid
        BY <2>7, OfFirstLink
      <4>2. s # r /\ Transit' = [Transit EXCEPT ![s] = Tail(@)]
        BY <3>2, <4>1 DEF Channel!Lose
      <4> QED
        BY <4>2, TransitParts DEF WatchInv
    <3> QED
      BY <1>3, <3>1, <3>2, EmitFeeds
  <2> QED
    BY <1>1, <2>3, <2>4, <2>5, <2>6, <2>7 DEF Undisturbed, Started, FreshInv, QuietInv, FirstLink
<1> QED
  BY <1>2, <1>3

\* The row is read, or its read raises.
LEMMA ReadUndisturbed ==
    ASSUME WatchInv, WatchInv', FreshInv, NEW q \in Reqs, phase[q] = "start",
           \/ phase' = [phase EXCEPT ![q] = "read"] /\ \A r \in Reqs : r # q => snap'[r] = snap[r]
           \/ phase' = [phase EXCEPT ![q] = "failed"] /\ snap' = snap,
           UNCHANGED <<replaying, sid, conns, pub, got, latest, told, subs, from, path, up,
                       queue, emits, down>>
    PROVE  Undisturbed
<1>1. \A r \in Reqs : Wire(r)' = Wire(r) /\ Tasks(r)' = Tasks(r) /\ Transit'[r] = Transit[r]
  BY DEF Wire, Tasks, Transit
<1>2. Wire(q) = <<>> /\ Tasks(q) = <<>>
  BY UnattachedIsEmpty DEF Unattached
<1>3. /\ phase'[q] \in {"read", "failed"}
      /\ \A r \in Reqs : r # q => phase'[r] = phase[r] /\ snap'[r] = snap[r]
  BY DEF WatchInv, TypeOK
<1> QED
  BY <1>1, <1>2, <1>3 DEF Undisturbed, Started, FreshInv, QuietInv, FirstLink

LEMMA PublishFresh ==
    ASSUME WatchInv, WatchInv', InOrder!FeedInv, FreshInv, NEW p \in Paths, Publish(p)
    PROVE  FreshInv'
<1>1. /\ UNCHANGED <<replaying, sid, conns, path, phase, snap, up, down, emits, subs, latest, told,
                     from, got>>
      /\ pub' = [pub EXCEPT ![p] = pub[p] + 1] /\ pub[p] \in Nat
      /\ \A r \in Reqs : path[r] \in Paths /\ pub[path[r]] \in Nat
  BY DEF Publish, PublishTo, link, request, client, shown, WatchInv, TypeOK
<1>2. \A r \in Reqs : Wire(r)' = Wire(r) /\ Tasks(r)' = Tasks(r)
  BY <1>1 DEF Wire, Tasks
<1>3. \A r \in Reqs : /\ path[r] = p => pub'[path[r]] = pub[path[r]] + 1
                      /\ path[r] # p => pub'[path[r]] = pub[path[r]]
  BY <1>1 DEF WatchInv, TypeOK
<1>4. ASSUME NEW r \in Reqs
      PROVE  /\ phase[r] = "live" /\ path[r] = p => Transit'[r] = Append(Transit[r], pub[p] + 1)
             /\ phase[r] # "live" \/ path[r] # p => Transit'[r] = Transit[r]
  <2>1. Channel!PublishState(p)
    BY PublishFeeds
  <2>2. Stages[r] = "open" <=> phase[r] = "live"
    BY DEF Stages, StageOf
  <2> QED
    BY <2>1, <2>2 DEF Channel!PublishState
<1>5. QuietInv'
  <2> SUFFICES ASSUME NEW r \in Reqs
               PROVE  /\ phase[r] = "failed" => Wire(r) = <<>> /\ Tasks(r) = <<>>
                      /\ phase[r] \in {"live", "disposed"} =>
                            snap[r] <= from[r] /\ from[r] <= pub'[path[r]]
    BY <1>1, <1>2 DEF QuietInv
  <2>1. /\ phase[r] = "failed" => Wire(r) = <<>> /\ Tasks(r) = <<>>
        /\ phase[r] \in {"live", "disposed"} => snap[r] <= from[r] /\ from[r] <= pub[path[r]]
    BY DEF FreshInv, QuietInv
  <2>2. from[r] \in Nat /\ pub[path[r]] \in Nat /\ pub'[path[r]] \in {pub[path[r]], pub[path[r]] + 1}
    BY <1>1, <1>3 DEF WatchInv, TypeOK
  <2> QED
    BY <2>1, <2>2
<1>6. ToldInv'
  BY <1>1 DEF FreshInv, ToldInv
<1>7. ASSUME FirstLink' PROVE DeliveryInv'
  <2> SUFFICES ASSUME NEW r \in Reqs
               PROVE  /\ phase[r] = "sent" => Newest(r)' = snap[r]
                      /\ phase[r] = "live" =>
                            Newest(r)' = IF from[r] < pub'[path[r]] \/ path[r] \in replaying
                                         THEN pub'[path[r]] ELSE snap[r]
                      /\ phase[r] \in Started /\ snap[r] # 0 => got[r] # 0 \/ Wire(r) # <<>>
    BY <1>1, <1>2 DEF DeliveryInv
  <2>1. DeliveryInv
    BY <1>1, <1>7 DEF FreshInv, FirstLink
  <2>2. CASE phase[r] = "live" /\ path[r] = p
    <3>1. Transit[r] \in Seq(Vers) /\ Transit'[r] \in Seq(Vers)
      BY TransitParts DEF WatchInv
    <3>2. PICK t, e : t \in Seq(Vers) /\ t = Transit[r] /\ e = pub[p] + 1
      BY <3>1
    <3>3. Append(t, e) # <<>> /\ Append(t, e)[Len(Append(t, e))] = e
      OBVIOUS
    <3>4. Newest(r)' = pub[p] + 1
      BY <1>4, <2>2, <3>2, <3>3 DEF Newest
    <3>5. from[r] \in Nat /\ from[r] <= pub[p] /\ pub'[path[r]] = pub[p] + 1
      BY <1>3, <2>2, SeenFacts DEF FreshInv, QuietInv
    <3> QED
      BY <1>1, <2>1, <2>2, <3>4, <3>5 DEF DeliveryInv
  <2>3. CASE phase[r] # "live" \/ path[r] # p
    <3>1. Newest(r)' = Newest(r)
      BY <1>1, <1>4, <2>3 DEF Newest
    <3> QED
      BY <1>3, <2>1, <2>3, <3>1 DEF DeliveryInv
  <2> QED
    BY <2>2, <2>3
<1>8. ASSUME FirstLink' PROVE WaitInv'
  <2>1. WaitInv
    BY <1>1, <1>8 DEF FreshInv, FirstLink
  <2> QED
    BY <1>1, <2>1 DEF WaitInv, Awaits, BeforeAll
<1> QED
  BY <1>5, <1>6, <1>7, <1>8 DEF FreshInv

LEMMA SubscribeFresh ==
    ASSUME WatchInv, WatchInv', FreshInv, NEW l \in Listeners, Subscribe(l)
    PROVE  FreshInv'
<1>1. /\ UNCHANGED <<replaying, sid, conns, pub, path, phase, snap, queue, down, emits, from, got>>
      /\ l \notin subs /\ subs' = subs \cup {l}
      /\ latest' = [latest EXCEPT ![l] = 0] /\ told' = [told EXCEPT ![l] = 0]
      /\ up' = Append(up, AskOf(PathOf[l])) /\ PathOf[l] \in Paths
  BY WatchAssumption DEF Subscribe, world, link, request, AskOf
<1>2. \A r \in Reqs : Wire(r)' = Wire(r) /\ Tasks(r)' = Tasks(r) /\ Newest(r)' = Newest(r)
  BY <1>1 DEF Wire, Tasks, Newest, Transit
<1>3. /\ latest'[l] = 0 /\ told'[l] = 0
      /\ \A m \in subs : m # l /\ latest'[m] = latest[m] /\ told'[m] = told[m]
  BY <1>1 DEF WatchInv, TypeOK
<1>4. Elems(up') = Elems(up) \cup {AskOf(PathOf[l])}
  <2>1. AskOf(PathOf[l]) \in UpMsg /\ up \in Seq(UpMsg)
    BY <1>1 DEF AskOf, UpMsg, WatchInv, TypeOK
  <2> QED
    BY <1>1, <2>1, AppendElems
<1>5. QuietInv'
  BY <1>1, <1>2 DEF FreshInv, QuietInv
<1>6. ToldInv'
  BY <1>1, <1>3 DEF FreshInv, ToldInv
<1>7. FirstLink' => DeliveryInv'
  BY <1>1, <1>2 DEF FreshInv, DeliveryInv, FirstLink
<1>8. ASSUME FirstLink' PROVE WaitInv'
  <2>1. WaitInv
    BY <1>1, <1>8 DEF FreshInv, FirstLink
  <2> SUFFICES ASSUME NEW m \in subs', told'[m] = 0
               PROVE  AskOf(PathOf[m]) \in Elems(up') \/ \E r \in Reqs : Awaits(m, r)'
    BY DEF WaitInv
  <2>2. CASE m = l
    BY <1>4, <2>2
  <2>3. CASE m \in subs
    <3>1. AskOf(PathOf[m]) \in Elems(up) \/ \E r \in Reqs : Awaits(m, r)
      BY <1>3, <2>1, <2>3 DEF WaitInv
    <3>2. \A r \in Reqs : Awaits(m, r) => Awaits(m, r)'
      BY <1>1 DEF Awaits, BeforeAll
    <3> QED
      BY <1>4, <3>1, <3>2
  <2> QED
    BY <1>1, <2>2, <2>3
<1> QED
  BY <1>5, <1>6, <1>7, <1>8 DEF FreshInv

\* What arrives was the oldest under way, and is shown to the listeners of its path.
LEMMA ReceiveFresh ==
    ASSUME WatchInv, WatchInv', InOrder!FeedInv, FreshInv, Receive
    PROVE  FreshInv'
<1>1. PICK q \in Reqs, v \in Vers : q = Head(down).req /\ v = Head(down).ver
  <2>1. Head(down) \in Msg
    BY DEF Receive, WatchInv, TypeOK
  <2> QED
    BY <2>1, VerOfMsg
<1>2. /\ UNCHANGED <<replaying, sid, conns, pub, path, phase, snap, queue, emits, from, up, subs, owner>>
      /\ down # <<>> /\ down \in Seq(Msg) /\ down' = Tail(down)
      /\ got' = [got EXCEPT ![q] = v]
      /\ latest' = [l \in Listeners |-> IF l \in subs /\ PathOf[l] = path[q] THEN v ELSE latest[l]]
      /\ told' = [l \in Listeners |-> IF l \in subs /\ PathOf[l] = path[q] THEN q ELSE told[l]]
  BY <1>1 DEF Receive, link, request, world, client, WatchInv, TypeOK
<1>3. /\ Wire(q) # <<>> /\ Head(Wire(q)) = v
      /\ \A r \in Reqs : r # q => Wire(r)' = Wire(r)
      /\ \A r \in Reqs : Tasks(r)' = Tasks(r)
  BY <1>1, <1>2, VersTail DEF Wire, Tasks
<1>4. phase[q] \in Started
  BY <1>3 DEF Started, WatchInv, TypeOK, Phases, TransitInv, Unattached, Wire, FreshInv, QuietInv
<1>5. got'[q] = v /\ v # 0 /\ \A r \in Reqs : r # q => got'[r] = got[r]
  BY <1>2 DEF WatchInv, TypeOK, Vers
<1>6. \A r \in Reqs : r # q => Transit'[r] = Transit[r]
  BY <1>2, <1>3, TransitSame DEF WatchInv
<1>7. Transit[q] # <<>> /\ Head(Transit[q]) = v /\ Transit'[q] = Tail(Transit[q])
  <2>1. PICK s \in Reqs : Channel!Arrive(s)
    BY ReceiveFeeds
  <2>2. /\ got' = [got EXCEPT ![s] = Head(Transit[s])]
        /\ Transit[s] # <<>> /\ Transit' = [Transit EXCEPT ![s] = Tail(Transit[s])]
    BY <2>1 DEF Channel!Arrive
  <2>3. s = q
    <3> SUFFICES ASSUME s # q PROVE FALSE
      OBVIOUS
    <3>1. Transit'[s] = Transit[s] /\ Transit'[s] = Tail(Transit[s])
      BY <1>6, <2>2, TransitParts DEF WatchInv
    <3>2. PICK t \in Seq(Vers) : t = Transit[s]
      BY TransitParts DEF WatchInv
    <3>3. t # <<>> => Len(Tail(t)) # Len(t)
      OBVIOUS
    <3> QED
      BY <2>2, <3>1, <3>2, <3>3
  <2>4. got'[q] = Head(Transit[q]) /\ Transit'[q] = Tail(Transit[q])
    BY <2>2, <2>3, TransitParts DEF WatchInv, TypeOK
  <2> QED
    BY <1>5, <2>2, <2>3, <2>4
<1>8. \A r \in Reqs : Newest(r)' = Newest(r)
  <2>1. PICK t \in Seq(Vers) : t = Transit[q]
    BY TransitParts DEF WatchInv
  <2>2. t # <<>> /\ Head(t) = v /\ Transit'[q] = Tail(t)
    BY <1>7, <2>1
  <2>5. /\ Tail(t) = <<>> => t[Len(t)] = Head(t)
        /\ Tail(t) # <<>> => Tail(t)[Len(Tail(t))] = t[Len(t)]
    <3>1. PICK u : u = Tail(t)
      OBVIOUS
    <3>2. /\ Len(t) \in Nat \ {0} /\ Len(u) = Len(t) - 1 /\ Head(t) = t[1]
          /\ \A i \in 1 .. Len(u) : u[i] = t[i + 1]
          /\ u = <<>> <=> Len(t) = 1
      BY <2>2, <3>1, TailTurns
    <3> QED
      BY <3>1, <3>2
  <2>3. Newest(q)' = Newest(q)
    BY <1>5, <2>1, <2>2, <2>5 DEF Newest
  <2>4. \A r \in Reqs : r # q => Newest(r)' = Newest(r)
    BY <1>5, <1>6 DEF Newest
  <2> QED
    BY <2>3, <2>4
<1>9. QuietInv'
  <2>1. q \in Reqs /\ phase[q] # "failed"
    BY <1>4 DEF Started
  <2> QED
    BY <1>2, <1>3, <2>1 DEF FreshInv, QuietInv
<1>10. ToldInv'
  <2> SUFFICES ASSUME NEW l \in subs
               PROVE  IF told'[l] = 0 THEN latest'[l] = 0
                      ELSE /\ told'[l] \in Reqs /\ path[told'[l]] = PathOf[l]
                           /\ phase[told'[l]] \in Started /\ latest'[l] = got'[told'[l]]
    BY <1>2 DEF ToldInv
  <2>1. l \in Listeners /\ 0 \notin Reqs
    BY DEF WatchInv, TypeOK, Reqs
  <2>2. CASE PathOf[l] = path[q]
    BY <1>2, <1>4, <1>5, <2>1, <2>2
  <2>3. CASE PathOf[l] # path[q]
    <3>1. told'[l] = told[l] /\ latest'[l] = latest[l]
      BY <1>2, <2>1, <2>3
    <3> QED
      BY <1>5, <2>3, <3>1 DEF FreshInv, ToldInv
  <2> QED
    BY <2>2, <2>3
<1>11. ASSUME FirstLink' PROVE DeliveryInv'
  <2>1. DeliveryInv
    BY <1>2, <1>11 DEF FreshInv, FirstLink
  <2>2. \A r \in Reqs : got[r] # 0 \/ Wire(r) # <<>> => got'[r] # 0 \/ Wire(r)' # <<>>
    BY <1>3, <1>5
  <2> QED
    BY <1>2, <1>8, <2>1, <2>2 DEF DeliveryInv
<1>12. ASSUME FirstLink' PROVE WaitInv'
  <2>1. WaitInv
    BY <1>2, <1>12 DEF FreshInv, FirstLink
  <2> SUFFICES ASSUME NEW l \in subs, told'[l] = 0
               PROVE  AskOf(PathOf[l]) \in Elems(up) \/ \E r \in Reqs : Awaits(l, r)'
    BY <1>2 DEF WaitInv
  <2>2. l \in Listeners /\ 0 \notin Reqs
    BY DEF WatchInv, TypeOK, Reqs
  <2>3. PathOf[l] # path[q] /\ told[l] = 0
    BY <1>2, <2>2
  <2>4. ASSUME NEW r \in Reqs, Awaits(l, r) PROVE Awaits(l, r)'
    <3>1. path[r] # path[q] /\ r # q
      BY <2>3, <2>4 DEF Awaits
    <3>2. \A s \in Reqs : path[s] = path[r] => got'[s] = got[s]
      BY <1>5, <3>1
    <3> QED
      BY <1>2, <1>5, <2>4, <3>1, <3>2 DEF Awaits, BeforeAll
  <2> QED
    BY <2>1, <2>3, <2>4 DEF WaitInv
<1> QED
  BY <1>9, <1>10, <1>11, <1>12 DEF FreshInv

\* A watch attaches: from now on its newest state is the newest of its path, but
\* for a path without replay, of which it has what it read.
LEMMA AttachFresh ==
    ASSUME WatchInv, WatchInv', InOrder!FeedInv, FreshInv, NEW q \in Reqs, Attach(q),
           \/ phase[q] = "start" /\ path[q] \in replaying
           \/ phase[q] = "read" /\ snap[q] = 0
           \/ phase[q] = "sent",
           UNCHANGED <<replaying, sid, conns, pub, path, snap, up, down, emits, subs, latest,
                       told, got>>
    PROVE  FreshInv'
<1>1. /\ phase' = [phase EXCEPT ![q] = "live"] /\ from' = [from EXCEPT ![q] = pub[path[q]]]
      /\ \A r \in Reqs : r # q => queue'[r] = queue[r]
      /\ queue'[q] = IF path[q] \in replaying /\ pub[path[q]] > 0 THEN <<pub[path[q]]>> ELSE <<>>
  BY DEF Attach, AttachWith, WatchInv, TypeOK
<1>2. /\ phase'[q] = "live" /\ from'[q] = pub[path[q]]
      /\ \A r \in Reqs : r # q => phase'[r] = phase[r] /\ from'[r] = from[r]
  BY <1>1 DEF WatchInv, TypeOK
<1>3. \A r \in Reqs : Wire(r)' = Wire(r) /\ Tasks(r)' = Tasks(r)
  BY DEF Wire, Tasks
<1>4. /\ pub[path[q]] \in 0 .. MaxVer /\ snap[q] <= pub[path[q]] /\ snap[q] \in Nat
      /\ phase[q] # "sent" => Transit[q] = <<>> /\ got[q] = 0
      /\ phase[q] \in {"read", "sent"} => path[q] \notin replaying
      /\ phase[q] = "start" => snap[q] = 0
      /\ queue[q] = <<>>
  BY SeenFacts DEF WatchInv, TypeOK, SavedInv, Unattached, TransitInv
<1>5. \A r \in Reqs : r # q => Newest(r)' = Newest(r)
  <2>1. \A r \in Reqs : r # q => Transit'[r] = Transit[r]
    BY <1>1, <1>3, TransitSame DEF WatchInv
  <2> QED
    BY <2>1 DEF Newest
<1>6. ASSUME path[q] \in replaying PROVE Newest(q)' = pub[path[q]]
  <2>1. Wire(q) = <<>> /\ Tasks(q) = <<>> /\ phase[q] = "start"
    BY <1>4, <1>6, UnattachedIsEmpty DEF Unattached
  <2>2. CASE pub[path[q]] = 0
    <3>1. Transit'[q] = Transit[q]
      BY <1>1, <1>3, <1>4, <2>2, TransitSame DEF WatchInv
    <3> QED
      BY <1>4, <2>1, <2>2, <3>1 DEF Newest
  <2>3. CASE pub[path[q]] # 0
    <3>1. PICK e \in Vers : e = pub[path[q]]
      BY <1>4, <2>3 DEF Vers
    <3>2. (<<>> \o <<>>) \o <<e>> = <<e>> /\ <<e>> # <<>> /\ <<e>>[Len(<<e>>)] = e
      OBVIOUS
    <3>3. queue'[q] = <<e>>
      BY <1>1, <1>4, <1>6, <2>3, <3>1
    <3>4. Transit'[q] = <<e>>
      BY <1>3, <2>1, <3>2, <3>3, TransitParts DEF WatchInv
    <3> QED
      BY <3>1, <3>2, <3>4 DEF Newest
  <2> QED
    BY <2>2, <2>3
<1>7. ASSUME path[q] \notin replaying PROVE Newest(q)' = Newest(q)
  <2>1. queue'[q] = queue[q]
    BY <1>1, <1>4, <1>7
  <2>2. Transit'[q] = Transit[q]
    BY <1>3, <2>1, TransitSame DEF WatchInv
  <2> QED
    BY <2>2 DEF Newest
<1>8. QuietInv'
  <2> SUFFICES ASSUME NEW r \in Reqs
               PROVE  /\ phase'[r] = "failed" => Wire(r) = <<>> /\ Tasks(r) = <<>>
                      /\ phase'[r] \in {"live", "disposed"} =>
                            snap[r] <= from'[r] /\ from'[r] <= pub[path[r]]
    BY <1>3 DEF QuietInv
  <2>1. CASE r = q
    BY <1>2, <1>4, <2>1
  <2>2. CASE r # q
    BY <1>2, <2>2 DEF FreshInv, QuietInv
  <2> QED
    BY <2>1, <2>2
<1>9. ToldInv'
  <2>1. \A r \in Reqs : phase[r] \in Started => phase'[r] \in Started
    BY <1>2 DEF Started
  <2> QED
    BY <2>1 DEF FreshInv, ToldInv
<1>10. ASSUME FirstLink' PROVE DeliveryInv'
  <2>1. DeliveryInv
    BY <1>10 DEF FreshInv, FirstLink
  <2> SUFFICES ASSUME NEW r \in Reqs
               PROVE  /\ phase'[r] = "sent" => Newest(r)' = snap[r]
                      /\ phase'[r] = "live" =>
                            Newest(r)' = IF from'[r] < pub[path[r]] \/ path[r] \in replaying
                                         THEN pub[path[r]] ELSE snap[r]
                      /\ phase'[r] \in Started /\ snap[r] # 0 => got[r] # 0 \/ Wire(r) # <<>>
    BY <1>3 DEF DeliveryInv
  <2>2. CASE r # q
    BY <1>2, <1>5, <2>1, <2>2 DEF DeliveryInv
  <2>3. CASE r = q
    <3>1. ~(from'[q] < pub[path[q]])
      BY <1>2, <1>4
    <3>2. snap[q] # 0 => got[q] # 0 \/ Wire(q) # <<>>
      BY <1>4, <2>1 DEF DeliveryInv, Started
    <3>3. path[q] \notin replaying => Newest(q)' = snap[q]
      <4>1. phase[q] # "sent" => Newest(q) = 0 /\ snap[q] = 0
        BY <1>4 DEF Newest
      <4>2. phase[q] = "sent" => Newest(q) = snap[q]
        BY <2>1 DEF DeliveryInv
      <4> QED
        BY <1>7, <4>1, <4>2
    <3> QED
      BY <1>2, <1>6, <2>3, <3>1, <3>2, <3>3
  <2> QED
    BY <2>2, <2>3
<1>11. ASSUME FirstLink' PROVE WaitInv'
  <2>1. WaitInv
    BY <1>11 DEF FreshInv, FirstLink
  <2>2. ASSUME NEW l, NEW r \in Reqs, Awaits(l, r) PROVE Awaits(l, r)'
    <3>1. \A s \in Reqs : path[s] = path[q] => got[s] <= pub[path[q]]
      BY SeenFacts
    <3>2. CASE r = q
      BY <1>2, <2>2, <3>1, <3>2 DEF Awaits, BeforeAll
    <3>3. CASE r # q
      BY <1>2, <2>2, <3>3 DEF Awaits, BeforeAll
    <3> QED
      BY <3>2, <3>3
  <2> QED
    BY <2>1, <2>2 DEF WaitInv
<1> QED
  BY <1>8, <1>9, <1>10, <1>11 DEF FreshInv

\* A row that was read is sent: on the first connection, to the browser.
LEMMA SendRowFresh ==
    ASSUME WatchInv, WatchInv', FreshInv, NEW q \in Reqs, phase[q] = "read", snap[q] # 0,
           SendTo(q, snap[q]), phase' = [phase EXCEPT ![q] = "sent"],
           UNCHANGED <<replaying, sid, conns, pub, path, snap, up, queue, emits, subs, latest,
                       told, from, got>>
    PROVE  FreshInv'
<1>1. PICK v \in Vers : v = snap[q]
  <2>1. snap[q] \in 0 .. MaxVer
    BY DEF WatchInv, TypeOK
  <2> QED
    BY <2>1 DEF Vers
<1>2. phase'[q] = "sent" /\ \A r \in Reqs : r # q => phase'[r] = phase[r]
  BY DEF WatchInv, TypeOK
<1>3. /\ \A r \in Reqs : r # q => Wire(r)' = Wire(r)
      /\ owner[q] = sid => Wire(q)' = Append(Wire(q), v)
      /\ \A r \in Reqs : Tasks(r)' = Tasks(r)
  BY <1>1, SendTransit DEF Wire, Tasks, WatchInv
<1>4. \A r \in Reqs : r # q => Newest(r)' = Newest(r)
  <2>1. \A r \in Reqs : r # q => Transit'[r] = Transit[r]
    BY <1>3, TransitSame DEF WatchInv
  <2> QED
    BY <2>1 DEF Newest
<1>5. ASSUME FirstLink PROVE Wire(q)' # <<>> /\ Newest(q)' = snap[q]
  <2>1. Wire(q) = <<>> /\ Tasks(q) = <<>> /\ queue[q] = <<>>
    BY UnattachedIsEmpty DEF Unattached
  <2>2. owner[q] = sid
    BY <1>5, OfFirstLink
  <2>3. /\ (Append(<<>>, v) \o <<>>) \o <<>> = <<v>> /\ Append(<<>>, v) = <<v>>
        /\ <<v>> # <<>> /\ <<v>>[Len(<<v>>)] = v
    OBVIOUS
  <2>4. Wire(q)' = <<v>> /\ Transit'[q] = <<v>>
    BY <1>3, <2>1, <2>2, <2>3, TransitParts DEF WatchInv
  <2> QED
    BY <1>1, <2>3, <2>4 DEF Newest
<1>6. QuietInv'
  BY <1>2, <1>3 DEF FreshInv, QuietInv
<1>7. ToldInv'
  <2>1. \A r \in Reqs : phase[r] \in Started => phase'[r] \in Started
    BY <1>2 DEF Started
  <2> QED
    BY <2>1 DEF FreshInv, ToldInv
<1>8. ASSUME FirstLink' PROVE DeliveryInv'
  <2>1. DeliveryInv /\ FirstLink
    BY <1>8 DEF FreshInv, FirstLink
  <2> QED
    BY <1>2, <1>3, <1>4, <1>5, <2>1 DEF DeliveryInv
<1>9. ASSUME FirstLink' PROVE WaitInv'
  <2>1. WaitInv
    BY <1>9 DEF FreshInv, FirstLink
  <2>2. \A l, r : r \in Reqs /\ Awaits(l, r) => Awaits(l, r)'
    BY <1>2 DEF Awaits, BeforeAll
  <2> QED
    BY <2>1, <2>2 DEF WaitInv
<1> QED
  BY <1>6, <1>7, <1>8, <1>9 DEF FreshInv

LEMMA CoroutineFresh ==
    ASSUME WatchInv, WatchInv', InOrder!FeedInv, InOrder!FeedInv', FreshInv, NEW q \in Reqs,
           Coroutine(q)
    PROVE  FreshInv'
<1>1. UNCHANGED <<replaying, sid, conns, pub, path, up, emits, subs, latest, told, got>>
  BY DEF Coroutine, WatchRead, WatchFails, WatchSend, WatchAttach, world, link, request, client,
         shown
<1>2. CASE WatchRead(q)
  <2>1. CASE path[q] \in replaying /\ Attach(q) /\ snap' = snap
    BY <1>1, <1>2, <2>1, AttachFresh DEF WatchRead
  <2>2. CASE path[q] \notin replaying
    <3>1. /\ phase[q] = "start" /\ phase' = [phase EXCEPT ![q] = "read"]
          /\ UNCHANGED <<from, queue, down>>
          /\ snap' = [snap EXCEPT ![q] = db[path[q]]]
      BY <1>2, <2>2 DEF WatchRead
    <3>2. \A r \in Reqs : r # q => snap'[r] = snap[r]
      BY <3>1 DEF WatchInv, TypeOK
    <3>3. Undisturbed
      BY <1>1, <3>1, <3>2, ReadUndisturbed
    <3> QED
      BY <3>3, UndisturbedKeeps
  <2> QED
    BY <1>2, <2>1, <2>2 DEF WatchRead
<1>3. CASE WatchFails(q)
  <2>1. /\ phase[q] = "start" /\ phase' = [phase EXCEPT ![q] = "failed"]
        /\ UNCHANGED <<from, queue, down, snap>>
    BY <1>3 DEF WatchFails
  <2>2. Undisturbed
    BY <1>1, <2>1, ReadUndisturbed
  <2> QED
    BY <2>2, UndisturbedKeeps
<1>4. CASE WatchSend(q)
  <2>1. CASE snap[q] # 0
    BY <1>1, <1>4, <2>1, SendRowFresh DEF WatchSend
  <2>2. CASE snap[q] = 0
    BY <1>1, <1>4, <2>2, AttachFresh DEF WatchSend
  <2> QED
    BY <2>1, <2>2
<1>5. CASE WatchAttach(q)
  BY <1>1, <1>5, AttachFresh DEF WatchAttach
<1> QED
  BY <1>2, <1>3, <1>4, <1>5 DEF Coroutine

LEMMA FreshStep ==
    ASSUME WatchInv, WatchInv', InOrder!FeedInv, InOrder!FeedInv', FreshInv, [Next]_vars
    PROVE  FreshInv'
<1>1. CASE UNCHANGED vars
  <2>1. /\ UNCHANGED <<replaying, pub, got, latest, told, subs, sid, conns, phase, path, snap,
                       from, up, down, emits, queue>>
    BY <1>1 DEF vars, world, link, request, client, shown
  <2>2. \A r \in Reqs : Wire(r)' = Wire(r) /\ Tasks(r)' = Tasks(r) /\ Transit'[r] = Transit[r]
    BY <2>1 DEF Wire, Tasks, Transit
  <2>3. Undisturbed
    BY <2>1, <2>2 DEF Undisturbed, Started, FreshInv, QuietInv, FirstLink
  <2> QED
    BY <2>3, UndisturbedKeeps
<1>2. ASSUME Undisturbed PROVE FreshInv'
  BY <1>2, UndisturbedKeeps
<1>3. CASE \/ \E p \in Paths : Save(p)
           \/ \E l \in Listeners : Unsubscribe(l)
           \/ Connect \/ Disconnect
  BY <1>2, <1>3, OutsideUndisturbed
<1>4. CASE Browser
  BY <1>3, <1>4, SubscribeFresh, ReceiveFresh DEF Browser
<1>5. CASE Server
  BY <1>2, <1>5, OnSubscribeUndisturbed, OnUnsubscribeUndisturbed, MovesUndisturbed,
     CoroutineFresh DEF Server
<1>6. CASE \E p \in Paths : Publish(p)
  BY <1>6, PublishFresh
<1> QED
  BY <1>1, <1>3, <1>4, <1>5, <1>6 DEF Next

LEMMA FreshInvariant == Spec => [](WatchInv /\ ListenerInv /\ InOrder!FeedInv /\ FreshInv)
<1>1. Spec => [](WatchInv /\ ListenerInv)
  BY ListenerInvariant
<1>2. Spec => []InOrder!FeedInv
  BY WatchesStayInOrder
<1>3. Init => FreshInv
  BY FreshInit
<1>4. WatchInv /\ WatchInv' /\ InOrder!FeedInv /\ InOrder!FeedInv' /\ FreshInv /\ [Next]_vars
      => FreshInv'
  BY FreshStep
<1> QED
  BY <1>1, <1>2, <1>3, <1>4, PTL DEF Spec

\* With everything delivered, a live watch shows the newest state of its path, or
\* attached after it was published, having read an older row.
LEMMA LiveIsFreshOrInGap ==
    ASSUME WatchInv, InOrder!FeedInv, QuietInv, DeliveryInv, NEW r \in Reqs, phase[r] = "live",
           Newest(r) = got[r], got[r] # pub[path[r]]
    PROVE  InGap(r) /\ path[r] \notin replaying
<1>1. got[r] = IF from[r] < pub[path[r]] \/ path[r] \in replaying THEN pub[path[r]] ELSE snap[r]
  BY DEF DeliveryInv
<1>2. snap[r] <= from[r] /\ from[r] <= pub[path[r]]
  BY DEF QuietInv
<1>3. from[r] \in Nat /\ pub[path[r]] \in Nat /\ snap[r] \in Nat
  BY SeenFacts
<1>4. ~(from[r] < pub[path[r]]) /\ path[r] \notin replaying /\ got[r] = snap[r]
  BY <1>1
<1>5. from[r] = pub[path[r]] /\ snap[r] < from[r]
  BY <1>2, <1>3, <1>4
<1> QED
  BY <1>4, <1>5 DEF InGap

\* A path with a listener has a watch no unsubscribe was handled for.
LEMMA SomeWatchIsLeft ==
    ASSUME WatchInv, ListenerInv, FirstLink, up = <<>>, NEW l \in subs
    PROVE  \E r \in Reqs : path[r] = PathOf[l] /\ phase[r] \in Running \cup {"live", "failed"}
<1> PICK p \in Paths : p = PathOf[l]
  BY WatchAssumption DEF WatchInv, TypeOK
<1>1. Cardinality(ListenersOf(p)) + Len(UpOf({"unsubscribe"}, p))
          <= Cardinality(FedOrFailed(p)) + Len(UpOf({"subscribe"}, p))
  BY DEF ListenerInv, EnoughWatches
<1>2. Len(UpOf({"unsubscribe"}, p)) = 0 /\ Len(UpOf({"subscribe"}, p)) = 0
  BY KeptEmpty DEF UpOf
<1>3. /\ IsFiniteSet(ListenersOf(p)) /\ Cardinality(ListenersOf(p)) \in Nat
      /\ Cardinality(FedOrFailed(p)) \in Nat
  BY ListenersFinite, FedFinite DEF ListenerInv
<1>4. ListenersOf(p) # {}
  BY DEF ListenersOf
<1>5. Cardinality(ListenersOf(p)) # 0
  BY <1>3, <1>4, FS_EmptySet
<1>6. Cardinality(FedOrFailed(p)) # 0
  BY <1>1, <1>2, <1>3, <1>5
<1>7. FedOrFailed(p) # {}
  BY <1>6, FS_EmptySet
<1> QED
  BY <1>7 DEF FedOrFailed

\* index.ts, fast_io and the routes: when nothing is under way, a listener on a
\* connection that never broke shows the newest state of its path, but for the gap
\* between the read of the row and the subject, a read that raised, and the watch
\* of a path that an unsubscribe of another listener detached.
THEOREM EveryListenerIsFreshOrInGap == Spec => []FreshOrGap
<1>1. WatchInv /\ ListenerInv /\ InOrder!FeedInv /\ FreshInv => FreshOrGap
  <2> SUFFICES ASSUME WatchInv, ListenerInv, InOrder!FeedInv, FreshInv, AtRest, NEW l \in subs,
                      latest[l] # pub[PathOf[l]], ~ToldByDetached(l)
               PROVE  \/ /\ PathOf[l] \notin replaying
                         /\ \E r \in Reqs : path[r] = PathOf[l] /\ (InGap(r) \/ phase[r] = "failed")
                      \/ told[l] = 0 /\ \E r \in Reqs : path[r] = PathOf[l] /\ ReplayDropped(r)
    BY DEF FreshOrGap
  <2>1. FirstLink /\ up = <<>> /\ \A r \in Reqs : phase[r] \notin Running
    BY DEF AtRest, FirstLink
  <2>2. QuietInv /\ ToldInv /\ DeliveryInv /\ WaitInv
    BY <2>1 DEF FreshInv
  <2>3. ASSUME NEW r \in Reqs PROVE Wire(r) = <<>> /\ Newest(r) = got[r]
    <3>1. Wire(r) = <<>> /\ VersOf(r, emits) = <<>> /\ queue[r] = <<>>
      BY VersEmpty DEF AtRest, Wire
    <3>2. (<<>> \o <<>>) \o <<>> = <<>>
      OBVIOUS
    <3>3. Transit[r] = <<>>
      BY <3>1, <3>2 DEF Transit, Wire
    <3> QED
      BY <3>1, <3>3 DEF Newest
  <2>4. ASSUME NEW r \in Reqs, path[r] = PathOf[l], phase[r] = "failed"
        PROVE  PathOf[l] \notin replaying
    BY <2>4 DEF ListenerInv, FailInv
  <2>5. ASSUME NEW r \in Reqs, path[r] = PathOf[l], phase[r] = "live", got[r] # pub[PathOf[l]]
        PROVE  InGap(r) /\ PathOf[l] \notin replaying
    BY <2>2, <2>3, <2>5, LiveIsFreshOrInGap
  <2>6. CASE told[l] # 0
    <3>1. /\ told[l] \in Reqs /\ path[told[l]] = PathOf[l] /\ latest[l] = got[told[l]]
          /\ phase[told[l]] \in Started
      BY <2>2, <2>6 DEF ToldInv
    <3>2. phase[told[l]] = "live"
      BY <2>1, <2>6, <3>1 DEF Started, Running, ToldByDetached
    <3> QED
      BY <2>5, <3>1, <3>2
  <2>7. CASE told[l] = 0
    <3>1. latest[l] = 0
      BY <2>2, <2>7 DEF ToldInv
    <3>2. PICK r \in Reqs : Awaits(l, r)
      <4>1. Elems(up) = {}
        BY <2>1 DEF Elems
      <4> QED
        BY <2>2, <2>7, <4>1 DEF WaitInv
    <3>3. /\ path[r] = PathOf[l] /\ got[r] = 0 /\ got[r] # pub[PathOf[l]]
          /\ phase[r] \in {"live", "disposed", "failed"}
      BY <2>1, <3>1, <3>2 DEF Awaits, Running, Phases, WatchInv, TypeOK
    <3>4. CASE phase[r] \in {"live", "failed"}
      BY <2>4, <2>5, <3>3, <3>4
    <3>5. CASE phase[r] = "disposed" /\ path[r] \in replaying
      BY <2>7, <3>3, <3>5 DEF ReplayDropped
    <3>6. CASE phase[r] = "disposed" /\ path[r] \notin replaying
      <4>1. snap[r] = 0 /\ from[r] \in Nat /\ pub[path[r]] \in Nat /\ from[r] <= pub[path[r]]
        BY <2>2, <2>3, <3>3, <3>6, SeenFacts DEF DeliveryInv, QuietInv, Started
      <4>2. CASE from[r] = pub[path[r]]
        <5>1. 0 < from[r]
          BY <3>3, <4>1, <4>2
        <5>2. InGap(r)
          BY <3>6, <4>1, <4>2, <5>1 DEF InGap
        <5> QED
          BY <3>3, <3>6, <5>2
      <4>3. CASE from[r] # pub[path[r]]
        <5>1. PICK s \in Reqs : path[s] = PathOf[l] /\ phase[s] \in {"live", "failed"}
          BY <2>1, SomeWatchIsLeft
        <5>2. CASE phase[s] = "failed"
          BY <3>3, <3>6, <5>1, <5>2
        <5>3. CASE phase[s] = "live"
          <6>1. got[s] <= from[r] /\ got[s] \in Nat
            BY <3>2, <3>3, <3>6, <5>1, SeenFacts DEF Awaits, BeforeAll
          <6>2. got[s] # pub[PathOf[l]]
            BY <3>3, <4>1, <4>3, <6>1
          <6> QED
            BY <2>5, <5>1, <5>3, <6>2
        <5> QED
          BY <5>1, <5>2, <5>3
      <4> QED
        BY <4>2, <4>3
    <3> QED
      BY <3>3, <3>4, <3>5, <3>6
  <2> QED
    BY <2>6, <2>7
<1> QED
  BY <1>1, FreshInvariant, PTL
=============================================================================
