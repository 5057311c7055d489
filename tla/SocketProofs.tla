---------------------------- MODULE SocketProofs ----------------------------
(* Proofs about the two managers that share the trajectory socket: what is *)
(* kept of the negotiations, for any conflicts, versions and participants, *)
(* and which reply each request gets, for any managers and any number of   *)
(* requests and pushed messages.                                           *)
EXTENDS NegotiationStatus, TrajectorySocket, SelectionProofs, FiniteSetTheorems,
        TLAPS

-----------------------------------------------------------------------------
(* NegotiationStatus.                                                      *)

Statuses  == [length : 0 .. 2, flag : {"clear", "set"}]
Statused  == [hasTerminal : BOOLEAN, base : Statuses, terminal : Statuses]
Endings   == {"UNKNOWN", "RESOLVED", "FAILED"}
Conflicts == [status : [Participants -> Statused], resolved : Endings]

NegoShape ==
    /\ Known \subseteq Versions
    /\ conflicts \in [Known -> Conflicts]
    /\ roots \in [Versions -> [Participants -> {"none", "clear", "set"}]]
    /\ concluded \in [Versions -> Endings]
    /\ socket \in {"connecting", "open"}
    /\ subscribing \in BOOLEAN /\ subscribed \in BOOLEAN
    /\ subscribed => socket = "open"

\* A conflict in the table has the ending that came last for it.
EndingIsLast == \A v \in Known : conflicts[v].resolved = concluded[v]

RetainedInv == Cardinality(ResolvedOf(conflicts)) <= RetainCount

NegoInv == NegoShape /\ RootIsBase /\ EndingIsLast /\ RetainedInv

-----------------------------------------------------------------------------
(* The order of the keys.                                                  *)

Numbers == {v \in Nat : v < Million}

\* What a version is multiplied by to be padded.
LEMMA PaddedIs ==
    ASSUME NEW v \in Numbers
    PROVE  \/ v < 10 /\ Digits(v) = 1 /\ Padded(v) = (100 * 1000) * v
           \/ 10 <= v /\ v < 100 /\ Digits(v) = 2 /\ Padded(v) = (10 * 1000) * v
           \/ 100 <= v /\ v < 1000 /\ Digits(v) = 3 /\ Padded(v) = 1000 * v
           \/ 1000 <= v /\ v < 10 * 1000 /\ Digits(v) = 4 /\ Padded(v) = 100 * v
           \/ 10 * 1000 <= v /\ v < 100 * 1000 /\ Digits(v) = 5 /\ Padded(v) = 10 * v
           \/ 100 * 1000 <= v /\ Digits(v) = 6 /\ Padded(v) = v
<1> USE DEF Million, Numbers
<1>1. CASE v < 10
  BY <1>1 DEF Digits, Padded
<1>2. CASE 10 <= v /\ v < 100
  BY <1>2 DEF Digits, Padded
<1>3. CASE 100 <= v /\ v < 1000
  BY <1>3 DEF Digits, Padded
<1>4. CASE 1000 <= v /\ v < 10 * 1000
  BY <1>4 DEF Digits, Padded
<1>5. CASE 10 * 1000 <= v /\ v < 100 * 1000
  BY <1>5 DEF Digits, Padded
<1>6. CASE 100 * 1000 <= v
  BY <1>6 DEF Digits, Padded
<1> QED
  BY <1>1, <1>2, <1>3, <1>4, <1>5, <1>6

\* A number that orders the versions as their strings are ordered.
Rank(v) == Million * Padded(v) + v

LEMMA RankOrders ==
    ASSUME NEW v \in Numbers, NEW w \in Numbers
    PROVE  /\ Rank(v) \in Nat
           /\ Before(v, w) <=> Rank(v) < Rank(w)
           /\ Rank(v) = Rank(w) => v = w
           /\ v < w => Before(v, w) \/ Digits(v) < Digits(w)
<1> USE DEF Million, Numbers
<1>1. PICK p \in Nat, q \in Nat : p = Padded(v) /\ q = Padded(w)
  BY PaddedIs
<1>2. Rank(v) = Million * p + v /\ Rank(w) = Million * q + w
  BY <1>1 DEF Rank
<1>3. Before(v, w) <=> p < q \/ (p = q /\ v < w)
  BY <1>1 DEF Before
<1>4. Rank(v) \in Nat /\ (Before(v, w) <=> Rank(v) < Rank(w))
  BY <1>2, <1>3
<1>5. Rank(v) = Rank(w) => v = w
  BY <1>2
<1>6. ASSUME v < w PROVE p < q \/ Digits(v) < Digits(w)
  BY <1>1, <1>6, PaddedIs
<1> QED
  BY <1>3, <1>4, <1>5, <1>6

LEMMA SomeVersions ==
    ASSUME NEW S, S \subseteq Versions
    PROVE  IsFiniteSet(S) /\ Cardinality(S) \in Nat /\ \A v \in S : v \in Numbers
<1>1. IsFiniteSet(S)
  BY NegotiationAssumption, FS_Subset
<1> QED
  BY <1>1, NegotiationAssumption, FS_CardinalityType DEF Numbers

\* Of two versions the one that is before the other has more behind it.
LEMMA MoreBehind ==
    ASSUME NEW S, S \subseteq Versions, NEW v \in S, NEW w \in S, Before(w, v)
    PROVE  Cardinality({x \in S : Before(v, x)}) <= Cardinality({x \in S : Before(w, x)})
<1> DEFINE V == {x \in S : Before(v, x)}
           W == {x \in S : Before(w, x)}
<1>1. V \subseteq W
  <2> SUFFICES ASSUME NEW x \in S, Before(v, x) PROVE Before(w, x)
    OBVIOUS
  <2>1. /\ Rank(w) \in Nat /\ Rank(v) \in Nat /\ Rank(x) \in Nat
        /\ Rank(w) < Rank(v) /\ Rank(v) < Rank(x)
    BY SomeVersions, RankOrders
  <2>2. Rank(w) < Rank(x)
    BY <2>1
  <2> QED
    BY <2>2, SomeVersions, RankOrders
<1>2. IsFiniteSet(W)
  BY SomeVersions
<1> HIDE DEF V, W
<1>3. Cardinality(V) <= Cardinality(W)
  BY <1>1, <1>2, FS_Subset
<1> QED
  BY <1>3 DEF V, W

\* No more than RetainCount are left when those that are too many are gone.
LEMMA FewStay ==
    ASSUME NEW S, S \subseteq Versions
    PROVE  Cardinality(S \ TooMany(S)) <= RetainCount
<1> DEFINE K == S \ TooMany(S)
           After(v) == {x \in S : Before(v, x)}
<1>1. K \subseteq S /\ \A v \in K : ~(Cardinality(After(v)) >= RetainCount)
  BY DEF TooMany
<1>2. CASE K = {}
  BY <1>2, FS_EmptySet, NegotiationAssumption
<1>3. CASE K # {}
  <2>1. PICK m \in K : \A v \in K : Rank(m) <= Rank(v)
    <3> DEFINE R == {Rank(v) : v \in K}
    <3>0. \A v \in K : Rank(v) \in Nat
      BY <1>1, SomeVersions, RankOrders
    <3>1. R \in SUBSET Nat /\ R # {}
      BY <1>3, <3>0
    <3> HIDE DEF R
    <3>2. PICK r \in R : \A n \in R : r <= n
      BY <3>1, NatMin
    <3> QED
      BY <3>2 DEF R
  <2>2. K \ {m} \subseteq After(m)
    <3> SUFFICES ASSUME NEW v \in K, v # m PROVE Before(m, v)
      BY <1>1
    <3>1. v \in Numbers /\ m \in Numbers
      BY <1>1, SomeVersions
    <3>2. /\ Rank(v) \in Nat /\ Rank(m) \in Nat /\ Rank(m) <= Rank(v)
          /\ Rank(m) # Rank(v)
      BY <2>1, <3>1, RankOrders
    <3>3. Rank(m) < Rank(v)
      BY <3>2
    <3> QED
      BY <3>1, <3>3, RankOrders
  <2>3. /\ IsFiniteSet(K) /\ Cardinality(K) \in Nat
        /\ IsFiniteSet(After(m)) /\ Cardinality(After(m)) \in Nat
    BY <1>1, SomeVersions
  <2>4. ~(Cardinality(After(m)) >= RetainCount)
    BY <1>1
  <2>5. Cardinality(K \ {m}) = Cardinality(K) - 1
    <3> HIDE DEF K
    <3> QED
      BY <2>1, <2>3, FS_RemoveElement
  <2>6. Cardinality(K \ {m}) <= Cardinality(After(m))
    <3> HIDE DEF K, After
    <3> QED
      BY <2>2, <2>3, FS_Subset
  <2>7. Cardinality(K) <= RetainCount
    <3> HIDE DEF K, After
    <3> QED
      BY <2>3, <2>4, <2>5, <2>6, NegotiationAssumption
  <2> QED
    BY <2>7
<1> QED
  BY <1>2, <1>3

-----------------------------------------------------------------------------
(* The steps.                                                              *)

LEMMA RankTypes ==
    /\ NoStatus \in Statuses /\ Unheard \in Statused /\ NewConflict \in Conflicts
    /\ NewConflict.resolved = "UNKNOWN"
    /\ \A p \in Participants : NewConflict.status[p] = Unheard
    /\ Unheard.base.length = 0
<1>1. NoStatus \in Statuses
  BY DEF NoStatus, Statuses
<1>2. Unheard \in Statused
  BY <1>1 DEF Unheard, Statused
<1>3. NewConflict \in Conflicts
  BY <1>2 DEF NewConflict, Conflicts, Endings
<1>4. Unheard.base.length = 0
  BY DEF Unheard, NoStatus
<1> QED
  BY <1>1, <1>2, <1>3, <1>4 DEF NewConflict

\* A status becomes the base of its participant, or leaves the base alone and is
\* not a root.
LEMMA UpdatedBase ==
    ASSUME NEW d \in Statused, NEW s \in Statuses
    PROVE  /\ Updated(d, s) \in Statused
           /\ s.length = 1 => Updated(d, s).base = s
           /\ s.length # 1 /\ d # Unheard => Updated(d, s).base = d.base
BY DEF Updated, Statused

\* A status message changes one participant of one conflict.
LEMMA StatusEffect ==
    ASSUME NegoShape, NEW v \in Versions, NEW p \in Participants, StatusMessage(v, p)
    PROVE  \E s \in Statuses, old \in Conflicts, new \in Conflicts :
              /\ s.length \in 1 .. 2
              /\ old = IF v \in Known THEN conflicts[v] ELSE NewConflict
              /\ new.resolved = old.resolved
              /\ \A q \in Participants :
                    new.status[q] = IF q = p THEN Updated(old.status[q], s) ELSE old.status[q]
              /\ conflicts' = [w \in Known \cup {v} |-> IF w = v THEN new ELSE conflicts[w]]
              /\ roots' = [roots EXCEPT ![v] = [q \in Participants |->
                    IF q = p /\ s.length = 1 THEN s.flag
                    ELSE IF v \in Known THEN roots[v][q] ELSE "none"]]
<1> USE DEF NegoShape
<1>1. PICK length \in 1 .. 2, flag \in {"clear", "set"} :
         LET status == [length |-> length, flag |-> flag]
             known  == IF v \in Known THEN conflicts[v] ELSE NewConflict
         IN
         /\ conflicts' = [w \in Known \cup {v} |->
                IF w = v THEN [known EXCEPT !.status[p] = Updated(@, status)] ELSE conflicts[w]]
         /\ roots' = [roots EXCEPT ![v] = [q \in Participants |->
                IF q = p /\ length = 1 THEN flag ELSE IF v \in Known THEN @[q] ELSE "none"]]
  BY DEF StatusMessage
<1>2. PICK s, old : /\ s = [length |-> length, flag |-> flag]
                    /\ old = IF v \in Known THEN conflicts[v] ELSE NewConflict
  OBVIOUS
<1>3. s \in Statuses /\ s.length = length /\ s.flag = flag
  BY <1>2 DEF Statuses
<1>4. old \in Conflicts
  BY <1>2, RankTypes
<1>5. PICK u : u = Updated(old.status[p], s)
  OBVIOUS
<1>6. u \in Statused
  BY <1>3, <1>4, <1>5, UpdatedBase DEF Conflicts
<1>7. PICK new : new = [old EXCEPT !.status[p] = u]
  OBVIOUS
<1>8. /\ new \in Conflicts /\ new.resolved = old.resolved
      /\ \A q \in Participants : new.status[q] = IF q = p THEN u ELSE old.status[q]
  BY <1>4, <1>6, <1>7 DEF Conflicts
<1>9. conflicts' = [w \in Known \cup {v} |-> IF w = v THEN new ELSE conflicts[w]]
  BY <1>1, <1>2, <1>5, <1>7
<1>10. roots' = [roots EXCEPT ![v] = [q \in Participants |->
                    IF q = p /\ s.length = 1 THEN s.flag
                    ELSE IF v \in Known THEN roots[v][q] ELSE "none"]]
  BY <1>1, <1>3
<1>11. s.length \in 1 .. 2
  BY <1>3
<1>12. \A q \in Participants :
          new.status[q] = IF q = p THEN Updated(old.status[q], s) ELSE old.status[q]
  BY <1>5, <1>8
<1> QED
  BY <1>2, <1>3, <1>4, <1>8, <1>9, <1>10, <1>11, <1>12

\* A conclusion changes the ending of one conflict and removes some.
LEMMA ConclusionEffect ==
    ASSUME NegoShape, NEW v \in Versions, ConclusionMessage(v)
    PROVE  \E how \in {"RESOLVED", "FAILED"}, table \in [Known -> Conflicts] :
              /\ v \in Known /\ table[v].resolved = how /\ table[v].status = conflicts[v].status
              /\ \A w \in Known : w # v => table[w] = conflicts[w]
              /\ conflicts' = [w \in Known \ TooMany(ResolvedOf(table)) |-> table[w]]
              /\ concluded' = [concluded EXCEPT ![v] = how]
<1> USE DEF NegoShape
<1>0. PICK how \in {"RESOLVED", "FAILED"} :
         /\ conflicts' = [w \in Known \ TooMany(ResolvedOf([conflicts EXCEPT ![v].resolved = how])) |->
                             [conflicts EXCEPT ![v].resolved = how][w]]
         /\ concluded' = [concluded EXCEPT ![v] = how]
  BY Zenon DEF ConclusionMessage
<1>1. PICK table :
         /\ table = [conflicts EXCEPT ![v].resolved = how]
         /\ conflicts' = [w \in Known \ TooMany(ResolvedOf(table)) |-> table[w]]
  BY <1>0, ZenonT(30)
<1>2. v \in Known /\ table \in [Known -> Conflicts]
  <2>1. v \in Known
    BY DEF ConclusionMessage
  <2> QED
    BY <1>1, <2>1 DEF Conflicts, Endings
<1>3. /\ table[v].resolved = how /\ table[v].status = conflicts[v].status
      /\ \A w \in Known : w # v => table[w] = conflicts[w]
  BY <1>1, <1>2 DEF Conflicts
<1> QED
  BY <1>0, <1>1, <1>2, <1>3

LEMMA NegoShapeStep == ASSUME NegoShape, [NegoNext]_negoVars PROVE NegoShape'
<1> USE DEF NegoShape
<1>1. CASE StartSubscription \/ OnOpen \/ UNCHANGED negoVars
  <2>1. UNCHANGED <<conflicts, roots, concluded>>
    BY <1>1 DEF StartSubscription, OnOpen, negoVars
  <2>2. /\ Known' \subseteq Versions /\ conflicts' \in [Known' -> Conflicts]
        /\ roots' \in [Versions -> [Participants -> {"none", "clear", "set"}]]
        /\ concluded' \in [Versions -> Endings]
    BY <2>1 DEF Known
  <2>3. /\ socket' \in {"connecting", "open"} /\ subscribing' \in BOOLEAN
        /\ subscribed' \in BOOLEAN /\ (subscribed' => socket' = "open")
    <3>1. CASE StartSubscription
      BY <3>1 DEF StartSubscription
    <3>2. CASE OnOpen
      BY <3>2 DEF OnOpen
    <3>3. CASE UNCHANGED negoVars
      BY <3>3 DEF negoVars
    <3> QED
      BY <1>1, <3>1, <3>2, <3>3
  <2> QED
    BY <2>2, <2>3
<1>2. ASSUME NEW v \in Versions, ConclusionMessage(v) PROVE NegoShape'
  <2>1. PICK how \in {"RESOLVED", "FAILED"}, table \in [Known -> Conflicts] :
              /\ conflicts' = [w \in Known \ TooMany(ResolvedOf(table)) |-> table[w]]
              /\ concluded' = [concluded EXCEPT ![v] = how]
    BY <1>2, ConclusionEffect
  <2>2. Known' \subseteq Versions /\ conflicts' \in [Known' -> Conflicts]
    BY <2>1 DEF Known
  <2>3. concluded' \in [Versions -> Endings]
    BY <2>1 DEF Endings
  <2> QED
    BY <1>2, <2>2, <2>3 DEF ConclusionMessage
<1>3. ASSUME NEW v \in Versions, NEW p \in Participants, StatusMessage(v, p) PROVE NegoShape'
  <2>1. PICK s \in Statuses, old \in Conflicts, new \in Conflicts :
              /\ s.length \in 1 .. 2
              /\ old = IF v \in Known THEN conflicts[v] ELSE NewConflict
              /\ new.resolved = old.resolved
              /\ \A q \in Participants :
                    new.status[q] = IF q = p THEN Updated(old.status[q], s) ELSE old.status[q]
              /\ conflicts' = [w \in Known \cup {v} |-> IF w = v THEN new ELSE conflicts[w]]
              /\ roots' = [roots EXCEPT ![v] = [q \in Participants |->
                    IF q = p /\ s.length = 1 THEN s.flag
                    ELSE IF v \in Known THEN roots[v][q] ELSE "none"]]
    BY <1>3, StatusEffect
  <2>2. Known' \subseteq Versions /\ conflicts' \in [Known' -> Conflicts]
    BY <2>1 DEF Known
  <2>3. roots' \in [Versions -> [Participants -> {"none", "clear", "set"}]]
    <3>1. s.flag \in {"clear", "set"}
      BY DEF Statuses
    <3>2. [q \in Participants |-> IF q = p /\ s.length = 1 THEN s.flag
              ELSE IF v \in Known THEN roots[v][q] ELSE "none"]
             \in [Participants -> {"none", "clear", "set"}]
      BY <3>1
    <3> QED
      BY <2>1, <3>2
  <2>4. concluded' \in [Versions -> Endings]
    BY <1>3 DEF StatusMessage, Endings
  <2> QED
    BY <1>3, <2>2, <2>3, <2>4 DEF StatusMessage
<1> QED
  BY <1>1, <1>2, <1>3 DEF NegoNext

LEMMA NegoStep ==
    ASSUME NegoInv, [NegoNext]_negoVars
    PROVE  NegoInv' /\ [NewestStay /\ OnlyResolvedVanish]_negoVars
<1> USE DEF NegoInv
<1>0. NegoShape'
  BY NegoShapeStep
<1>1. CASE StartSubscription \/ OnOpen \/ UNCHANGED negoVars
  <2>1. UNCHANGED <<conflicts, roots, concluded>>
    BY <1>1 DEF StartSubscription, OnOpen, negoVars
  <2> QED
    BY <1>0, <2>1 DEF RootIsBase, EndingIsLast, RetainedInv, ResolvedOf, Known, NewestStay, OnlyResolvedVanish
<1>2. ASSUME NEW v \in Versions, ConclusionMessage(v)
      PROVE  NegoInv' /\ NewestStay /\ OnlyResolvedVanish
  <2>1. PICK how \in {"RESOLVED", "FAILED"}, table \in [Known -> Conflicts] :
              /\ v \in Known /\ table[v].resolved = how /\ table[v].status = conflicts[v].status
              /\ \A w \in Known : w # v => table[w] = conflicts[w]
              /\ conflicts' = [w \in Known \ TooMany(ResolvedOf(table)) |-> table[w]]
              /\ concluded' = [concluded EXCEPT ![v] = how]
    BY <1>2, ConclusionEffect
  <2>2. roots' = roots
    BY <1>2 DEF ConclusionMessage
  <2>3. /\ Known' = Known \ TooMany(ResolvedOf(table)) /\ DOMAIN table = Known
        /\ \A w \in Known' : conflicts'[w] = table[w]
    BY <2>1 DEF Known
  <2>4. \A w \in Known : table[w].status = conflicts[w].status
    BY <2>1
  <2>5. RootIsBase'
    BY <2>2, <2>3, <2>4 DEF RootIsBase
  <2>6. \A w \in Known : table[w].resolved = concluded'[w]
    BY <2>1 DEF NegoShape, EndingIsLast
  <2>7. EndingIsLast'
    BY <2>3, <2>6 DEF EndingIsLast
  <2>8. PICK S : S = ResolvedOf(table)
    OBVIOUS
  <2>9. S \subseteq Versions /\ S \subseteq Known
    BY <2>3, <2>8 DEF ResolvedOf, NegoShape
  <2>10. ResolvedOf(conflicts') = S \ TooMany(S)
    BY <2>3, <2>8 DEF ResolvedOf, Known
  <2>11. RetainedInv'
    BY <2>9, <2>10, FewStay DEF RetainedInv
  <2>12. OnlyResolvedVanish
    <3>1. TooMany(S) \subseteq S
      BY DEF TooMany
    <3> QED
      BY <2>3, <2>6, <2>8, <3>1 DEF OnlyResolvedVanish, ResolvedOf, Known
  <2>13. NewestStay
    <3> SUFFICES ASSUME NEW x \in Known \ DOMAIN conflicts', NEW w \in ResolvedOf(conflicts'),
                        ~(x < w), ~(Digits(x) > Digits(w))
                 PROVE  FALSE
      BY DEF NewestStay
    <3>1. x \in TooMany(S) /\ w \in S \ TooMany(S)
      BY <2>3, <2>8, <2>10 DEF Known
    <3>2. x \in S /\ Cardinality({y \in S : Before(x, y)}) >= RetainCount
      BY <3>1 DEF TooMany
    <3>3. w \in S /\ ~(Cardinality({y \in S : Before(w, y)}) >= RetainCount)
      BY <3>1 DEF TooMany
    <3>4. x \in Numbers /\ w \in Numbers /\ x # w
      BY <2>9, <3>1, <3>2, <3>3, SomeVersions
    <3>5. w < x
      BY <3>4 DEF Numbers
    <3>6. Before(w, x)
      <4>1. Before(w, x) \/ Digits(w) < Digits(x)
        BY <3>4, <3>5, RankOrders
      <4>2. Digits(w) \in 1 .. 6 /\ Digits(x) \in 1 .. 6
        BY <3>4 DEF Digits, Numbers
      <4> QED
        BY <4>1, <4>2
    <3>7. PICK m \in Nat, n \in Nat : /\ m = Cardinality({y \in S : Before(x, y)})
                                      /\ n = Cardinality({y \in S : Before(w, y)})
      <4>1. \A T : T \subseteq S => Cardinality(T) \in Nat
        BY <2>9, SomeVersions
      <4> QED
        BY <4>1
    <3>8. m <= n
      BY <2>9, <3>2, <3>3, <3>6, <3>7, MoreBehind
    <3> QED
      BY <3>2, <3>3, <3>7, <3>8, NegotiationAssumption
  <2> QED
    BY <1>0, <2>5, <2>7, <2>11, <2>12, <2>13
<1>3. ASSUME NEW v \in Versions, NEW p \in Participants, StatusMessage(v, p)
      PROVE  NegoInv' /\ NewestStay /\ OnlyResolvedVanish
  <2>1. PICK s \in Statuses, old \in Conflicts, new \in Conflicts :
              /\ s.length \in 1 .. 2
              /\ old = IF v \in Known THEN conflicts[v] ELSE NewConflict
              /\ new.resolved = old.resolved
              /\ \A q \in Participants :
                    new.status[q] = IF q = p THEN Updated(old.status[q], s) ELSE old.status[q]
              /\ conflicts' = [w \in Known \cup {v} |-> IF w = v THEN new ELSE conflicts[w]]
              /\ roots' = [roots EXCEPT ![v] = [q \in Participants |->
                    IF q = p /\ s.length = 1 THEN s.flag
                    ELSE IF v \in Known THEN roots[v][q] ELSE "none"]]
    BY <1>3, StatusEffect
  <2>2. concluded' = [concluded EXCEPT ![v] = IF v \in Known THEN concluded[v] ELSE "UNKNOWN"]
    BY <1>3 DEF StatusMessage
  <2>3. /\ Known' = Known \cup {v}
        /\ \A w \in Known' : conflicts'[w] = IF w = v THEN new ELSE conflicts[w]
    BY <2>1 DEF Known
  <2>4. /\ \A w \in Versions : w # v => roots'[w] = roots[w]
        /\ \A q \in Participants :
              roots'[v][q] = IF q = p /\ s.length = 1 THEN s.flag
                             ELSE IF v \in Known THEN roots[v][q] ELSE "none"
    BY <2>1 DEF NegoShape
  <2>5. RootIsBase'
    <3> SUFFICES ASSUME NEW w \in Known', NEW q \in Participants, roots'[w][q] # "none"
                 PROVE  conflicts'[w].status[q].base = [length |-> 1, flag |-> roots'[w][q]]
      BY DEF RootIsBase
    <3>1. CASE w # v
      BY <2>3, <2>4, <3>1 DEF RootIsBase, NegoShape
    <3>2. CASE w = v /\ q = p /\ s.length = 1
      <4>1. old.status[q] \in Statused
        BY DEF Conflicts
      <4>2. conflicts'[w].status[q].base = s /\ roots'[w][q] = s.flag
        BY <2>1, <2>3, <2>4, <3>2, <4>1, UpdatedBase
      <4>3. s = [length |-> 1, flag |-> s.flag]
        BY <3>2 DEF Statuses
      <4> QED
        BY <4>2, <4>3
    <3>3. CASE w = v /\ q = p /\ s.length # 1
      <4>1. old.status[q] \in Statused
        BY DEF Conflicts
      <4>2. v \in Known /\ roots'[w][q] = roots[v][q]
        BY <2>4, <3>3
      <4>3. old.status[q].base = [length |-> 1, flag |-> roots[v][q]]
        BY <2>1, <4>2 DEF RootIsBase
      <4>4. old.status[q] # Unheard
        <5>1. old.status[q].base.length = 1
          BY <4>3
        <5> QED
          BY <5>1, RankTypes
      <4>5. conflicts'[w].status[q].base = old.status[q].base
        BY <2>1, <2>3, <3>3, <4>1, <4>4, UpdatedBase
      <4> QED
        BY <4>2, <4>3, <4>5
    <3>4. CASE w = v /\ q # p
      <4>1. v \in Known /\ roots'[w][q] = roots[v][q]
        BY <2>4, <3>4
      <4>2. conflicts'[w].status[q] = conflicts[v].status[q]
        BY <2>1, <2>3, <3>4, <4>1
      <4> QED
        BY <4>1, <4>2 DEF RootIsBase
    <3> QED
      BY <3>1, <3>2, <3>3, <3>4
  <2>6. \A w \in Known' : conflicts'[w].resolved = IF w \in Known THEN conflicts[w].resolved ELSE "UNKNOWN"
    BY <2>1, <2>3, RankTypes
  <2>7. EndingIsLast'
    BY <2>2, <2>3, <2>6 DEF EndingIsLast, NegoShape
  <2>8. ResolvedOf(conflicts') = ResolvedOf(conflicts)
    BY <2>3, <2>6 DEF ResolvedOf, Known
  <2>9. RetainedInv'
    BY <2>8 DEF RetainedInv
  <2>10. NewestStay /\ OnlyResolvedVanish
    BY <2>3 DEF NewestStay, OnlyResolvedVanish, Known
  <2> QED
    BY <1>0, <2>5, <2>7, <2>9, <2>10
<1> QED
  BY <1>1, <1>2, <1>3 DEF NegoNext

LEMMA NegoStart == NegoInit => NegoInv
<1> SUFFICES ASSUME NegoInit PROVE NegoInv
  OBVIOUS
<1> USE DEF NegoInit
<1>1. Known = {}
  BY DEF Known
<1>2. NegoShape
  BY <1>1 DEF NegoShape, Endings
<1>3. ResolvedOf(conflicts) = {}
  BY <1>1 DEF ResolvedOf, Known
<1>4. RetainedInv
  <2>1. Cardinality({}) = 0 /\ RetainCount \in Nat
    BY FS_EmptySet, NegotiationAssumption
  <2>2. Cardinality(ResolvedOf(conflicts)) = 0
    BY <1>3, <2>1, Zenon
  <2> QED
    BY <2>1, <2>2 DEF RetainedInv
<1> QED
  BY <1>1, <1>2, <1>4 DEF NegoInv, RootIsBase, EndingIsLast

\* negotiation-status-manager.ts: the table, for any versions below 100, any
\* participants and any number of conflicts that are kept, which bounds it.
THEOREM NegoTypeCorrect == NegoSpec => []NegoTypeOK
<1>1. NegoInv => NegoTypeOK
  BY DEF NegoInv, NegoShape, RetainedInv, NegoTypeOK, Conflicts, Endings
<1> QED
  BY <1>1, NegoStart, NegoStep, PTL DEF NegoSpec

\* The bases are the last roots, and what is removed from the table was resolved
\* and is older than every resolved conflict that stays.
THEOREM NegotiationsStayKept == NegoSpec => NegotiationsAreKept
<1>1. NegoInv => RootIsBase
  BY DEF NegoInv
<1> QED
  BY <1>1, NegoStart, NegoStep, PTL DEF NegoSpec, NegotiationsAreKept

-----------------------------------------------------------------------------
(* TrajectorySocket.                                                       *)

Listening    == Elems(sockListeners)
Suspended    == Elems(waiting)
LastListener == Len(sockListeners)

\* A request that was sent listens or waits.
PlaceInv ==
    /\ Distinct(sent) /\ Distinct(sockListeners) /\ Distinct(waiting)
    /\ Listening \cap Suspended = {}
    /\ Sent = Listening \cup Suspended

\* What is ongoing, and what is waited for, listens and is not resolved.
PromiseInv ==
    /\ \A m \in Managers : ongoing[m] # NoRequest =>
          OwnerOf(ongoing[m]) = m /\ ongoing[m] \in Listening /\ got[ongoing[m]] = NoRequest
    /\ \A q \in Requests : awaits[q] # NoRequest =>
          q \in Sent /\ OwnerOf(awaits[q]) = OwnerOf(q)
    /\ \A q \in Suspended : awaits[q] \in Listening /\ got[awaits[q]] = NoRequest

\* Who is resolved when: those whose listener was called.
CallInv ==
    /\ Dispatching => arrived > 0
    /\ \A q \in Requests :
          IF got[q] = NoRequest THEN at[q] = 0 ELSE at[q] > 0 /\ q \in Listening
    /\ \A i \in 1 .. LastListener :
          /\ i < next => got[sockListeners[i]] # NoRequest
          /\ i > until => got[sockListeners[i]] = NoRequest
          /\ next <= i /\ i <= until => at[sockListeners[i]] < arrived

\* Who waited listens for a message after the one it waited for.
AwaitInv ==
    /\ AwaitedFirst
    /\ \A i \in 1 .. LastListener : awaits[sockListeners[i]] # NoRequest =>
          /\ got[awaits[sockListeners[i]]] # NoRequest
          /\ at[awaits[sockListeners[i]]] < arrived \/ i > until

\* A manager with few requests in flight: its listeners are resolved one after
\* the other, one with each message, and in the order of the requests.
TwoPending(m) == \A x, y, z \in Pending(m) : x = y \/ y = z \/ x = z

InTurn(m) ==
    \A i, j \in 1 .. LastListener :
        i < j /\ OwnerOf(sockListeners[i]) = m /\ OwnerOf(sockListeners[j]) = m =>
            /\ got[sockListeners[i]] # NoRequest
            /\ got[sockListeners[j]] # NoRequest => at[sockListeners[i]] < at[sockListeners[j]]

NewIsOngoing(m) ==
    \A i \in 1 .. LastListener : i > until /\ OwnerOf(sockListeners[i]) = m => ongoing[m] = sockListeners[i]

OneIsCalled(m) ==
    \A i, j \in 1 .. LastListener :
        /\ OwnerOf(sockListeners[i]) = m /\ OwnerOf(sockListeners[j]) = m
        /\ next <= j /\ j <= until
        => i <= until /\ (i < next => at[sockListeners[i]] < arrived)

AsSent(m) ==
    \A i, j \in 1 .. Len(sent), p \in 1 .. LastListener :
        /\ i < j /\ OwnerOf(sent[i]) = m /\ OwnerOf(sent[j]) = m /\ sockListeners[p] = sent[j]
        => \E k \in 1 .. LastListener : k < p /\ sockListeners[k] = sent[i]

OrderInv(m) == TwoPending(m) /\ InTurn(m) /\ NewIsOngoing(m) /\ OneIsCalled(m) /\ AsSent(m)

FewInv == \A m \in Managers : ~crowded[m] => OrderInv(m)

\* Without pushed messages the n-th message is the reply to the n-th request.
LinkInv ==
    pushed = 0 =>
        /\ Len(sent) = arrived + Len(down) + Len(up)
        /\ \A i \in 1 .. Len(down) : down[i] = sent[arrived + i]
        /\ \A i \in 1 .. Len(up) : up[i] = sent[arrived + Len(down) + i]
        /\ arrived > 0 => heard = sent[arrived]

OneManager ==
    \A q, s \in Sent : OwnerOf(q) = OwnerOf(s) /\ ~crowded[OwnerOf(q)]

MatchInv ==
    pushed = 0 /\ OneManager =>
        \A i \in 1 .. Len(sent) :
            /\ got[sent[i]] # NoRequest => got[sent[i]] = sent[i] /\ at[sent[i]] = i
            /\ i < arrived => got[sent[i]] # NoRequest
            /\ i = arrived /\ got[sent[i]] = NoRequest =>
                  \E p \in 1 .. LastListener : next <= p /\ p <= until /\ sockListeners[p] = sent[i]

SocketInv ==
    /\ SocketTypeOK /\ PlaceInv /\ PromiseInv /\ CallInv /\ AwaitInv /\ FewInv
    /\ LinkInv /\ MatchInv

-----------------------------------------------------------------------------
(* What the actions do, without the operators on sequences.                *)

LEMMA RequestFacts ==
    /\ \A q \in Requests : OwnerOf(q) \in Managers /\ q # NoRequest /\ q \in Messages
    /\ NoRequest \notin Requests /\ NoRequest \notin Messages
<1>1. \A q \in Requests : OwnerOf(q) \in Managers
  BY DEF Requests, OwnerOf
<1> QED
  BY <1>1, SocketAssumption DEF Messages

LEMMA ElemsIn ==
    ASSUME NEW s \in Seq(Requests)
    PROVE  /\ Len(s) \in Nat /\ Elems(s) \subseteq Requests
           /\ \A i \in 1 .. Len(s) : s[i] \in Requests /\ s[i] \in Elems(s)
BY DEF Elems

\* Grows(s, t, e): t is s with e at its end.
Grows(s, t, e) ==
    /\ t \in Seq(Requests) /\ Len(t) = Len(s) + 1 /\ t[Len(s) + 1] = e
    /\ \A i \in 1 .. Len(s) : t[i] = s[i]
    /\ Elems(t) = Elems(s) \cup {e}
    /\ Distinct(s) /\ e \notin Elems(s) => Distinct(t)

LEMMA AppendGrows ==
    ASSUME NEW s \in Seq(Requests), NEW e \in Requests
    PROVE  Grows(s, Append(s, e), e)
BY AppendElems DEF Grows

\* SendMessage(q) when q listens at once, and when it waits.
SendEffect(q) ==
    /\ q \notin Sent /\ Sent' = Sent \cup {q} /\ Callable(q)
    /\ Grows(sent, sent', q) /\ Grows(up, up', q)
    /\ crowded' \in [Managers -> BOOLEAN]
    /\ \A m \in Managers : m # OwnerOf(q) => crowded'[m] = crowded[m]
    /\ crowded'[OwnerOf(q)] = (crowded[OwnerOf(q)] \/ \E r, s \in Pending(OwnerOf(q)) : r # s)
    /\ UNCHANGED <<down, pushed, dispatch, got, at>>
    /\ \/ /\ ongoing[OwnerOf(q)] = NoRequest
          /\ ongoing' \in [Managers -> Requests \cup {NoRequest}]
          /\ ongoing'[OwnerOf(q)] = q
          /\ \A m \in Managers : m # OwnerOf(q) => ongoing'[m] = ongoing[m]
          /\ Grows(sockListeners, sockListeners', q)
          /\ UNCHANGED <<waiting, awaits>>
       \/ /\ ongoing[OwnerOf(q)] # NoRequest
          /\ Grows(waiting, waiting', q)
          /\ awaits' \in [Requests -> Requests \cup {NoRequest}]
          /\ awaits'[q] = ongoing[OwnerOf(q)]
          /\ \A s \in Requests : s # q => awaits'[s] = awaits[s]
          /\ UNCHANGED <<ongoing, sockListeners>>

LEMMA SendHasEffect ==
    ASSUME SocketTypeOK, NEW q \in Requests, SendMessage(q)
    PROVE  SendEffect(q)
<1> DEFINE m == OwnerOf(q)
<1>0. m \in Managers
  BY RequestFacts
<1>1. /\ sent \in Seq(Requests) /\ up \in Seq(Requests) /\ waiting \in Seq(Requests)
      /\ sockListeners \in Seq(Requests)
      /\ crowded \in [Managers -> BOOLEAN]
      /\ ongoing \in [Managers -> Requests \cup {NoRequest}]
      /\ awaits \in [Requests -> Requests \cup {NoRequest}]
  BY DEF SocketTypeOK
<1>2. /\ q \notin Sent /\ Callable(q)
      /\ sent' = Append(sent, q) /\ up' = Append(up, q)
      /\ crowded' = [crowded EXCEPT ![m] = @ \/ \E r, s \in Pending(m) : r # s]
      /\ UNCHANGED <<down, pushed, dispatch, got, at>>
  BY DEF SendMessage, SendPayload
<1>3. Grows(sent, sent', q) /\ Grows(up, up', q)
  BY <1>1, <1>2, AppendGrows
<1>4. Sent' = Sent \cup {q}
  <2>1. Sent = Elems(sent)
    BY <1>1 DEF Sent, Elems
  <2>2. Sent' = Elems(sent')
    BY <1>3 DEF Sent, Elems, Grows
  <2> QED
    BY <1>3, <2>1, <2>2 DEF Grows
<1>5. /\ crowded' \in [Managers -> BOOLEAN]
      /\ \A n \in Managers : n # m => crowded'[n] = crowded[n]
      /\ crowded'[m] = (crowded[m] \/ \E r, s \in Pending(m) : r # s)
  <2> DEFINE two == \E r, s \in Pending(m) : r # s
  <2>1. two \in BOOLEAN /\ crowded' = [crowded EXCEPT ![m] = @ \/ two]
    BY <1>2
  <2> HIDE DEF two, m
  <2>2. /\ crowded' \in [Managers -> BOOLEAN]
        /\ \A n \in Managers : n # m => crowded'[n] = crowded[n]
        /\ crowded'[m] = (crowded[m] \/ two)
    BY <1>0, <1>1, <2>1
  <2> QED
    BY <2>2 DEF two
<1> DEFINE listens ==
             /\ ongoing[m] = NoRequest
             /\ ongoing' = [ongoing EXCEPT ![m] = q]
             /\ sockListeners' = Append(sockListeners, q)
             /\ UNCHANGED <<waiting, awaits>>
           waits ==
             /\ ongoing[m] # NoRequest
             /\ waiting' = Append(waiting, q)
             /\ awaits' = [awaits EXCEPT ![q] = ongoing[m]]
             /\ UNCHANGED <<ongoing, sockListeners>>
<1>6. listens \/ waits
  BY DEF SendMessage, Listen
<1>7. CASE listens
  <2>1. Grows(sockListeners, sockListeners', q)
    BY <1>1, <1>7, AppendGrows
  <2>2. /\ ongoing' \in [Managers -> Requests \cup {NoRequest}]
        /\ ongoing'[m] = q
        /\ \A n \in Managers : n # m => ongoing'[n] = ongoing[n]
    BY <1>0, <1>1, <1>7
  <2> QED
    BY <1>2, <1>3, <1>4, <1>5, <1>7, <2>1, <2>2 DEF SendEffect
<1>8. CASE waits
  <2>1. Grows(waiting, waiting', q)
    BY <1>1, <1>8, AppendGrows
  <2>2. /\ awaits' \in [Requests -> Requests \cup {NoRequest}]
        /\ awaits'[q] = ongoing[m]
        /\ \A s \in Requests : s # q => awaits'[s] = awaits[s]
    BY <1>0, <1>1, <1>8
  <2> QED
    BY <1>2, <1>3, <1>4, <1>5, <1>8, <2>1, <2>2 DEF SendEffect
<1> QED
  BY <1>6, <1>7, <1>8

\* CallListener, when q is the listener and r are the requests that resume.
CallEffect(q, r) ==
    /\ next \in 1 .. LastListener /\ next <= until /\ q = sockListeners[next]
    /\ r \in Seq(Requests) /\ Distinct(r)
    /\ \A w \in Requests : w \in Elems(r) <=> w \in Suspended /\ awaits[w] = q
    /\ sockListeners' \in Seq(Requests) /\ LastListener' = LastListener + Len(r)
    /\ \A i \in 1 .. LastListener : sockListeners'[i] = sockListeners[i]
    /\ \A i \in 1 .. Len(r) : sockListeners'[LastListener + i] = r[i]
    /\ Listening' = Listening \cup Elems(r)
    /\ Distinct(sockListeners) /\ Listening \cap Elems(r) = {} => Distinct(sockListeners')
    /\ waiting' \in Seq(Requests)
    /\ \A w \in Requests : w \in Suspended' <=> w \in Suspended /\ awaits[w] # q
    /\ Distinct(waiting) => Distinct(waiting')
    /\ got' \in [Requests -> Messages \cup {NoRequest}]
    /\ at' \in [Requests -> 0 .. arrived]
    /\ \A s \in Requests : s # q => got'[s] = got[s] /\ at'[s] = at[s]
    /\ got[q] # NoRequest => got'[q] = got[q] /\ at'[q] = at[q]
    /\ got[q] = NoRequest => got'[q] = heard /\ at'[q] = arrived
    /\ ongoing' \in [Managers -> Requests \cup {NoRequest}]
    /\ \A m \in Managers : m # OwnerOf(q) => ongoing'[m] = ongoing[m]
    /\ Len(r) = 0 => ongoing'[OwnerOf(q)] = NoRequest
    /\ Len(r) > 0 => ongoing'[OwnerOf(q)] = r[Len(r)]
    /\ next' = next + 1
    /\ UNCHANGED <<sent, link, awaits, heard, arrived, until, crowded>>

LEMMA CallHasEffect ==
    ASSUME SocketTypeOK, PlaceInv, CallListener
    PROVE  \E q \in Requests, r \in Seq(Requests) : CallEffect(q, r)
<1>1. /\ waiting \in Seq(Requests) /\ sockListeners \in Seq(Requests)
      /\ ongoing \in [Managers -> Requests \cup {NoRequest}]
      /\ heard \in Messages /\ arrived \in Nat
      /\ next \in 1 .. until + 1 /\ until \in 0 .. LastListener
      /\ got \in [Requests -> Messages \cup {NoRequest}] /\ at \in [Requests -> 0 .. arrived]
  BY DEF SocketTypeOK, LastListener
<1>2. next \in 1 .. LastListener /\ next <= until
  <2>1. next <= until
    BY DEF CallListener, Dispatching
  <2> QED
    BY <1>1, <2>1, ElemsIn DEF LastListener
<1>3. PICK q \in Requests : q = sockListeners[next]
  BY <1>1, <1>2, ElemsIn DEF LastListener
<1> DEFINE of  == {w \in Requests : awaits[w] = q}
           not == {w \in Requests : awaits[w] # q}
           r == Kept(waiting, of)
           m == OwnerOf(q)
<1>4. m \in Managers
  BY RequestFacts
<1>5. /\ got' = IF got[q] = NoRequest THEN [got EXCEPT ![q] = heard] ELSE got
      /\ at' = IF got[q] = NoRequest THEN [at EXCEPT ![q] = arrived] ELSE at
      /\ ongoing' = [ongoing EXCEPT ![m] = IF r = <<>> THEN NoRequest ELSE r[Len(r)]]
      /\ sockListeners' = sockListeners \o r
      /\ waiting' = Kept(waiting, not)
      /\ next' = next + 1
      /\ UNCHANGED <<sent, link, awaits, heard, arrived, until, crowded>>
  BY <1>3 DEF CallListener, CallAndResume, WaitingFor
<1>6. /\ r \in Seq(Requests)
      /\ Distinct(waiting) => Distinct(r)
      /\ Elems(r) = Suspended \cap of
  <2>1. Kept(waiting, of) \in Seq(Requests \cap of)
    BY <1>1, KeptInSeq
  <2>2. Requests \cap of \subseteq Requests
    OBVIOUS
  <2>3. r \in Seq(Requests)
    BY <2>1, <2>2
  <2> QED
    BY <1>1, <2>3, KeptElems, KeptDistinct DEF Suspended
<1>7. /\ waiting' \in Seq(Requests)
      /\ Distinct(waiting) => Distinct(waiting')
      /\ Suspended' = Suspended \cap not
  <2> DEFINE k == Kept(waiting, not)
  <2>1. k \in Seq(Requests \cap not)
    BY <1>1, KeptInSeq
  <2>2. Requests \cap not \subseteq Requests
    OBVIOUS
  <2>3. k \in Seq(Requests)
    BY <2>1, <2>2
  <2>4. Elems(k) = Suspended \cap not /\ (Distinct(waiting) => Distinct(k))
    BY <1>1, KeptElems, KeptDistinct DEF Suspended
  <2> HIDE DEF k, not
  <2> QED
    BY <1>5, <2>3, <2>4 DEF Suspended, k
<1>8. /\ LastListener' = LastListener + Len(r) /\ sockListeners' \in Seq(Requests)
      /\ \A i \in 1 .. LastListener : sockListeners'[i] = sockListeners[i]
      /\ \A i \in 1 .. Len(r) : sockListeners'[LastListener + i] = r[i]
      /\ Listening' = Listening \cup Elems(r)
      /\ Distinct(sockListeners) /\ Distinct(r) /\ Listening \cap Elems(r) = {} =>
            Distinct(sockListeners')
  <2> HIDE DEF r
  <2>1. /\ Len(sockListeners \o r) = Len(sockListeners) + Len(r)
        /\ sockListeners \o r \in Seq(Requests)
        /\ \A i \in 1 .. Len(sockListeners) : (sockListeners \o r)[i] = sockListeners[i]
        /\ \A i \in 1 .. Len(r) : (sockListeners \o r)[Len(sockListeners) + i] = r[i]
    BY <1>1, <1>6
  <2>2. /\ Elems(sockListeners \o r) = Listening \cup Elems(r)
        /\ Distinct(sockListeners) /\ Distinct(r) /\ Listening \cap Elems(r) = {} =>
              Distinct(sockListeners \o r)
    BY <1>1, <1>6, ConcatElems DEF Listening
  <2> QED
    BY <1>5, <2>1, <2>2 DEF Listening, LastListener
<1>9. /\ got' \in [Requests -> Messages \cup {NoRequest}]
      /\ at' \in [Requests -> 0 .. arrived]
      /\ \A s \in Requests : s # q => got'[s] = got[s] /\ at'[s] = at[s]
      /\ got[q] # NoRequest => got'[q] = got[q] /\ at'[q] = at[q]
      /\ got[q] = NoRequest => got'[q] = heard /\ at'[q] = arrived
  <2>1. arrived \in 0 .. arrived
    BY <1>1
  <2>2. CASE got[q] = NoRequest
    BY <1>1, <1>5, <2>1, <2>2
  <2>3. CASE got[q] # NoRequest
    BY <1>1, <1>5, <2>3
  <2> QED
    BY <2>2, <2>3
<1>10. /\ ongoing' \in [Managers -> Requests \cup {NoRequest}]
       /\ \A n \in Managers : n # m => ongoing'[n] = ongoing[n]
       /\ Len(r) = 0 => ongoing'[m] = NoRequest
       /\ Len(r) > 0 => ongoing'[m] = r[Len(r)]
  <2> HIDE DEF r, m
  <2>1. r \in Seq(Requests) /\ Len(r) \in Nat
    BY <1>6
  <2>2. CASE Len(r) = 0
    <3>1. r = <<>>
      BY <2>1, <2>2
    <3> QED
      BY <1>1, <1>4, <1>5, <2>2, <3>1
  <2>3. CASE Len(r) > 0
    <3>1. r # <<>> /\ r[Len(r)] \in Requests
      BY <2>1, <2>3
    <3> QED
      BY <1>1, <1>4, <1>5, <2>3, <3>1
  <2> QED
    BY <2>1, <2>2, <2>3
<1>11. Distinct(r)
  BY <1>6 DEF PlaceInv
<1>12. /\ \A w \in Requests : w \in Elems(r) <=> w \in Suspended /\ awaits[w] = q
       /\ \A w \in Requests : w \in Suspended' <=> w \in Suspended /\ awaits[w] # q
  <2> HIDE DEF r
  <2> QED
    BY <1>6, <1>7
<1> HIDE DEF r, of, not
<1>13. CallEffect(q, r)
  BY <1>2, <1>3, <1>5, <1>6, <1>7, <1>8, <1>9, <1>10, <1>11, <1>12 DEF CallEffect
<1> QED
  BY <1>6, <1>13

LEMMA TypeFacts ==
    ASSUME SocketTypeOK
    PROVE  /\ Len(sent) \in Nat /\ LastListener \in Nat
           /\ Sent = Elems(sent) /\ Sent \subseteq Requests
           /\ Listening \subseteq Requests /\ Suspended \subseteq Requests
           /\ \A i \in 1 .. Len(sent) : sent[i] \in Sent
           /\ \A i \in 1 .. LastListener : sockListeners[i] \in Listening
           /\ \A q \in Listening : \E i \in 1 .. LastListener : sockListeners[i] = q
           /\ \A q \in Sent : \E i \in 1 .. Len(sent) : sent[i] = q
           /\ next \in Nat /\ until \in Nat /\ 1 <= next /\ next <= until + 1 /\ until <= LastListener
           /\ arrived \in Nat
           /\ \A q \in Requests : at[q] \in Nat /\ at[q] <= arrived
<1>1. /\ sent \in Seq(Requests) /\ waiting \in Seq(Requests) /\ sockListeners \in Seq(Requests)
      /\ arrived \in Nat
      /\ next \in 1 .. until + 1 /\ until \in 0 .. Len(sockListeners)
      /\ at \in [Requests -> 0 .. arrived]
  BY DEF SocketTypeOK
<1>2. Len(sent) \in Nat /\ LastListener \in Nat
  BY <1>1, ElemsIn DEF LastListener
<1>3. Sent = Elems(sent)
  BY <1>1 DEF Sent, Elems
<1>4. Sent \subseteq Requests /\ Listening \subseteq Requests /\ Suspended \subseteq Requests
  BY <1>1, <1>3, ElemsIn DEF Listening, Suspended
<1>5. /\ \A i \in 1 .. Len(sent) : sent[i] \in Sent
      /\ \A i \in 1 .. LastListener : sockListeners[i] \in Listening
      /\ \A q \in Listening : \E i \in 1 .. LastListener : sockListeners[i] = q
      /\ \A q \in Sent : \E i \in 1 .. Len(sent) : sent[i] = q
  BY <1>3 DEF Listening, Elems, LastListener
<1>6. \A q \in Requests : at[q] \in Nat /\ at[q] <= arrived
  BY <1>1
<1>7. next \in Nat /\ until \in Nat /\ 1 <= next /\ next <= until + 1 /\ until <= LastListener
  BY <1>1, <1>2 DEF LastListener
<1> QED
  BY <1>1, <1>2, <1>3, <1>4, <1>5, <1>6, <1>7

-----------------------------------------------------------------------------
(* Sending.                                                                *)

\* Who can send and finds no ongoing request has no listener left to resolve,
\* and none that is yet to be called.
LEMMA NobodyListens ==
    ASSUME SocketInv, NEW q \in Requests, Callable(q), ~crowded[OwnerOf(q)],
           ongoing[OwnerOf(q)] = NoRequest
    PROVE  /\ \A i \in 1 .. LastListener : OwnerOf(sockListeners[i]) = OwnerOf(q) =>
                  got[sockListeners[i]] # NoRequest /\ i < next
           /\ \A w \in Suspended : OwnerOf(w) # OwnerOf(q)
<1> DEFINE m == OwnerOf(q)
<1>1. m \in Managers /\ OrderInv(m)
  BY RequestFacts DEF SocketInv, FewInv
<1>2. ASSUME NEW i \in 1 .. LastListener, OwnerOf(sockListeners[i]) = m
      PROVE  got[sockListeners[i]] # NoRequest /\ i < next
  <2>1. sockListeners[i] \in Requests /\ sockListeners[i] # NoRequest
    BY TypeFacts, RequestFacts DEF SocketInv
  <2>2. i <= until
    <3>1. i > until => ongoing[m] = sockListeners[i]
      BY <1>1, <1>2 DEF OrderInv, NewIsOngoing
    <3> QED
      BY <2>1, <3>1, TypeFacts DEF SocketInv
  <2>3. i < next
    <3>1. CASE ~Dispatching
      BY <2>2, <3>1, TypeFacts DEF Dispatching, SocketInv
    <3>2. CASE Dispatching
      <4> DEFINE k == next - 1
      <4>1. next > 1 /\ at[sockListeners[k]] = arrived /\ OwnerOf(sockListeners[k]) = m
        BY <3>2 DEF Callable
      <4>2. k \in 1 .. LastListener /\ k < next /\ next <= until
        BY <3>2, <4>1, TypeFacts DEF Dispatching, SocketInv
      <4>3. next <= i /\ i <= until => at[sockListeners[k]] < arrived
        <5> HIDE DEF k
        <5> QED
          BY <1>1, <1>2, <4>1, <4>2 DEF OrderInv, OneIsCalled
      <4> QED
        BY <2>2, <4>1, <4>3, TypeFacts DEF SocketInv
    <3> QED
      BY <3>1, <3>2
  <2>4. got[sockListeners[i]] # NoRequest
    BY <2>3 DEF SocketInv, CallInv
  <2> QED
    BY <2>3, <2>4
<1>3. ASSUME NEW w \in Suspended, OwnerOf(w) = m PROVE FALSE
  <2>1. w \in Requests /\ awaits[w] \in Listening /\ got[awaits[w]] = NoRequest
    BY TypeFacts DEF SocketInv, PromiseInv
  <2>2. OwnerOf(awaits[w]) = m
    <3>1. awaits[w] # NoRequest
      BY <2>1, TypeFacts, RequestFacts DEF SocketInv
    <3> QED
      BY <1>3, <2>1, <3>1 DEF SocketInv, PromiseInv
  <2>3. PICK i \in 1 .. LastListener : sockListeners[i] = awaits[w]
    BY <2>1, TypeFacts DEF SocketInv
  <2> QED
    BY <1>2, <2>1, <2>2, <2>3
<1> QED
  BY <1>2, <1>3

\* What a request that is sent now has to do with the others.
LEMMA SendFacts ==
    ASSUME SocketInv, NEW q \in Requests, SendMessage(q)
    PROVE  /\ SendEffect(q) /\ q \notin Listening /\ q \notin Suspended
           /\ got[q] = NoRequest /\ at[q] = 0 /\ awaits[q] = NoRequest
           /\ \A s \in Requests : awaits[s] # q
<1>1. SendEffect(q) /\ q \notin Sent
  BY SendHasEffect DEF SocketInv, SendEffect
<1>2. q \notin Listening /\ q \notin Suspended
  BY <1>1 DEF SocketInv, PlaceInv
<1>3. got[q] = NoRequest /\ at[q] = 0
  BY <1>2 DEF SocketInv, CallInv
<1>4. awaits[q] = NoRequest
  BY <1>1 DEF SocketInv, PromiseInv
<1>5. ASSUME NEW s \in Requests, awaits[s] = q PROVE FALSE
  <2>1. awaits[s] # NoRequest /\ s \in Sent
    BY <1>5, RequestFacts DEF SocketInv, PromiseInv
  <2>2. CASE s \in Suspended
    BY <1>2, <1>5, <2>2 DEF SocketInv, PromiseInv
  <2>3. CASE s \in Listening
    <3>1. PICK i \in 1 .. LastListener : sockListeners[i] = s
      BY <2>3, TypeFacts DEF SocketInv
    <3> QED
      BY <1>3, <1>5, <2>1, <3>1 DEF SocketInv, AwaitInv
  <2> QED
    BY <2>1, <2>2, <2>3 DEF SocketInv, PlaceInv
<1> QED
  BY <1>1, <1>2, <1>3, <1>4, <1>5

LEMMA SendKeepsPlaces ==
    ASSUME SocketInv, NEW q \in Requests, SendMessage(q)
    PROVE  SocketTypeOK' /\ PlaceInv' /\ PromiseInv'
<1>0. /\ SendEffect(q) /\ q \notin Listening /\ q \notin Suspended
      /\ got[q] = NoRequest /\ \A s \in Requests : awaits[s] # q
  BY SendFacts
<1>1. SocketTypeOK'
  <2>1. SocketTypeOK
    BY DEF SocketInv
  <2>2. sent' \in Seq(Requests) /\ up' \in Seq(Requests)
    BY <1>0 DEF SendEffect, Grows
  <2>3. /\ sockListeners' \in Seq(Requests) /\ waiting' \in Seq(Requests)
        /\ ongoing' \in [Managers -> Requests \cup {NoRequest}]
        /\ awaits' \in [Requests -> Requests \cup {NoRequest}]
        /\ Len(sockListeners) \in Nat /\ Len(sockListeners') \in Nat
        /\ Len(sockListeners) <= Len(sockListeners')
    <3>1. Len(sockListeners) \in Nat
      BY <2>1, ElemsIn DEF SocketTypeOK
    <3>2. CASE /\ ongoing' \in [Managers -> Requests \cup {NoRequest}]
               /\ Grows(sockListeners, sockListeners', q) /\ UNCHANGED <<waiting, awaits>>
      <4>1. sockListeners' \in Seq(Requests) /\ Len(sockListeners') = Len(sockListeners) + 1
        BY <3>2 DEF Grows
      <4> QED
        BY <2>1, <3>1, <3>2, <4>1 DEF SocketTypeOK
    <3>3. CASE /\ awaits' \in [Requests -> Requests \cup {NoRequest}]
               /\ Grows(waiting, waiting', q) /\ UNCHANGED <<ongoing, sockListeners>>
      BY <2>1, <3>1, <3>3 DEF SocketTypeOK, Grows
    <3> QED
      BY <1>0, <3>2, <3>3 DEF SendEffect
  <2>4. /\ down' = down /\ pushed' = pushed /\ heard' = heard /\ arrived' = arrived
        /\ next' = next /\ until' = until /\ got' = got /\ at' = at
        /\ crowded' \in [Managers -> BOOLEAN]
    BY <1>0 DEF SendEffect, dispatch
  <2>5. until' \in 0 .. Len(sockListeners')
    BY <2>1, <2>3, <2>4 DEF SocketTypeOK
  <2> QED
    BY <2>1, <2>2, <2>3, <2>4, <2>5 DEF SocketTypeOK
<1>2. PlaceInv'
  <2>1. Sent' = Sent \cup {q} /\ Distinct(sent')
    <3>1. q \notin Elems(sent)
      BY <1>0, TypeFacts DEF SocketInv, SendEffect
    <3> QED
      BY <1>0, <3>1 DEF SendEffect, Grows, SocketInv, PlaceInv
  <2>2. CASE Grows(sockListeners, sockListeners', q) /\ waiting' = waiting
    <3>1. Listening' = Listening \cup {q} /\ Suspended' = Suspended
      BY <2>2 DEF Grows, Listening, Suspended
    <3>2. Distinct(sockListeners') /\ Distinct(waiting')
      BY <1>0, <2>2 DEF Grows, Listening, SocketInv, PlaceInv
    <3> QED
      BY <1>0, <2>1, <3>1, <3>2 DEF SocketInv, PlaceInv
  <2>3. CASE Grows(waiting, waiting', q) /\ sockListeners' = sockListeners
    <3>1. Suspended' = Suspended \cup {q} /\ Listening' = Listening
      BY <2>3 DEF Grows, Listening, Suspended
    <3>2. Distinct(sockListeners') /\ Distinct(waiting')
      BY <1>0, <2>3 DEF Grows, Suspended, SocketInv, PlaceInv
    <3> QED
      BY <1>0, <2>1, <3>1, <3>2 DEF SocketInv, PlaceInv
  <2> QED
    BY <1>0, <2>2, <2>3 DEF SendEffect
<1>3. PromiseInv'
  <2>1. Sent' = Sent \cup {q} /\ got' = got
    BY <1>0 DEF SendEffect
  <2>2. /\ \A s \in Requests : awaits[s] # NoRequest =>
              s \in Sent /\ OwnerOf(awaits[s]) = OwnerOf(s)
        /\ \A s \in Suspended : awaits[s] \in Listening /\ got[awaits[s]] = NoRequest
        /\ \A m \in Managers : ongoing[m] # NoRequest =>
              /\ OwnerOf(ongoing[m]) = m /\ ongoing[m] \in Listening
              /\ got[ongoing[m]] = NoRequest
        /\ Suspended \subseteq Requests
    BY TypeFacts DEF SocketInv, PromiseInv
  <2>3. CASE /\ Grows(sockListeners, sockListeners', q) /\ UNCHANGED <<waiting, awaits>>
             /\ ongoing'[OwnerOf(q)] = q
             /\ \A m \in Managers : m # OwnerOf(q) => ongoing'[m] = ongoing[m]
    <3>1. Listening' = Listening \cup {q} /\ Suspended' = Suspended /\ awaits' = awaits
      BY <2>3 DEF Grows, Listening, Suspended
    <3>2. ASSUME NEW m \in Managers, ongoing'[m] # NoRequest
          PROVE  /\ OwnerOf(ongoing'[m]) = m /\ ongoing'[m] \in Listening'
                 /\ got'[ongoing'[m]] = NoRequest
      <4>1. CASE m = OwnerOf(q)
        BY <1>0, <2>1, <2>3, <3>1, <4>1
      <4>2. CASE m # OwnerOf(q)
        BY <2>1, <2>2, <2>3, <3>1, <3>2, <4>2
      <4> QED
        BY <4>1, <4>2
    <3>3. \A s \in Requests : awaits'[s] # NoRequest =>
              s \in Sent' /\ OwnerOf(awaits'[s]) = OwnerOf(s)
      BY <2>1, <2>2, <3>1
    <3>4. \A s \in Suspended' : awaits'[s] \in Listening' /\ got'[awaits'[s]] = NoRequest
      BY <2>1, <2>2, <3>1
    <3> QED
      BY <3>2, <3>3, <3>4 DEF PromiseInv
  <2>4. CASE /\ Grows(waiting, waiting', q) /\ UNCHANGED <<ongoing, sockListeners>>
             /\ ongoing[OwnerOf(q)] # NoRequest
             /\ awaits'[q] = ongoing[OwnerOf(q)]
             /\ \A s \in Requests : s # q => awaits'[s] = awaits[s]
    <3>1. Suspended' = Suspended \cup {q} /\ Listening' = Listening /\ ongoing' = ongoing
      BY <2>4 DEF Grows, Listening, Suspended
    <3>2. /\ OwnerOf(q) \in Managers
          /\ OwnerOf(awaits'[q]) = OwnerOf(q) /\ awaits'[q] \in Listening
          /\ got[awaits'[q]] = NoRequest
      BY <2>2, <2>4, RequestFacts
    <3>3. ASSUME NEW s \in Requests, awaits'[s] # NoRequest
          PROVE  s \in Sent' /\ OwnerOf(awaits'[s]) = OwnerOf(s)
      <4>1. CASE s = q
        BY <2>1, <3>2, <4>1
      <4>2. CASE s # q
        BY <2>1, <2>2, <2>4, <3>3, <4>2
      <4> QED
        BY <4>1, <4>2
    <3>4. ASSUME NEW s \in Suspended'
          PROVE  awaits'[s] \in Listening' /\ got'[awaits'[s]] = NoRequest
      <4>1. CASE s = q
        BY <2>1, <3>1, <3>2, <4>1
      <4>2. CASE s # q
        BY <2>1, <2>2, <2>4, <3>1, <3>4, <4>2
      <4> QED
        BY <4>1, <4>2
    <3>5. \A m \in Managers : ongoing'[m] # NoRequest =>
              /\ OwnerOf(ongoing'[m]) = m /\ ongoing'[m] \in Listening'
              /\ got'[ongoing'[m]] = NoRequest
      BY <2>1, <2>2, <3>1
    <3> QED
      BY <3>3, <3>4, <3>5 DEF PromiseInv
  <2> QED
    BY <1>0, <2>3, <2>4 DEF SendEffect
<1> QED
  BY <1>1, <1>2, <1>3

LEMMA SendKeepsCalls ==
    ASSUME SocketInv, NEW q \in Requests, SendMessage(q)
    PROVE  CallInv' /\ AwaitInv'
<1>0. /\ SendEffect(q) /\ q \notin Listening /\ q \notin Suspended
      /\ got[q] = NoRequest /\ at[q] = 0 /\ awaits[q] = NoRequest
      /\ \A s \in Requests : awaits[s] # q
  BY SendFacts
<1>1. /\ got' = got /\ at' = at /\ arrived' = arrived /\ next' = next /\ until' = until
      /\ Dispatching' = Dispatching
  BY <1>0 DEF SendEffect, dispatch, Dispatching
<1>2. \/ LastListener' = LastListener /\ sockListeners' = sockListeners /\ Listening' = Listening
      \/ /\ LastListener' = LastListener + 1 /\ sockListeners'[LastListener + 1] = q
         /\ \A i \in 1 .. LastListener : sockListeners'[i] = sockListeners[i]
         /\ Listening' = Listening \cup {q} /\ awaits' = awaits
  BY <1>0 DEF SendEffect, Grows, LastListener, Listening
<1>3. \A i \in 1 .. LastListener' :
          \/ i \in 1 .. LastListener /\ sockListeners'[i] = sockListeners[i]
          \/ i = LastListener + 1 /\ sockListeners'[i] = q /\ awaits' = awaits
  BY <1>2, TypeFacts DEF SocketInv
<1>4. CallInv'
  <2>1. \A s \in Requests :
            IF got'[s] = NoRequest THEN at'[s] = 0 ELSE at'[s] > 0 /\ s \in Listening'
    <3>1. Listening \subseteq Listening'
      BY <1>2
    <3> QED
      BY <1>1, <3>1 DEF SocketInv, CallInv
  <2>2. ASSUME NEW i \in 1 .. LastListener'
        PROVE  /\ i < next => got[sockListeners'[i]] # NoRequest
               /\ i > until => got[sockListeners'[i]] = NoRequest
               /\ next <= i /\ i <= until => at[sockListeners'[i]] < arrived
    <3>1. CASE i \in 1 .. LastListener /\ sockListeners'[i] = sockListeners[i]
      BY <3>1 DEF SocketInv, CallInv
    <3>2. CASE i = LastListener + 1 /\ sockListeners'[i] = q
      <4>1. i > until /\ ~(i < next)
        BY <3>2, TypeFacts DEF SocketInv
      <4> QED
        BY <1>0, <3>2, <4>1, TypeFacts DEF SocketInv
    <3> QED
      BY <1>3, <3>1, <3>2
  <2>3. Dispatching' => arrived' > 0
    BY <1>1 DEF SocketInv, CallInv
  <2> QED
    BY <1>1, <2>1, <2>2, <2>3 DEF CallInv
<1>5. AwaitInv'
  <2>1. \A s \in Requests : s # q => awaits'[s] = awaits[s]
    BY <1>0 DEF SendEffect
  <2>2. AwaitedFirst'
    BY <1>0, <1>1, <2>1 DEF AwaitedFirst, SocketInv, AwaitInv
  <2>3. ASSUME NEW i \in 1 .. LastListener', awaits'[sockListeners'[i]] # NoRequest
        PROVE  /\ got[awaits'[sockListeners'[i]]] # NoRequest
               /\ at[awaits'[sockListeners'[i]]] < arrived \/ i > until
    <3>1. CASE i \in 1 .. LastListener /\ sockListeners'[i] = sockListeners[i]
      <4>1. sockListeners[i] \in Requests /\ sockListeners[i] # q
        BY <1>0, <3>1, TypeFacts DEF SocketInv
      <4> QED
        BY <2>1, <2>3, <3>1, <4>1 DEF SocketInv, AwaitInv
    <3>2. CASE i = LastListener + 1 /\ sockListeners'[i] = q /\ awaits' = awaits
      BY <1>0, <2>3, <3>2
    <3> QED
      BY <1>3, <3>1, <3>2
  <2> QED
    BY <1>1, <2>2, <2>3 DEF AwaitInv
<1> QED
  BY <1>4, <1>5

LEMMA SendKeepsOrder ==
    ASSUME SocketInv, NEW q \in Requests, SendMessage(q)
    PROVE  FewInv'
<1> SUFFICES ASSUME NEW m \in Managers, ~crowded'[m]
             PROVE  OrderInv(m)'
  BY DEF FewInv
<1>0. /\ SendEffect(q) /\ q \notin Listening /\ q \notin Suspended
      /\ got[q] = NoRequest /\ at[q] = 0
  BY SendFacts
<1>1. /\ got' = got /\ at' = at /\ arrived' = arrived /\ next' = next /\ until' = until
      /\ Dispatching' = Dispatching /\ Sent' = Sent \cup {q} /\ q \notin Sent
  BY <1>0 DEF SendEffect, dispatch, Dispatching
<1>2. ~crowded[m] /\ (m = OwnerOf(q) => \A x, y \in Pending(m) : x = y)
  <2>1. crowded[m] \in BOOLEAN
    BY DEF SocketInv, SocketTypeOK
  <2>2. CASE m = OwnerOf(q)
    BY <1>0, <2>2 DEF SendEffect
  <2>3. CASE m # OwnerOf(q)
    BY <1>0, <2>3 DEF SendEffect
  <2> QED
    BY <2>2, <2>3
<1>3. TwoPending(m) /\ InTurn(m) /\ NewIsOngoing(m) /\ OneIsCalled(m) /\ AsSent(m)
  BY <1>2 DEF SocketInv, FewInv, OrderInv
<1>4. \A x : x \in Pending(m)' <=> x \in Pending(m) \/ (x = q /\ m = OwnerOf(q))
  BY <1>0, <1>1 DEF Pending, InFlight
<1>5. TwoPending(m)'
  <2>1. CASE m = OwnerOf(q)
    BY <1>2, <1>4, <2>1 DEF TwoPending
  <2>2. CASE m # OwnerOf(q)
    BY <1>3, <1>4, <2>2 DEF TwoPending
  <2> QED
    BY <2>1, <2>2
<1>6. /\ Len(sent) \in Nat /\ Len(sent') = Len(sent) + 1 /\ sent'[Len(sent) + 1] = q
      /\ \A i \in 1 .. Len(sent) : sent'[i] = sent[i] /\ sent[i] \in Sent
      /\ \A i \in 1 .. Len(sent') : i \in 1 .. Len(sent) \/ i = Len(sent) + 1
  BY <1>0, TypeFacts DEF SendEffect, Grows, SocketInv
<1>7. CASE sockListeners' = sockListeners /\ ongoing' = ongoing
  <2>1. LastListener' = LastListener
    BY <1>7 DEF LastListener
  <2>2. InTurn(m)' /\ NewIsOngoing(m)' /\ OneIsCalled(m)'
    BY <1>1, <1>3, <1>7, <2>1 DEF InTurn, NewIsOngoing, OneIsCalled
  <2>3. AsSent(m)'
    <3> SUFFICES ASSUME NEW i \in 1 .. Len(sent'), NEW j \in 1 .. Len(sent'),
                        NEW p \in 1 .. LastListener,
                        i < j, OwnerOf(sent'[i]) = m, OwnerOf(sent'[j]) = m,
                        sockListeners[p] = sent'[j]
                 PROVE  \E k \in 1 .. LastListener : k < p /\ sockListeners[k] = sent'[i]
      BY <1>7, <2>1 DEF AsSent
    <3>1. j \in 1 .. Len(sent)
      <4>1. sockListeners[p] # q
        BY <1>0, TypeFacts DEF SocketInv
      <4> QED
        BY <1>6, <4>1
    <3>2. i \in 1 .. Len(sent)
      BY <1>6, <3>1
    <3> QED
      BY <1>3, <1>6, <3>1, <3>2 DEF AsSent
  <2> QED
    BY <1>5, <2>2, <2>3 DEF OrderInv
<1>8. CASE /\ ongoing[OwnerOf(q)] = NoRequest /\ ongoing'[OwnerOf(q)] = q
           /\ \A n \in Managers : n # OwnerOf(q) => ongoing'[n] = ongoing[n]
           /\ Grows(sockListeners, sockListeners', q)
  <2>1. /\ LastListener' = LastListener + 1 /\ sockListeners'[LastListener + 1] = q
        /\ LastListener \in Nat /\ until <= LastListener /\ until \in Nat
        /\ \A i \in 1 .. LastListener : sockListeners'[i] = sockListeners[i] /\ sockListeners[i] # q
        /\ \A i \in 1 .. LastListener' : i \in 1 .. LastListener \/ i = LastListener + 1
    <3>1. \A i \in 1 .. LastListener : sockListeners[i] # q
      BY <1>0, TypeFacts DEF SocketInv
    <3> QED
      BY <1>8, <3>1, TypeFacts DEF Grows, LastListener, SocketInv
  <2>2. CASE m = OwnerOf(q)
    <3>1. /\ \A i \in 1 .. LastListener : OwnerOf(sockListeners[i]) = m =>
                  got[sockListeners[i]] # NoRequest /\ i < next
          /\ \A w \in Suspended : OwnerOf(w) # m
      BY <1>0, <1>2, <1>8, <2>2, NobodyListens DEF SendEffect
    <3>2. InTurn(m)'
      <4> SUFFICES ASSUME NEW i \in 1 .. LastListener', NEW j \in 1 .. LastListener', i < j,
                          OwnerOf(sockListeners'[i]) = m, OwnerOf(sockListeners'[j]) = m
                   PROVE  /\ got[sockListeners'[i]] # NoRequest
                          /\ got[sockListeners'[j]] # NoRequest =>
                                at[sockListeners'[i]] < at[sockListeners'[j]]
        BY <1>1 DEF InTurn
      <4>1. i \in 1 .. LastListener /\ got[sockListeners[i]] # NoRequest
        BY <2>1, <3>1
      <4>2. CASE j \in 1 .. LastListener
        BY <1>3, <2>1, <4>1, <4>2 DEF InTurn
      <4>3. CASE j = LastListener + 1
        BY <1>0, <2>1, <4>1, <4>3
      <4> QED
        BY <2>1, <4>2, <4>3
    <3>3. NewIsOngoing(m)'
      <4> SUFFICES ASSUME NEW i \in 1 .. LastListener', i > until, OwnerOf(sockListeners'[i]) = m
                   PROVE  ongoing'[m] = sockListeners'[i]
        BY <1>1 DEF NewIsOngoing
      <4>1. i \notin 1 .. LastListener
        <5> SUFFICES ASSUME i \in 1 .. LastListener PROVE FALSE
          OBVIOUS
        <5>1. OwnerOf(sockListeners[i]) = m
          BY <2>1
        <5>2. i < next /\ next <= until + 1 /\ next \in Nat
          BY <3>1, <5>1, TypeFacts DEF SocketInv
        <5> QED
          BY <2>1, <5>2
      <4> QED
        BY <1>8, <2>1, <2>2, <4>1
    <3>4. OneIsCalled(m)'
      <4>1. ASSUME NEW j \in 1 .. LastListener', OwnerOf(sockListeners'[j]) = m,
                   next <= j, j <= until
            PROVE  FALSE
        <5>1. LastListener \in Nat /\ until \in Nat /\ next \in Nat /\ until <= LastListener
          BY TypeFacts DEF SocketInv
        <5>2. j \in 1 .. LastListener /\ sockListeners'[j] = sockListeners[j]
          BY <2>1, <4>1, <5>1
        <5>3. j < next
          BY <3>1, <4>1, <5>2
        <5> QED
          BY <4>1, <5>1, <5>2, <5>3
      <4> QED
        BY <1>1, <4>1 DEF OneIsCalled
    <3>5. AsSent(m)'
      <4> SUFFICES ASSUME NEW i \in 1 .. Len(sent'), NEW j \in 1 .. Len(sent'),
                          NEW p \in 1 .. LastListener',
                          i < j, OwnerOf(sent'[i]) = m, OwnerOf(sent'[j]) = m,
                          sockListeners'[p] = sent'[j]
                   PROVE  \E k \in 1 .. LastListener' : k < p /\ sockListeners'[k] = sent'[i]
        BY DEF AsSent
      <4>1. i \in 1 .. Len(sent) /\ sent'[i] = sent[i] /\ sent[i] \in Sent
        BY <1>6
      <4>2. CASE j \in 1 .. Len(sent)
        <5>1. p \in 1 .. LastListener
          <6>1. sent[j] # q
            BY <1>1, <1>6, <4>2
          <6> QED
            BY <1>6, <2>1, <4>2, <6>1
        <5>2. sent'[j] = sent[j] /\ sockListeners'[p] = sockListeners[p]
          BY <1>6, <2>1, <4>2, <5>1
        <5>3. PICK k \in 1 .. LastListener : k < p /\ sockListeners[k] = sent[i]
          BY <1>3, <4>1, <4>2, <5>1, <5>2 DEF AsSent
        <5> QED
          BY <2>1, <4>1, <5>3
      <4>3. CASE j = Len(sent) + 1
        <5>1. p = LastListener + 1
          BY <1>6, <2>1, <4>3
        <5>2. sent[i] \in Listening
          BY <3>1, <4>1 DEF SocketInv, PlaceInv
        <5>3. PICK k \in 1 .. LastListener : sockListeners[k] = sent[i]
          BY <5>2, TypeFacts DEF SocketInv
        <5>4. k \in 1 .. LastListener' /\ k < p /\ sockListeners'[k] = sockListeners[k]
          BY <2>1, <5>1
        <5> QED
          BY <4>1, <5>3, <5>4
      <4> QED
        BY <1>6, <4>2, <4>3
    <3> QED
      BY <1>5, <3>2, <3>3, <3>4, <3>5 DEF OrderInv
  <2>3. CASE m # OwnerOf(q)
    <3>1. ASSUME NEW i \in 1 .. LastListener', OwnerOf(sockListeners'[i]) = m
          PROVE  i \in 1 .. LastListener /\ sockListeners'[i] = sockListeners[i]
      BY <2>1, <2>3, <3>1
    <3>2. \A i \in 1 .. LastListener : i \in 1 .. LastListener'
      BY <2>1
    <3>3. ongoing'[m] = ongoing[m]
      BY <1>8, <2>3
    <3>4. InTurn(m)'
      BY <1>1, <1>3, <3>1 DEF InTurn
    <3>5. NewIsOngoing(m)'
      BY <1>1, <1>3, <3>1, <3>3 DEF NewIsOngoing
    <3>6. OneIsCalled(m)'
      BY <1>1, <1>3, <3>1 DEF OneIsCalled
    <3>7. AsSent(m)'
      <4> SUFFICES ASSUME NEW i \in 1 .. Len(sent'), NEW j \in 1 .. Len(sent'),
                          NEW p \in 1 .. LastListener',
                          i < j, OwnerOf(sent'[i]) = m, OwnerOf(sent'[j]) = m,
                          sockListeners'[p] = sent'[j]
                   PROVE  \E k \in 1 .. LastListener' : k < p /\ sockListeners'[k] = sent'[i]
        BY DEF AsSent
      <4>1. i \in 1 .. Len(sent) /\ j \in 1 .. Len(sent)
        BY <1>6, <2>3
      <4>2. p \in 1 .. LastListener /\ sockListeners'[p] = sockListeners[p]
        BY <3>1
      <4>3. PICK k \in 1 .. LastListener : k < p /\ sockListeners[k] = sent[i]
        BY <1>3, <1>6, <4>1, <4>2, ZenonT(30) DEF AsSent
      <4> QED
        BY <1>6, <2>1, <3>2, <4>1, <4>3
    <3> QED
      BY <1>5, <3>4, <3>5, <3>6, <3>7 DEF OrderInv
  <2> QED
    BY <2>2, <2>3
<1> QED
  BY <1>0, <1>7, <1>8 DEF SendEffect

LEMMA SendKeepsReplies ==
    ASSUME SocketInv, NEW q \in Requests, SendMessage(q)
    PROVE  LinkInv' /\ MatchInv'
<1>0. SendEffect(q) /\ q \notin Listening /\ got[q] = NoRequest
  BY SendFacts
<1>1. /\ got' = got /\ at' = at /\ arrived' = arrived /\ next' = next /\ until' = until
      /\ Sent' = Sent \cup {q} /\ down' = down /\ pushed' = pushed /\ heard' = heard
  BY <1>0 DEF SendEffect, dispatch
<1>2. /\ Len(sent) \in Nat /\ Len(sent') = Len(sent) + 1 /\ sent'[Len(sent) + 1] = q
      /\ \A i \in 1 .. Len(sent) : sent'[i] = sent[i]
      /\ Len(up') = Len(up) + 1 /\ up'[Len(up) + 1] = q
      /\ \A i \in 1 .. Len(up) : up'[i] = up[i]
  BY <1>0, TypeFacts DEF SendEffect, Grows, SocketInv
<1>3. Len(down) \in Nat /\ Len(up) \in Nat /\ arrived \in Nat
  <2>1. down \in Seq(Messages) /\ up \in Seq(Requests) /\ arrived \in Nat
    BY DEF SocketInv, SocketTypeOK
  <2> QED
    BY <2>1
<1>4. ASSUME pushed = 0
      PROVE  /\ Len(sent) = arrived + Len(down) + Len(up)
             /\ \A i \in 1 .. Len(down) : down[i] = sent[arrived + i]
             /\ \A i \in 1 .. Len(up) : up[i] = sent[arrived + Len(down) + i]
             /\ arrived > 0 => heard = sent[arrived]
  BY <1>4 DEF SocketInv, LinkInv
<1>5. LinkInv'
  <2> SUFFICES ASSUME pushed = 0
               PROVE  /\ Len(sent') = arrived + Len(down) + Len(up')
                      /\ \A i \in 1 .. Len(down) : down[i] = sent'[arrived + i]
                      /\ \A i \in 1 .. Len(up') : up'[i] = sent'[arrived + Len(down) + i]
                      /\ arrived > 0 => heard = sent'[arrived]
    BY <1>1 DEF LinkInv
  <2>0. Len(sent) = arrived + Len(down) + Len(up)
    BY <1>4
  <2>1. Len(sent') = arrived + Len(down) + Len(up')
    <3>1. Len(sent') = Len(sent) + 1 /\ Len(up') = Len(up) + 1
      BY <1>2
    <3> QED
      BY <1>2, <1>3, <2>0, <3>1
  <2>2. \A i \in 1 .. Len(down) : down[i] = sent'[arrived + i]
    <3> TAKE i \in 1 .. Len(down)
    <3>1. arrived + i \in 1 .. Len(sent)
      BY <1>3, <1>4
    <3> QED
      BY <1>2, <1>4, <3>1
  <2>3. \A i \in 1 .. Len(up') : up'[i] = sent'[arrived + Len(down) + i]
    <3> TAKE i \in 1 .. Len(up')
    <3>1. CASE i \in 1 .. Len(up)
      <4>1. arrived + Len(down) + i \in 1 .. Len(sent)
        BY <1>3, <1>4, <3>1
      <4> QED
        BY <1>2, <1>4, <3>1, <4>1
    <3>2. CASE i = Len(up) + 1
      <4>1. arrived + Len(down) + i = Len(sent) + 1
        BY <1>2, <1>3, <2>0, <3>2
      <4> QED
        BY <1>2, <3>2, <4>1
    <3> QED
      BY <1>2, <1>3, <3>1, <3>2
  <2>4. arrived > 0 => heard = sent'[arrived]
    <3>1. arrived > 0 => arrived \in 1 .. Len(sent)
      BY <1>3, <1>4
    <3> QED
      BY <1>2, <1>4, <3>1
  <2> QED
    BY <2>1, <2>2, <2>3, <2>4
<1>6. MatchInv'
  <2> SUFFICES ASSUME pushed = 0, OneManager', NEW i \in 1 .. Len(sent')
               PROVE  /\ got[sent'[i]] # NoRequest => got[sent'[i]] = sent'[i] /\ at[sent'[i]] = i
                      /\ i < arrived => got[sent'[i]] # NoRequest
                      /\ i = arrived /\ got[sent'[i]] = NoRequest =>
                            \E p \in 1 .. LastListener' :
                                next <= p /\ p <= until /\ sockListeners'[p] = sent'[i]
    BY <1>1 DEF MatchInv
  <2>1. OneManager
    <3> SUFFICES ASSUME NEW r \in Sent, NEW s \in Sent
                 PROVE  OwnerOf(r) = OwnerOf(s) /\ ~crowded[OwnerOf(r)]
      BY DEF OneManager
    <3>1. OwnerOf(r) = OwnerOf(s) /\ ~crowded'[OwnerOf(r)]
      BY <1>1 DEF OneManager
    <3>2. OwnerOf(r) \in Managers
      BY TypeFacts, RequestFacts DEF SocketInv
    <3>3. crowded[OwnerOf(r)] \in BOOLEAN
      BY <3>2 DEF SocketInv, SocketTypeOK
    <3>4. CASE OwnerOf(r) = OwnerOf(q)
      BY <1>0, <3>1, <3>3, <3>4 DEF SendEffect
    <3>5. CASE OwnerOf(r) # OwnerOf(q)
      BY <1>0, <3>1, <3>2, <3>5 DEF SendEffect
    <3> QED
      BY <3>1, <3>4, <3>5
  <2>2. CASE i = Len(sent) + 1
    <3>1. i > arrived
      BY <1>3, <1>4, <2>2
    <3> QED
      BY <1>0, <1>2, <1>3, <2>2, <3>1
  <2>3. CASE i \in 1 .. Len(sent)
    <3>1. /\ got[sent[i]] # NoRequest => got[sent[i]] = sent[i] /\ at[sent[i]] = i
          /\ i < arrived => got[sent[i]] # NoRequest
          /\ i = arrived /\ got[sent[i]] = NoRequest =>
                \E p \in 1 .. LastListener : next <= p /\ p <= until /\ sockListeners[p] = sent[i]
      BY <2>1, <2>3 DEF SocketInv, MatchInv
    <3>2. \A p \in 1 .. LastListener : p \in 1 .. LastListener' /\ sockListeners'[p] = sockListeners[p]
      <4>1. CASE sockListeners' = sockListeners
        BY <4>1 DEF LastListener
      <4>2. CASE Grows(sockListeners, sockListeners', q)
        BY <4>2, TypeFacts DEF Grows, LastListener, SocketInv
      <4> QED
        BY <1>0, <4>1, <4>2 DEF SendEffect
    <3> QED
      BY <1>2, <2>3, <3>1, <3>2
  <2> QED
    BY <1>2, <2>2, <2>3
<1> QED
  BY <1>5, <1>6

LEMMA SendStep ==
    ASSUME SocketInv, NEW q \in Requests, SendMessage(q)
    PROVE  SocketInv'
BY SendKeepsPlaces, SendKeepsCalls, SendKeepsOrder, SendKeepsReplies DEF SocketInv

-----------------------------------------------------------------------------
(* The server and the socket.                                              *)

\* What does not change when messages are under way changes no promise.
LEMMA LinkStep ==
    ASSUME SocketInv, UNCHANGED <<sent, promises, dispatch, got, at, crowded>>
    PROVE  PlaceInv' /\ PromiseInv' /\ CallInv' /\ AwaitInv' /\ FewInv'
<1>1. /\ UNCHANGED <<sent, ongoing, waiting, awaits, sockListeners, heard, arrived, next,
                     until, got, at, crowded>>
      /\ Sent' = Sent /\ Listening' = Listening /\ Suspended' = Suspended /\ LastListener' = LastListener
      /\ Dispatching' = Dispatching
  BY DEF promises, dispatch, Sent, Listening, Suspended, LastListener, Dispatching
<1>2. PlaceInv' /\ PromiseInv' /\ CallInv' /\ AwaitInv'
  BY <1>1 DEF SocketInv, PlaceInv, PromiseInv, CallInv, AwaitInv, AwaitedFirst
<1>3. \A m : Pending(m)' = Pending(m)
  BY <1>1 DEF Pending, InFlight
<1>4. FewInv'
  BY <1>1, <1>3 DEF SocketInv, FewInv, OrderInv, TwoPending, InTurn, NewIsOngoing,
                    OneIsCalled, AsSent
<1> QED
  BY <1>2, <1>4

LEMMA AnswerStep ==
    ASSUME SocketInv, ServerAnswers
    PROVE  SocketInv'
<1>1. /\ up # <<>> /\ down' = Append(down, Head(up)) /\ up' = Tail(up)
      /\ UNCHANGED <<sent, pushed, promises, dispatch, got, at, crowded>>
  BY DEF ServerAnswers
<1>2. /\ UNCHANGED <<ongoing, waiting, awaits, sockListeners, heard, arrived, next, until>>
      /\ Sent' = Sent
  BY <1>1 DEF promises, dispatch, Sent
<1>3. /\ up \in Seq(Requests) /\ down \in Seq(Messages) /\ arrived \in Nat
      /\ Requests \subseteq Messages
  BY DEF SocketInv, SocketTypeOK, Messages
<1>4. /\ Len(up) \in Nat \ {0} /\ Len(down) \in Nat
      /\ up' \in Seq(Requests) /\ Len(up') = Len(up) - 1
      /\ \A i \in 1 .. Len(up) - 1 : up'[i] = up[i + 1]
      /\ Head(up) = up[1] /\ up[1] \in Requests
  BY <1>1, <1>3
<1>5. /\ down' \in Seq(Messages) /\ Len(down') = Len(down) + 1 /\ down'[Len(down) + 1] = up[1]
      /\ \A i \in 1 .. Len(down) : down'[i] = down[i]
  <2>1. PICK e \in Messages : e = Head(up)
    BY <1>3, <1>4
  <2>2. /\ Append(down, e) \in Seq(Messages) /\ Len(Append(down, e)) = Len(down) + 1
        /\ Append(down, e)[Len(down) + 1] = e
        /\ \A i \in 1 .. Len(down) : Append(down, e)[i] = down[i]
    BY <1>3
  <2> QED
    BY <1>1, <1>4, <2>1, <2>2
<1>6. SocketTypeOK'
  BY <1>1, <1>2, <1>4, <1>5 DEF SocketInv, SocketTypeOK
<1>7. LinkInv'
  <2> SUFFICES ASSUME pushed = 0
               PROVE  /\ Len(sent) = arrived + Len(down') + Len(up')
                      /\ \A i \in 1 .. Len(down') : down'[i] = sent[arrived + i]
                      /\ \A i \in 1 .. Len(up') : up'[i] = sent[arrived + Len(down') + i]
                      /\ arrived > 0 => heard = sent[arrived]
    BY <1>1, <1>2 DEF LinkInv
  <2>1. /\ Len(sent) = arrived + Len(down) + Len(up)
        /\ \A i \in 1 .. Len(down) : down[i] = sent[arrived + i]
        /\ \A i \in 1 .. Len(up) : up[i] = sent[arrived + Len(down) + i]
        /\ arrived > 0 => heard = sent[arrived]
    BY DEF SocketInv, LinkInv
  <2>2. Len(sent) = arrived + Len(down') + Len(up')
    BY <1>3, <1>4, <1>5, <2>1
  <2>3. \A i \in 1 .. Len(down') : down'[i] = sent[arrived + i]
    <3> TAKE i \in 1 .. Len(down')
    <3>1. CASE i \in 1 .. Len(down)
      BY <1>5, <2>1, <3>1
    <3>2. CASE i = Len(down) + 1
      <4>1. 1 \in 1 .. Len(up) /\ arrived + Len(down) + 1 = arrived + i
        BY <1>3, <1>4, <3>2
      <4> QED
        BY <1>5, <2>1, <3>2, <4>1
    <3> QED
      BY <1>4, <1>5, <3>1, <3>2
  <2>4. \A i \in 1 .. Len(up') : up'[i] = sent[arrived + Len(down') + i]
    <3> TAKE i \in 1 .. Len(up')
    <3>1. i \in 1 .. Len(up) - 1 /\ i + 1 \in 1 .. Len(up)
      BY <1>4
    <3>2. arrived + Len(down) + (i + 1) = arrived + Len(down') + i
      BY <1>3, <1>4, <1>5, <3>1
    <3> QED
      BY <1>4, <2>1, <3>1, <3>2
  <2> QED
    BY <2>1, <2>2, <2>3, <2>4
<1>8. MatchInv'
  BY <1>1, <1>2 DEF SocketInv, MatchInv, OneManager, LastListener
<1> QED
  BY <1>1, <1>6, <1>7, <1>8, LinkStep DEF SocketInv

LEMMA PushStep ==
    ASSUME SocketInv, ServerPushes
    PROVE  SocketInv'
<1>1. /\ pushed < MaxPush /\ pushed' = pushed + 1 /\ down' = Append(down, Push)
      /\ UNCHANGED <<sent, up, promises, dispatch, got, at, crowded>>
  BY DEF ServerPushes
<1>2. UNCHANGED <<ongoing, waiting, awaits, sockListeners, heard, arrived, next, until>>
  BY <1>1 DEF promises, dispatch
<1>3. pushed \in 0 .. MaxPush /\ MaxPush \in Nat /\ down \in Seq(Messages) /\ Push \in Messages
  BY SocketAssumption DEF SocketInv, SocketTypeOK, Messages
<1>4. pushed' \in 0 .. MaxPush /\ pushed' # 0 /\ down' \in Seq(Messages)
  BY <1>1, <1>3
<1>5. SocketTypeOK'
  BY <1>1, <1>2, <1>4 DEF SocketInv, SocketTypeOK
<1>6. LinkInv' /\ MatchInv'
  BY <1>4 DEF LinkInv, MatchInv
<1> QED
  BY <1>1, <1>5, <1>6, LinkStep DEF SocketInv

LEMMA ReceiveStep ==
    ASSUME SocketInv, Receive
    PROVE  SocketInv'
<1>1. /\ down # <<>> /\ ~Dispatching /\ heard' = Head(down) /\ down' = Tail(down)
      /\ arrived' = arrived + 1 /\ next' = 1 /\ until' = LastListener
      /\ UNCHANGED <<sent, up, pushed, ongoing, waiting, awaits, sockListeners, got, at, crowded>>
      /\ Sent' = Sent /\ Listening' = Listening /\ Suspended' = Suspended /\ LastListener' = LastListener
  BY DEF Receive, promises, Sent, Listening, Suspended, LastListener
<1>2. /\ LastListener \in Nat /\ arrived \in Nat /\ next = until + 1
      /\ \A q \in Requests : at[q] \in Nat /\ at[q] <= arrived
      /\ \A i \in 1 .. LastListener : sockListeners[i] \in Requests
      /\ \A i \in 1 .. Len(sent) : sent[i] \in Sent /\ sent[i] \in Requests
      /\ Len(sent) \in Nat
  BY <1>1, TypeFacts DEF SocketInv, Dispatching
<1>3. down \in Seq(Messages) /\ up \in Seq(Requests) /\ at \in [Requests -> 0 .. arrived]
  BY DEF SocketInv, SocketTypeOK
<1>4. /\ Len(down) \in Nat \ {0} /\ heard' = down[1] /\ heard' \in Messages
      /\ down' \in Seq(Messages) /\ Len(down') = Len(down) - 1
      /\ \A i \in 1 .. Len(down) - 1 : down'[i] = down[i + 1]
  BY <1>1, <1>3
<1>5. Len(up) \in Nat
  BY <1>3
<1>6. SocketTypeOK'
  <2>1. at' \in [Requests -> 0 .. arrived']
    <3>1. \A n \in 0 .. arrived : n \in 0 .. arrived + 1
      BY <1>2
    <3>2. 0 .. arrived \subseteq 0 .. arrived + 1
      BY <3>1
    <3> QED
      BY <1>1, <1>3, <3>2
  <2>2. arrived' \in Nat /\ next' \in 1 .. until' + 1 /\ until' \in 0 .. Len(sockListeners')
    BY <1>1, <1>2 DEF LastListener
  <2> QED
    BY <1>1, <1>4, <2>1, <2>2 DEF SocketInv, SocketTypeOK
<1>7. PlaceInv' /\ PromiseInv'
  BY <1>1 DEF SocketInv, PlaceInv, PromiseInv
<1>8. CallInv'
  <2>1. arrived' > 0
    BY <1>1, <1>2
  <2>2. \A q \in Requests :
            IF got'[q] = NoRequest THEN at'[q] = 0 ELSE at'[q] > 0 /\ q \in Listening'
    BY <1>1 DEF SocketInv, CallInv
  <2>3. \A i \in 1 .. LastListener' :
            /\ i < next' => got'[sockListeners'[i]] # NoRequest
            /\ i > until' => got'[sockListeners'[i]] = NoRequest
            /\ next' <= i /\ i <= until' => at'[sockListeners'[i]] < arrived'
    BY <1>1, <1>2
  <2> QED
    BY <2>1, <2>2, <2>3 DEF CallInv
<1>9. AwaitInv'
  <2>1. AwaitedFirst'
    BY <1>1 DEF SocketInv, AwaitInv, AwaitedFirst
  <2>2. ASSUME NEW i \in 1 .. LastListener, awaits[sockListeners[i]] # NoRequest
        PROVE  /\ got[awaits[sockListeners[i]]] # NoRequest
               /\ at[awaits[sockListeners[i]]] < arrived'
    <3>1. awaits[sockListeners[i]] \in Requests
      BY <1>2, <2>2 DEF SocketInv, SocketTypeOK
    <3>2. got[awaits[sockListeners[i]]] # NoRequest
      BY <2>2 DEF SocketInv, AwaitInv
    <3> QED
      BY <1>1, <1>2, <3>1, <3>2
  <2> QED
    BY <1>1, <2>1, <2>2 DEF AwaitInv
<1>10. FewInv'
  <2> SUFFICES ASSUME NEW m \in Managers, ~crowded[m] PROVE OrderInv(m)'
    BY <1>1 DEF FewInv
  <2>1. TwoPending(m) /\ InTurn(m) /\ AsSent(m)
    BY DEF SocketInv, FewInv, OrderInv
  <2>2. Pending(m)' = Pending(m)
    BY <1>1 DEF Pending, InFlight
  <2>3. TwoPending(m)' /\ InTurn(m)' /\ AsSent(m)'
    BY <1>1, <2>1, <2>2 DEF TwoPending, InTurn, AsSent
  <2>4. NewIsOngoing(m)' /\ OneIsCalled(m)'
    BY <1>1, <1>2 DEF NewIsOngoing, OneIsCalled
  <2> QED
    BY <2>3, <2>4 DEF OrderInv
<1>11. LinkInv'
  <2> SUFFICES ASSUME pushed = 0
               PROVE  /\ Len(sent) = arrived' + Len(down') + Len(up)
                      /\ \A i \in 1 .. Len(down') : down'[i] = sent[arrived' + i]
                      /\ \A i \in 1 .. Len(up) : up[i] = sent[arrived' + Len(down') + i]
                      /\ heard' = sent[arrived']
    BY <1>1 DEF LinkInv
  <2>1. /\ Len(sent) = arrived + Len(down) + Len(up)
        /\ \A i \in 1 .. Len(down) : down[i] = sent[arrived + i]
        /\ \A i \in 1 .. Len(up) : up[i] = sent[arrived + Len(down) + i]
    BY DEF SocketInv, LinkInv
  <2>2. Len(sent) = arrived' + Len(down') + Len(up)
    BY <1>1, <1>2, <1>4, <1>5, <2>1
  <2>3. \A i \in 1 .. Len(down') : down'[i] = sent[arrived' + i]
    <3> TAKE i \in 1 .. Len(down')
    <3>1. i \in 1 .. Len(down) - 1 /\ i + 1 \in 1 .. Len(down)
      BY <1>4
    <3>2. arrived + (i + 1) = arrived' + i
      BY <1>1, <1>2, <3>1
    <3> QED
      BY <1>4, <2>1, <3>1, <3>2
  <2>4. arrived + Len(down) = arrived' + Len(down')
    BY <1>1, <1>2, <1>4
  <2>5. heard' = sent[arrived']
    <3>1. 1 \in 1 .. Len(down)
      BY <1>4
    <3> QED
      BY <1>1, <1>4, <2>1, <3>1
  <2> QED
    BY <2>1, <2>2, <2>3, <2>4, <2>5
<1>12. MatchInv'
  <2> SUFFICES ASSUME pushed = 0, OneManager, NEW i \in 1 .. Len(sent)
               PROVE  /\ got[sent[i]] # NoRequest => got[sent[i]] = sent[i] /\ at[sent[i]] = i
                      /\ i < arrived + 1 => got[sent[i]] # NoRequest
                      /\ i = arrived + 1 /\ got[sent[i]] = NoRequest =>
                            \E p \in 1 .. LastListener : sockListeners[p] = sent[i]
    BY <1>1, <1>2 DEF MatchInv, OneManager
  <2>1. \A k \in 1 .. Len(sent) :
            /\ got[sent[k]] # NoRequest => got[sent[k]] = sent[k] /\ at[sent[k]] = k
            /\ k < arrived => got[sent[k]] # NoRequest
            /\ k = arrived /\ got[sent[k]] = NoRequest =>
                  \E p \in 1 .. LastListener : next <= p /\ p <= until /\ sockListeners[p] = sent[k]
    BY DEF SocketInv, MatchInv
  <2>2. ASSUME NEW k \in 1 .. Len(sent), k <= arrived PROVE got[sent[k]] # NoRequest
    <3>1. \A p \in 1 .. LastListener : ~(next <= p /\ p <= until)
      BY <1>2, TypeFacts DEF SocketInv
    <3>2. k < arrived \/ k = arrived
      BY <1>2, <2>2
    <3> QED
      BY <2>1, <3>1, <3>2
  <2>3. ASSUME i = arrived + 1, sent[i] \in Suspended PROVE FALSE
    <3> DEFINE w == awaits[sent[i]]
    <3>1. w \in Listening /\ got[w] = NoRequest /\ w \notin Suspended
      BY <2>3 DEF SocketInv, PromiseInv, PlaceInv
    <3>2. w \in Sent /\ w # sent[i]
      BY <2>3, <3>1 DEF SocketInv, PlaceInv
    <3> HIDE DEF w
    <3>3. PICK k \in 1 .. Len(sent) : sent[k] = w
      BY <3>2, TypeFacts DEF SocketInv
    <3>4. i < k
      <4>1. ~(k <= arrived)
        BY <2>2, <3>1, <3>3
      <4>2. k # i
        BY <3>2, <3>3
      <4> QED
        BY <1>2, <2>3, <4>1, <4>2
    <3>5. PICK m \in Managers : m = OwnerOf(sent[i])
      BY <1>2, RequestFacts
    <3>6. OwnerOf(sent[k]) = m /\ ~crowded[m]
      BY <1>2, <3>5 DEF OneManager
    <3>7. AsSent(m)
      BY <3>6 DEF SocketInv, FewInv, OrderInv
    <3>8. PICK p \in 1 .. LastListener : sockListeners[p] = sent[k]
      BY <3>1, <3>3, TypeFacts DEF SocketInv
    <3>9. PICK n \in 1 .. LastListener : sockListeners[n] = sent[i]
      BY <3>4, <3>5, <3>6, <3>7, <3>8 DEF AsSent
    <3>10. sent[i] \in Listening
      BY <3>9, TypeFacts DEF SocketInv
    <3> QED
      BY <2>3, <3>10 DEF SocketInv, PlaceInv
  <2>4. ASSUME i = arrived + 1 PROVE \E p \in 1 .. LastListener : sockListeners[p] = sent[i]
    <3>1. sent[i] \in Listening
      BY <1>2, <2>3, <2>4 DEF SocketInv, PlaceInv
    <3> QED
      BY <3>1, TypeFacts DEF SocketInv
  <2> QED
    BY <1>2, <2>1, <2>2, <2>4
<1> QED
  BY <1>6, <1>7, <1>8, <1>9, <1>10, <1>11, <1>12 DEF SocketInv

-----------------------------------------------------------------------------
(* Calling a listener.                                                     *)

LEMMA CallFacts ==
    ASSUME SocketInv, NEW q \in Requests, NEW r \in Seq(Requests), CallEffect(q, r)
    PROVE  /\ q \in Listening /\ q \notin Suspended /\ at[q] < arrived
           /\ OwnerOf(q) \in Managers
           /\ got'[q] # NoRequest /\ at'[q] > 0
           /\ \A w \in Elems(r) :
                 /\ w \in Requests /\ w \in Suspended /\ w \in Sent /\ w \notin Listening
                 /\ w # q /\ awaits[w] = q /\ got[w] = NoRequest
                 /\ OwnerOf(w) = OwnerOf(q)
           /\ Len(r) \in Nat
           /\ \A i \in 1 .. Len(r) : r[i] \in Elems(r)
           /\ got[q] # NoRequest => Len(r) = 0
           /\ \A i \in 1 .. LastListener : i # next => sockListeners[i] # q
           /\ \A i \in 1 .. LastListener : i \in 1 .. LastListener'
           /\ \A i \in 1 .. LastListener' :
                 \/ i \in 1 .. LastListener /\ sockListeners'[i] = sockListeners[i]
                 \/ /\ i > LastListener /\ i > until /\ i - LastListener \in 1 .. Len(r)
                    /\ sockListeners'[i] = r[i - LastListener]
<1>1. /\ next \in 1 .. LastListener /\ next <= until /\ q = sockListeners[next]
      /\ \A w \in Requests : w \in Elems(r) <=> w \in Suspended /\ awaits[w] = q
      /\ LastListener' = LastListener + Len(r)
      /\ \A i \in 1 .. LastListener : sockListeners'[i] = sockListeners[i]
      /\ \A i \in 1 .. Len(r) : sockListeners'[LastListener + i] = r[i]
  BY DEF CallEffect
<1>2. q \in Listening /\ q \notin Suspended
  BY <1>1, TypeFacts DEF SocketInv, PlaceInv
<1>3. at[q] < arrived /\ arrived > 0
  BY <1>1 DEF SocketInv, CallInv, Dispatching
<1>4. got'[q] # NoRequest /\ at'[q] > 0
  <2>1. CASE got[q] = NoRequest
    <3>1. heard \in Messages
      BY DEF SocketInv, SocketTypeOK
    <3>2. got'[q] = heard /\ at'[q] = arrived
      BY <2>1 DEF CallEffect
    <3> QED
      BY <1>3, <3>1, <3>2, RequestFacts
  <2>2. CASE got[q] # NoRequest
    <3>1. got'[q] = got[q] /\ at'[q] = at[q]
      BY <2>2 DEF CallEffect
    <3> QED
      BY <2>2, <3>1 DEF SocketInv, CallInv
  <2> QED
    BY <2>1, <2>2
<1>5. ASSUME NEW w \in Elems(r)
      PROVE  /\ w \in Requests /\ w \in Suspended /\ w \in Sent /\ w \notin Listening
             /\ w # q /\ awaits[w] = q /\ got[w] = NoRequest
             /\ OwnerOf(w) = OwnerOf(q) /\ got[q] = NoRequest
  <2>1. w \in Requests
    BY ElemsIn
  <2>2. w \in Suspended /\ awaits[w] = q
    BY <1>1, <2>1
  <2>3. w \in Sent /\ w \notin Listening /\ w # q
    BY <1>2, <2>2 DEF SocketInv, PlaceInv
  <2>4. got[w] = NoRequest
    BY <2>1, <2>3 DEF SocketInv, CallInv
  <2>5. got[q] = NoRequest
    BY <2>2 DEF SocketInv, PromiseInv
  <2>6. OwnerOf(w) = OwnerOf(q)
    BY <2>1, <2>2, RequestFacts DEF SocketInv, PromiseInv
  <2> QED
    BY <2>1, <2>2, <2>3, <2>4, <2>5, <2>6
<1>6. Len(r) \in Nat /\ \A i \in 1 .. Len(r) : r[i] \in Elems(r)
  BY ElemsIn
<1>7. got[q] # NoRequest => Len(r) = 0
  <2> SUFFICES ASSUME got[q] # NoRequest, Len(r) # 0 PROVE FALSE
    OBVIOUS
  <2>1. 1 \in 1 .. Len(r)
    BY <1>6
  <2>2. r[1] \in Elems(r)
    BY <1>6, <2>1
  <2> QED
    BY <1>5, <2>2
<1>8. \A i \in 1 .. LastListener : i # next => sockListeners[i] # q
  BY <1>1 DEF SocketInv, PlaceInv, Distinct, LastListener
<1>9. \A i \in 1 .. LastListener : i \in 1 .. LastListener'
  BY <1>1, <1>6, TypeFacts DEF SocketInv
<1>10. ASSUME NEW i \in 1 .. LastListener'
       PROVE  \/ i \in 1 .. LastListener /\ sockListeners'[i] = sockListeners[i]
              \/ /\ i > LastListener /\ i > until /\ i - LastListener \in 1 .. Len(r)
                 /\ sockListeners'[i] = r[i - LastListener]
  <2>1. LastListener \in Nat /\ until \in Nat /\ until <= LastListener
    BY TypeFacts DEF SocketInv
  <2>2. CASE i \in 1 .. LastListener
    BY <1>1, <2>2
  <2>3. CASE i \notin 1 .. LastListener
    <3>1. i > LastListener /\ i > until /\ i - LastListener \in 1 .. Len(r) /\ LastListener + (i - LastListener) = i
      BY <1>1, <1>6, <2>1, <2>3
    <3> QED
      BY <1>1, <3>1
  <2> QED
    BY <2>2, <2>3
<1>11. OwnerOf(q) \in Managers
  BY RequestFacts
<1> QED
  BY <1>2, <1>3, <1>4, <1>5, <1>6, <1>7, <1>8, <1>9, <1>10, <1>11

LEMMA CallKeepsPlaces ==
    ASSUME SocketInv, NEW q \in Requests, NEW r \in Seq(Requests), CallEffect(q, r)
    PROVE  SocketTypeOK' /\ PlaceInv' /\ PromiseInv'
<1>1. /\ q \in Listening /\ q \notin Suspended
      /\ OwnerOf(q) \in Managers
      /\ \A w \in Elems(r) :
            /\ w \in Requests /\ w \in Suspended /\ w \notin Listening
            /\ w # q /\ awaits[w] = q /\ got[w] = NoRequest
            /\ OwnerOf(w) = OwnerOf(q)
      /\ Len(r) \in Nat /\ \A i \in 1 .. Len(r) : r[i] \in Elems(r)
  BY CallFacts
<1>2. /\ UNCHANGED <<sent, up, down, pushed, awaits, heard, arrived, until, crowded>>
      /\ next' = next + 1 /\ next <= until
      /\ Listening' = Listening \cup Elems(r)
      /\ \A w \in Requests : w \in Suspended' <=> w \in Suspended /\ awaits[w] # q
      /\ \A s \in Requests : s # q => got'[s] = got[s]
  BY DEF CallEffect, link
<1>3. SocketTypeOK'
  <2>1. SocketTypeOK /\ LastListener \in Nat /\ until \in Nat /\ next \in Nat /\ until <= LastListener
    BY TypeFacts DEF SocketInv
  <2>2. /\ sockListeners' \in Seq(Requests) /\ waiting' \in Seq(Requests) /\ LastListener' = LastListener + Len(r)
        /\ got' \in [Requests -> Messages \cup {NoRequest}]
        /\ at' \in [Requests -> 0 .. arrived]
        /\ ongoing' \in [Managers -> Requests \cup {NoRequest}]
    BY DEF CallEffect
  <2>3. next' \in 1 .. until' + 1 /\ until' \in 0 .. Len(sockListeners')
    <3>1. next' \in 1 .. until + 1
      BY <1>2, <2>1
    <3>2. until \in 0 .. LastListener'
      BY <1>1, <2>1, <2>2
    <3> QED
      BY <1>2, <3>1, <3>2 DEF LastListener
  <2> QED
    BY <1>2, <2>1, <2>2, <2>3 DEF SocketTypeOK
<1>4. PlaceInv'
  <2>1. Listening \cap Elems(r) = {}
    BY <1>1
  <2>2. Distinct(sent)' /\ Distinct(sockListeners)' /\ Distinct(waiting)'
    BY <1>2, <2>1 DEF SocketInv, PlaceInv, CallEffect
  <2>3. Suspended' \subseteq Requests
    BY <1>3 DEF SocketTypeOK, Suspended, Elems
  <2>4. Sent' = Sent /\ Sent \subseteq Requests /\ Suspended \subseteq Requests
    BY <1>2, TypeFacts DEF Sent, SocketInv
  <2>5. \A w \in Suspended : w \in Elems(r) \/ w \in Suspended'
    <3> TAKE w \in Suspended
    <3>1. w \in Elems(r) <=> awaits[w] = q
      BY <2>4 DEF CallEffect
    <3> QED
      BY <1>2, <2>4, <3>1
  <2>6. Sent = Listening' \cup Suspended'
    BY <1>1, <1>2, <2>3, <2>4, <2>5 DEF SocketInv, PlaceInv
  <2>7. Listening' \cap Suspended' = {}
    BY <1>1, <1>2, <2>3 DEF SocketInv, PlaceInv
  <2> QED
    BY <2>2, <2>4, <2>6, <2>7 DEF PlaceInv
<1>5. PromiseInv'
  <2>1. ASSUME NEW m \in Managers, ongoing'[m] # NoRequest
        PROVE  /\ OwnerOf(ongoing'[m]) = m /\ ongoing'[m] \in Listening'
               /\ got'[ongoing'[m]] = NoRequest
    <3>1. CASE m = OwnerOf(q)
      <4>1. Len(r) > 0
        <5>1. Len(r) = 0 => ongoing'[m] = NoRequest
          BY <3>1 DEF CallEffect
        <5> QED
          BY <1>1, <2>1, <5>1
      <4>2. ongoing'[m] = r[Len(r)] /\ r[Len(r)] \in Elems(r)
        <5>1. ongoing'[m] = r[Len(r)]
          BY <3>1, <4>1 DEF CallEffect
        <5> QED
          BY <1>1, <4>1, <5>1
      <4> QED
        BY <1>1, <1>2, <3>1, <4>2
    <3>2. CASE m # OwnerOf(q)
      <4>1. ongoing'[m] = ongoing[m]
        BY <3>2 DEF CallEffect
      <4>2. /\ OwnerOf(ongoing[m]) = m /\ ongoing[m] \in Listening
            /\ got[ongoing[m]] = NoRequest
        BY <2>1, <4>1 DEF SocketInv, PromiseInv
      <4>3. ongoing[m] \in Requests /\ ongoing[m] # q
        BY <3>2, <4>2, TypeFacts DEF SocketInv
      <4> QED
        BY <1>2, <4>1, <4>2, <4>3
    <3> QED
      BY <3>1, <3>2
  <2>2. Sent' = Sent
    BY <1>2 DEF Sent
  <2>3. \A s \in Requests : awaits'[s] # NoRequest =>
            s \in Sent' /\ OwnerOf(awaits'[s]) = OwnerOf(s)
    BY <1>2, <2>2 DEF SocketInv, PromiseInv
  <2>4. ASSUME NEW s \in Suspended'
        PROVE  awaits'[s] \in Listening' /\ got'[awaits'[s]] = NoRequest
    <3>1. s \in Requests
      BY <1>3, SMTT(20) DEF SocketTypeOK, Suspended, Elems
    <3>2. s \in Suspended /\ awaits[s] # q
      BY <1>2, <2>4, <3>1
    <3>3. awaits[s] \in Listening /\ got[awaits[s]] = NoRequest
      BY <3>2 DEF SocketInv, PromiseInv
    <3>4. awaits[s] \in Requests
      BY <3>3, TypeFacts DEF SocketInv
    <3> QED
      BY <1>2, <3>2, <3>3, <3>4
  <2> QED
    BY <2>1, <2>3, <2>4 DEF PromiseInv
<1> QED
  BY <1>3, <1>4, <1>5

LEMMA CallKeepsCalls ==
    ASSUME SocketInv, NEW q \in Requests, NEW r \in Seq(Requests), CallEffect(q, r)
    PROVE  CallInv' /\ AwaitInv'
<1>1. /\ q \in Listening /\ at[q] < arrived /\ got'[q] # NoRequest /\ at'[q] > 0
      /\ \A w \in Elems(r) :
            w \in Requests /\ w # q /\ awaits[w] = q /\ got[w] = NoRequest
      /\ \A i \in 1 .. Len(r) : r[i] \in Elems(r)
      /\ \A i \in 1 .. LastListener : i # next => sockListeners[i] # q
      /\ \A i \in 1 .. LastListener' :
            \/ i \in 1 .. LastListener /\ sockListeners'[i] = sockListeners[i]
            \/ /\ i > LastListener /\ i > until /\ i - LastListener \in 1 .. Len(r)
               /\ sockListeners'[i] = r[i - LastListener]
  BY CallFacts
<1>2. /\ awaits' = awaits /\ arrived' = arrived /\ until' = until /\ next' = next + 1
      /\ next <= until /\ next \in 1 .. LastListener /\ q = sockListeners[next]
      /\ Listening' = Listening \cup Elems(r)
      /\ \A s \in Requests : s # q => got'[s] = got[s] /\ at'[s] = at[s]
      /\ got[q] # NoRequest => got'[q] = got[q] /\ at'[q] = at[q]
      /\ got[q] = NoRequest => at'[q] = arrived
  BY DEF CallEffect
<1>3. /\ LastListener \in Nat /\ until \in Nat /\ next \in Nat /\ arrived \in Nat
      /\ \A i \in 1 .. LastListener : sockListeners[i] \in Requests
      /\ \A s \in Requests : at[s] \in Nat
  BY TypeFacts DEF SocketInv
<1>4. CallInv'
  <2>1. Dispatching' => arrived' > 0
    BY <1>2 DEF SocketInv, CallInv, Dispatching
  <2>2. \A s \in Requests :
            IF got'[s] = NoRequest THEN at'[s] = 0 ELSE at'[s] > 0 /\ s \in Listening'
    <3> TAKE s \in Requests
    <3>1. CASE s = q
      BY <1>1, <1>2, <3>1
    <3>2. CASE s # q
      BY <1>2, <3>2 DEF SocketInv, CallInv
    <3> QED
      BY <3>1, <3>2
  <2>3. ASSUME NEW i \in 1 .. LastListener'
        PROVE  /\ i < next' => got'[sockListeners'[i]] # NoRequest
               /\ i > until => got'[sockListeners'[i]] = NoRequest
               /\ next' <= i /\ i <= until => at'[sockListeners'[i]] < arrived
    <3>1. CASE i \in 1 .. LastListener /\ sockListeners'[i] = sockListeners[i]
      <4>1. CASE i = next
        BY <1>1, <1>2, <1>3, <3>1, <4>1
      <4>2. CASE i # next
        <5>1. /\ sockListeners[i] # q /\ sockListeners[i] \in Requests
              /\ got'[sockListeners[i]] = got[sockListeners[i]]
              /\ at'[sockListeners[i]] = at[sockListeners[i]]
          BY <1>1, <1>2, <1>3, <3>1, <4>2
        <5>2. /\ i < next' => i < next
              /\ next' <= i => next <= i
          BY <1>2, <1>3, <3>1, <4>2
        <5> QED
          BY <3>1, <5>1, <5>2 DEF SocketInv, CallInv
      <4> QED
        BY <4>1, <4>2
    <3>2. CASE /\ i > LastListener /\ i > until /\ i - LastListener \in 1 .. Len(r)
               /\ sockListeners'[i] = r[i - LastListener]
      <4>1. sockListeners'[i] \in Elems(r)
        BY <1>1, <3>2
      <4>2. got'[sockListeners'[i]] = NoRequest
        BY <1>1, <1>2, <4>1
      <4>3. ~(i < next') /\ ~(i <= until)
        BY <1>2, <1>3, <3>2
      <4> QED
        BY <4>2, <4>3
    <3> QED
      BY <1>1, <3>1, <3>2
  <2> QED
    BY <1>2, <2>1, <2>2, <2>3 DEF CallInv
<1>5. AwaitInv'
  <2>1. ASSUME NEW i \in 1 .. LastListener, awaits[sockListeners[i]] # NoRequest
        PROVE  /\ awaits[sockListeners[i]] \in Requests
               /\ got[awaits[sockListeners[i]]] # NoRequest
               /\ at[awaits[sockListeners[i]]] < arrived \/ i > until
    <3>1. awaits[sockListeners[i]] \in Requests
      BY <1>3, <2>1 DEF SocketInv, SocketTypeOK
    <3> QED
      BY <2>1, <3>1 DEF SocketInv, AwaitInv
  <2>2. \A s \in Requests : got[s] # NoRequest => got'[s] # NoRequest /\ at'[s] = at[s]
    <3> TAKE s \in Requests
    <3>1. CASE s = q
      BY <1>1, <1>2, <3>1
    <3>2. CASE s # q
      BY <1>2, <3>2
    <3> QED
      BY <3>1, <3>2
  <2>3. AwaitedFirst'
    <3> SUFFICES ASSUME NEW s \in Requests, awaits[s] # NoRequest, got'[s] # NoRequest
                 PROVE  got'[awaits[s]] # NoRequest /\ at'[awaits[s]] < at'[s]
      BY <1>2 DEF AwaitedFirst
    <3>1. awaits[s] \in Requests
      BY DEF SocketInv, SocketTypeOK
    <3>2. CASE got[s] # NoRequest
      <4>1. got[awaits[s]] # NoRequest /\ at[awaits[s]] < at[s]
        BY <3>2 DEF SocketInv, AwaitInv, AwaitedFirst
      <4> QED
        BY <2>2, <3>1, <3>2, <4>1
    <3>3. CASE got[s] = NoRequest
      <4>1. s = q /\ at'[s] = arrived
        BY <1>2, <3>3
      <4>2. got[awaits[s]] # NoRequest /\ at[awaits[s]] < arrived
        BY <1>2, <1>3, <2>1, <4>1
      <4> QED
        BY <2>2, <3>1, <4>1, <4>2
    <3> QED
      BY <3>2, <3>3
  <2>4. ASSUME NEW i \in 1 .. LastListener', awaits[sockListeners'[i]] # NoRequest
        PROVE  /\ got'[awaits[sockListeners'[i]]] # NoRequest
               /\ at'[awaits[sockListeners'[i]]] < arrived \/ i > until
    <3>1. CASE i \in 1 .. LastListener /\ sockListeners'[i] = sockListeners[i]
      BY <2>1, <2>2, <2>4, <3>1
    <3>2. CASE /\ i > LastListener /\ i > until /\ i - LastListener \in 1 .. Len(r)
               /\ sockListeners'[i] = r[i - LastListener]
      <4>1. awaits[sockListeners'[i]] = q
        BY <1>1, <3>2
      <4> QED
        BY <1>1, <3>2, <4>1
    <3> QED
      BY <1>1, <3>1, <3>2
  <2> QED
    BY <1>2, <2>3, <2>4 DEF AwaitInv
<1> QED
  BY <1>4, <1>5

\* The managers whose listener is not called.
LEMMA CallSparesOthers ==
    ASSUME SocketInv, NEW q \in Requests, NEW r \in Seq(Requests), CallEffect(q, r),
           NEW m \in Managers, m # OwnerOf(q), OrderInv(m)
    PROVE  InTurn(m)' /\ NewIsOngoing(m)' /\ OneIsCalled(m)' /\ AsSent(m)'
<1>1. /\ \A w \in Elems(r) : OwnerOf(w) = OwnerOf(q)
      /\ \A i \in 1 .. Len(r) : r[i] \in Elems(r)
      /\ \A i \in 1 .. LastListener : i \in 1 .. LastListener'
      /\ \A i \in 1 .. LastListener' :
            \/ i \in 1 .. LastListener /\ sockListeners'[i] = sockListeners[i]
            \/ /\ i > LastListener /\ i > until /\ i - LastListener \in 1 .. Len(r)
               /\ sockListeners'[i] = r[i - LastListener]
  BY CallFacts
<1>2. /\ sent' = sent /\ arrived' = arrived /\ until' = until /\ next' = next + 1
      /\ next <= until /\ next \in 1 .. LastListener /\ q = sockListeners[next]
      /\ \A i \in 1 .. LastListener : sockListeners'[i] = sockListeners[i]
      /\ \A s \in Requests : s # q => got'[s] = got[s] /\ at'[s] = at[s]
      /\ ongoing'[m] = ongoing[m]
  BY DEF CallEffect
<1>3. ASSUME NEW i \in 1 .. LastListener', OwnerOf(sockListeners'[i]) = m
      PROVE  /\ i \in 1 .. LastListener /\ i # next /\ sockListeners'[i] = sockListeners[i]
             /\ got'[sockListeners[i]] = got[sockListeners[i]]
             /\ at'[sockListeners[i]] = at[sockListeners[i]]
  <2>1. i \in 1 .. LastListener /\ sockListeners'[i] = sockListeners[i]
    BY <1>1, <1>3
  <2>2. sockListeners[i] # q /\ sockListeners[i] \in Requests /\ i # next
    BY <1>2, <1>3, <2>1, TypeFacts DEF SocketInv
  <2> QED
    BY <1>2, <2>1, <2>2
<1>4. InTurn(m) /\ NewIsOngoing(m) /\ OneIsCalled(m) /\ AsSent(m)
  BY DEF OrderInv
<1>5. InTurn(m)'
  BY <1>3, <1>4 DEF InTurn
<1>6. NewIsOngoing(m)'
  BY <1>2, <1>3, <1>4 DEF NewIsOngoing
<1>7. OneIsCalled(m)'
  <2> SUFFICES ASSUME NEW i \in 1 .. LastListener', NEW j \in 1 .. LastListener',
                      OwnerOf(sockListeners'[i]) = m, OwnerOf(sockListeners'[j]) = m,
                      next + 1 <= j, j <= until
               PROVE  i <= until /\ (i < next + 1 => at'[sockListeners'[i]] < arrived)
    BY <1>2 DEF OneIsCalled
  <2>1. next <= j /\ (i < next + 1 => i < next)
    BY <1>2, <1>3, TypeFacts DEF SocketInv
  <2> QED
    BY <1>3, <1>4, <2>1 DEF OneIsCalled
<1>8. AsSent(m)'
  <2> SUFFICES ASSUME NEW i \in 1 .. Len(sent), NEW j \in 1 .. Len(sent), NEW p \in 1 .. LastListener',
                      i < j, OwnerOf(sent[i]) = m, OwnerOf(sent[j]) = m,
                      sockListeners'[p] = sent[j]
               PROVE  \E k \in 1 .. LastListener' : k < p /\ sockListeners'[k] = sent[i]
    BY <1>2 DEF AsSent
  <2>1. p \in 1 .. LastListener /\ sockListeners[p] = sent[j]
    BY <1>3
  <2>2. PICK k \in 1 .. LastListener : k < p /\ sockListeners[k] = sent[i]
    BY <1>4, <2>1 DEF AsSent
  <2> QED
    BY <1>1, <1>2, <2>2
<1> QED
  BY <1>5, <1>6, <1>7, <1>8

\* The manager whose listener is called again, long resolved.
LEMMA CallAgainKeepsOrder ==
    ASSUME SocketInv, NEW q \in Requests, NEW r \in Seq(Requests), CallEffect(q, r),
           OrderInv(OwnerOf(q)), got[q] # NoRequest
    PROVE  /\ InTurn(OwnerOf(q))' /\ NewIsOngoing(OwnerOf(q))'
           /\ OneIsCalled(OwnerOf(q))' /\ AsSent(OwnerOf(q))'
<1> DEFINE m == OwnerOf(q)
<1>1. Len(r) = 0 /\ at[q] < arrived
  BY CallFacts
<1>2. /\ sent' = sent /\ arrived' = arrived /\ until' = until /\ next' = next + 1
      /\ next <= until /\ next \in 1 .. LastListener /\ q = sockListeners[next]
      /\ \A i \in 1 .. LastListener : sockListeners'[i] = sockListeners[i]
      /\ LastListener' = LastListener + Len(r)
  BY DEF CallEffect
<1>3. \A s \in Requests : got'[s] = got[s] /\ at'[s] = at[s]
  BY DEF CallEffect
<1>4. /\ LastListener \in Nat /\ next \in Nat /\ until \in Nat
      /\ \A i \in 1 .. LastListener : sockListeners[i] \in Requests
  BY TypeFacts DEF SocketInv
<1>5. LastListener' = LastListener
  BY <1>1, <1>2, <1>4
<1>6. InTurn(m) /\ NewIsOngoing(m) /\ OneIsCalled(m) /\ AsSent(m)
  BY DEF OrderInv
<1>7. \A i \in 1 .. LastListener' :
          /\ i \in 1 .. LastListener /\ sockListeners'[i] = sockListeners[i]
          /\ got'[sockListeners[i]] = got[sockListeners[i]]
          /\ at'[sockListeners[i]] = at[sockListeners[i]]
  BY <1>2, <1>3, <1>4, <1>5
<1>8. InTurn(m)'
  BY <1>6, <1>7 DEF InTurn
<1>9. NewIsOngoing(m)'
  <2>1. ASSUME NEW i \in 1 .. LastListener, i > until, OwnerOf(sockListeners[i]) = m PROVE FALSE
    <3>1. i <= until
      BY <1>2, <1>4, <1>6, <2>1 DEF OneIsCalled
    <3> QED
      BY <1>4, <2>1, <3>1
  <2> QED
    BY <1>2, <1>7, <2>1 DEF NewIsOngoing
<1>10. OneIsCalled(m)'
  <2> SUFFICES ASSUME NEW i \in 1 .. LastListener, NEW j \in 1 .. LastListener,
                      OwnerOf(sockListeners[i]) = m, OwnerOf(sockListeners[j]) = m,
                      next + 1 <= j, j <= until
               PROVE  i <= until /\ (i < next + 1 => at[sockListeners[i]] < arrived)
    BY <1>2, <1>7 DEF OneIsCalled
  <2>1. next <= j
    BY <1>4
  <2>2. i <= until /\ (i < next => at[sockListeners[i]] < arrived)
    BY <1>6, <2>1 DEF OneIsCalled
  <2>3. i < next + 1 => i < next \/ i = next
    BY <1>4
  <2> QED
    BY <1>1, <1>2, <2>2, <2>3
<1>11. AsSent(m)'
  BY <1>2, <1>5, <1>6, <1>7 DEF AsSent
<1> QED
  BY <1>8, <1>9, <1>10, <1>11

\* The manager whose listener is called for the first time: it is the last one
\* of the manager, and no more than one request resumes.
LEMMA CallFirstKeepsOrder ==
    ASSUME SocketInv, NEW q \in Requests, NEW r \in Seq(Requests), CallEffect(q, r),
           OrderInv(OwnerOf(q)), got[q] = NoRequest
    PROVE  /\ InTurn(OwnerOf(q))' /\ NewIsOngoing(OwnerOf(q))'
           /\ OneIsCalled(OwnerOf(q))' /\ AsSent(OwnerOf(q))'
<1> DEFINE m == OwnerOf(q)
<1>1. /\ q \in Listening /\ m \in Managers /\ got'[q] # NoRequest
      /\ \A w \in Elems(r) :
            /\ w \in Requests /\ w \in Sent /\ w \notin Listening /\ w # q
            /\ got[w] = NoRequest /\ OwnerOf(w) = m
      /\ Len(r) \in Nat /\ \A i \in 1 .. Len(r) : r[i] \in Elems(r)
      /\ \A i \in 1 .. LastListener : i # next => sockListeners[i] # q
      /\ \A i \in 1 .. LastListener : i \in 1 .. LastListener'
  BY CallFacts
<1>2. /\ sent' = sent /\ arrived' = arrived /\ until' = until /\ next' = next + 1
      /\ next <= until /\ next \in 1 .. LastListener /\ q = sockListeners[next]
      /\ \A i \in 1 .. LastListener : sockListeners'[i] = sockListeners[i]
      /\ \A s \in Requests : s # q => got'[s] = got[s] /\ at'[s] = at[s]
      /\ at'[q] = arrived /\ Distinct(r)
      /\ Len(r) > 0 => ongoing'[m] = r[Len(r)]
  BY DEF CallEffect
<1>3. /\ LastListener \in Nat /\ next \in Nat /\ until \in Nat /\ until <= LastListener /\ arrived \in Nat
      /\ \A i \in 1 .. LastListener : sockListeners[i] \in Requests /\ sockListeners[i] \in Listening
      /\ \A i \in 1 .. Len(sent) : sent[i] \in Sent /\ sent[i] \in Requests
      /\ \A s \in Listening : \E i \in 1 .. LastListener : sockListeners[i] = s
      /\ Listening \subseteq Sent
  BY TypeFacts DEF SocketInv, PlaceInv
<1>4. TwoPending(m) /\ InTurn(m) /\ OneIsCalled(m) /\ AsSent(m)
  BY DEF OrderInv
<1>5. \A s : s \in Pending(m) <=> s \in Sent /\ got[s] = NoRequest /\ OwnerOf(s) = m
  BY DEF Pending, InFlight
<1>6. q \in Pending(m) /\ \A w \in Elems(r) : w \in Pending(m)
  BY <1>1, <1>3, <1>5
<1>7. Len(r) <= 1
  <2> SUFFICES ASSUME Len(r) > 1 PROVE FALSE
    BY <1>1
  <2>1. 1 \in 1 .. Len(r) /\ 2 \in 1 .. Len(r)
    BY <1>1
  <2>2. r[1] # r[2]
    BY <1>2, <2>1 DEF Distinct
  <2> QED
    BY <1>1, <1>4, <1>6, <2>1, <2>2 DEF TwoPending
<1>8. ASSUME NEW i \in 1 .. LastListener, OwnerOf(sockListeners[i]) = m PROVE i <= next
  BY <1>2, <1>3, <1>4, <1>8 DEF InTurn
<1>9. ASSUME NEW i \in 1 .. LastListener'
      PROVE  \/ i \in 1 .. LastListener /\ sockListeners'[i] = sockListeners[i]
             \/ /\ i = LastListener + 1 /\ i > until /\ Len(r) = 1 /\ sockListeners'[i] = r[1]
                /\ sockListeners'[i] \in Elems(r)
  <2>1. \/ i \in 1 .. LastListener /\ sockListeners'[i] = sockListeners[i]
        \/ /\ i > LastListener /\ i > until /\ i - LastListener \in 1 .. Len(r)
           /\ sockListeners'[i] = r[i - LastListener]
    BY CallFacts
  <2>2. i - LastListener \in 1 .. Len(r) => i - LastListener = 1 /\ i = LastListener + 1 /\ Len(r) = 1
    <3>1. LastListener' = LastListener + Len(r)
      BY DEF CallEffect
    <3>2. i \in Nat
      BY <1>1, <1>3, <3>1
    <3>3. Len(r) \in Nat /\ Len(r) <= 1 /\ LastListener \in Nat
      BY <1>1, <1>3, <1>7
    <3>4. \A a, b, c \in Nat : c <= 1 /\ a - b \in 1 .. c => a - b = 1 /\ a = b + 1 /\ c = 1
      OBVIOUS
    <3> QED
      BY <3>2, <3>3, <3>4
  <2> QED
    BY <1>1, <2>1, <2>2
<1>10. ASSUME NEW i \in 1 .. LastListener, i # next
       PROVE  /\ got'[sockListeners[i]] = got[sockListeners[i]]
              /\ at'[sockListeners[i]] = at[sockListeners[i]]
  BY <1>1, <1>2, <1>3, <1>10
<1>11. ASSUME NEW i \in 1 .. LastListener, OwnerOf(sockListeners[i]) = m, i < next
       PROVE  got[sockListeners[i]] # NoRequest /\ at[sockListeners[i]] < arrived
  <2>1. got[sockListeners[i]] # NoRequest
    BY <1>2, <1>4, <1>11 DEF InTurn
  <2>2. at[sockListeners[i]] < arrived
    BY <1>2, <1>3, <1>4, <1>11 DEF OneIsCalled
  <2> QED
    BY <2>1, <2>2
<1>12. InTurn(m)'
  <2> SUFFICES ASSUME NEW i \in 1 .. LastListener', NEW j \in 1 .. LastListener', i < j,
                      OwnerOf(sockListeners'[i]) = m, OwnerOf(sockListeners'[j]) = m
               PROVE  /\ got'[sockListeners'[i]] # NoRequest
                      /\ got'[sockListeners'[j]] # NoRequest =>
                            at'[sockListeners'[i]] < at'[sockListeners'[j]]
    BY DEF InTurn
  <2>1. i \in 1 .. LastListener /\ sockListeners'[i] = sockListeners[i]
    BY <1>3, <1>9
  <2>2. i <= next
    BY <1>8, <2>1
  <2>3. CASE j \in 1 .. LastListener /\ sockListeners'[j] = sockListeners[j]
    <3>1. j <= next /\ i < next
      BY <1>3, <1>8, <2>1, <2>3
    <3>2. /\ got'[sockListeners[i]] # NoRequest /\ at'[sockListeners[i]] = at[sockListeners[i]]
          /\ at[sockListeners[i]] < arrived
      BY <1>3, <1>10, <1>11, <2>1, <3>1
    <3>3. CASE j = next
      BY <1>2, <2>1, <2>3, <3>2, <3>3
    <3>4. CASE j # next
      BY <1>4, <1>10, <2>1, <2>3, <3>2, <3>4 DEF InTurn
    <3> QED
      BY <3>3, <3>4
  <2>4. CASE sockListeners'[j] \in Elems(r)
    <3>1. got'[sockListeners'[j]] = NoRequest
      BY <1>1, <1>2, <2>4
    <3>2. got'[sockListeners[i]] # NoRequest
      <4>1. CASE i = next
        BY <1>1, <1>2, <4>1
      <4>2. CASE i < next
        BY <1>3, <1>10, <1>11, <2>1, <4>2
      <4> QED
        BY <1>3, <2>1, <2>2, <4>1, <4>2
    <3> QED
      BY <2>1, <3>1, <3>2
  <2> QED
    BY <1>9, <2>3, <2>4
<1>13. NewIsOngoing(m)'
  <2> SUFFICES ASSUME NEW i \in 1 .. LastListener', i > until, OwnerOf(sockListeners'[i]) = m
               PROVE  ongoing'[m] = sockListeners'[i]
    BY <1>2 DEF NewIsOngoing
  <2>1. ~(i \in 1 .. LastListener /\ sockListeners'[i] = sockListeners[i])
    <3> SUFFICES ASSUME i \in 1 .. LastListener, sockListeners'[i] = sockListeners[i] PROVE FALSE
      OBVIOUS
    <3>1. i <= next
      BY <1>8
    <3> QED
      BY <1>2, <1>3, <3>1
  <2> QED
    BY <1>2, <1>9, <2>1
<1>14. OneIsCalled(m)'
  <2>1. ASSUME NEW j \in 1 .. LastListener', OwnerOf(sockListeners'[j]) = m,
               next + 1 <= j, j <= until
        PROVE  FALSE
    <3>1. j \in 1 .. LastListener /\ sockListeners'[j] = sockListeners[j]
      BY <1>3, <1>9, <2>1
    <3>2. j <= next
      BY <1>8, <2>1, <3>1
    <3> QED
      BY <1>3, <2>1, <3>1, <3>2
  <2> QED
    BY <1>2, <2>1 DEF OneIsCalled
<1>15. AsSent(m)'
  <2> SUFFICES ASSUME NEW i \in 1 .. Len(sent), NEW j \in 1 .. Len(sent), NEW p \in 1 .. LastListener',
                      i < j, OwnerOf(sent[i]) = m, OwnerOf(sent[j]) = m,
                      sockListeners'[p] = sent[j]
               PROVE  \E k \in 1 .. LastListener' : k < p /\ sockListeners'[k] = sent[i]
    BY <1>2 DEF AsSent
  <2>1. CASE p \in 1 .. LastListener /\ sockListeners'[p] = sockListeners[p]
    <3>1. PICK k \in 1 .. LastListener : k < p /\ sockListeners[k] = sent[i]
      BY <1>4, <2>1, ZenonT(30) DEF AsSent
    <3> QED
      BY <1>1, <1>2, <3>1
  <2>2. CASE p = LastListener + 1 /\ sockListeners'[p] \in Elems(r)
    <3>1. sent[i] # sent[j]
      <4>1. Len(sent) \in Nat
        BY TypeFacts DEF SocketInv
      <4> QED
        BY <4>1 DEF SocketInv, PlaceInv, Distinct
    <3>2. sent[i] \in Listening
      <4>1. CASE got[sent[i]] # NoRequest
        BY <1>3, <4>1 DEF SocketInv, CallInv
      <4>2. CASE got[sent[i]] = NoRequest
        <5>1. sent[i] \in Pending(m) /\ sent[j] \in Pending(m) /\ sent[j] # q
          BY <1>1, <1>3, <1>5, <1>6, <2>2, <4>2
        <5>2. sent[i] = q
          BY <1>4, <1>6, <3>1, <5>1 DEF TwoPending
        <5> QED
          BY <1>1, <5>2
      <4> QED
        BY <4>1, <4>2
    <3>3. PICK k \in 1 .. LastListener : sockListeners[k] = sent[i]
      BY <1>3, <3>2
    <3>4. k < p /\ k \in 1 .. LastListener' /\ sockListeners'[k] = sockListeners[k]
      BY <1>1, <1>2, <1>3, <2>2, <3>3
    <3> QED
      BY <3>3, <3>4
  <2> QED
    BY <1>9, <2>1, <2>2
<1> QED
  BY <1>12, <1>13, <1>14, <1>15

LEMMA CallKeepsOrder ==
    ASSUME SocketInv, NEW q \in Requests, NEW r \in Seq(Requests), CallEffect(q, r)
    PROVE  FewInv'
<1> SUFFICES ASSUME NEW m \in Managers, ~crowded[m] PROVE OrderInv(m)'
  BY DEF FewInv, CallEffect
<1>1. OrderInv(m)
  BY DEF SocketInv, FewInv
<1>2. TwoPending(m)'
  <2>1. Sent' = Sent /\ \A s \in Requests : got'[s] = NoRequest => got[s] = NoRequest
    <3>1. sent' = sent /\ \A s \in Requests : s # q => got'[s] = got[s]
      BY DEF CallEffect
    <3>2. got'[q] # NoRequest
      BY CallFacts
    <3> QED
      BY <3>1, <3>2 DEF Sent
  <2>2. Sent \subseteq Requests
    BY TypeFacts DEF SocketInv
  <2>3. Pending(m)' \subseteq Pending(m)
    BY <2>1, <2>2 DEF Pending, InFlight
  <2> QED
    BY <1>1, <2>3 DEF OrderInv, TwoPending
<1>3. CASE m # OwnerOf(q)
  BY <1>1, <1>2, <1>3, CallSparesOthers DEF OrderInv
<1>4. CASE m = OwnerOf(q) /\ got[q] # NoRequest
  BY <1>1, <1>2, <1>4, CallAgainKeepsOrder DEF OrderInv
<1>5. CASE m = OwnerOf(q) /\ got[q] = NoRequest
  BY <1>1, <1>2, <1>5, CallFirstKeepsOrder DEF OrderInv
<1> QED
  BY <1>3, <1>4, <1>5

LEMMA CallKeepsReplies ==
    ASSUME SocketInv, NEW q \in Requests, NEW r \in Seq(Requests), CallEffect(q, r)
    PROVE  LinkInv' /\ MatchInv'
<1>1. /\ q \in Listening /\ at[q] < arrived /\ got'[q] # NoRequest
      /\ \A i \in 1 .. LastListener : i \in 1 .. LastListener'
  BY CallFacts
<1>2. /\ UNCHANGED <<sent, up, down, pushed, heard, arrived, until, crowded>>
      /\ next' = next + 1 /\ next <= until /\ next \in 1 .. LastListener /\ q = sockListeners[next]
      /\ \A i \in 1 .. LastListener : sockListeners'[i] = sockListeners[i]
      /\ \A s \in Requests : s # q => got'[s] = got[s] /\ at'[s] = at[s]
      /\ got[q] # NoRequest => got'[q] = got[q] /\ at'[q] = at[q]
      /\ got[q] = NoRequest => got'[q] = heard /\ at'[q] = arrived
  BY DEF CallEffect, link
<1>3. /\ LastListener \in Nat /\ next \in Nat /\ until \in Nat /\ arrived \in Nat
      /\ Sent' = Sent /\ Listening \subseteq Sent
      /\ \A i \in 1 .. Len(sent) : sent[i] \in Sent /\ sent[i] \in Requests
      /\ \A s \in Sent : \E i \in 1 .. Len(sent) : sent[i] = s
      /\ \A s \in Listening : \E i \in 1 .. LastListener : sockListeners[i] = s
  BY <1>2, TypeFacts DEF SocketInv, PlaceInv, Sent
<1>4. LinkInv'
  BY <1>2 DEF SocketInv, LinkInv
<1>5. MatchInv'
  <2> SUFFICES ASSUME pushed = 0, OneManager, NEW i \in 1 .. Len(sent)
               PROVE  /\ got'[sent[i]] # NoRequest => got'[sent[i]] = sent[i] /\ at'[sent[i]] = i
                      /\ i < arrived => got'[sent[i]] # NoRequest
                      /\ i = arrived /\ got'[sent[i]] = NoRequest =>
                            \E p \in 1 .. LastListener' :
                                next + 1 <= p /\ p <= until /\ sockListeners'[p] = sent[i]
    BY <1>2, <1>3 DEF MatchInv, OneManager
  <2>1. \A k \in 1 .. Len(sent) :
            /\ got[sent[k]] # NoRequest => got[sent[k]] = sent[k] /\ at[sent[k]] = k
            /\ k < arrived => got[sent[k]] # NoRequest
            /\ k = arrived /\ got[sent[k]] = NoRequest =>
                  \E p \in 1 .. LastListener : next <= p /\ p <= until /\ sockListeners[p] = sent[k]
    BY DEF SocketInv, MatchInv
  <2>2. CASE sent[i] # q
    <3>1. got'[sent[i]] = got[sent[i]] /\ at'[sent[i]] = at[sent[i]]
      BY <1>2, <1>3, <2>2
    <3>2. ASSUME NEW p \in 1 .. LastListener, next <= p, p <= until, sockListeners[p] = sent[i]
          PROVE  p \in 1 .. LastListener' /\ next + 1 <= p /\ sockListeners'[p] = sent[i]
      <4>1. p # next
        BY <1>2, <2>2, <3>2
      <4> QED
        BY <1>1, <1>2, <1>3, <3>2, <4>1
    <3> QED
      BY <2>1, <3>1, <3>2
  <2>3. CASE sent[i] = q /\ got[q] # NoRequest
    BY <1>2, <2>1, <2>3
  <2>4. CASE sent[i] = q /\ got[q] = NoRequest
    <3>1. ~(i < arrived)
      BY <2>1, <2>4
    <3>2. i = arrived
      <4> SUFFICES ASSUME i > arrived PROVE FALSE
        BY <1>3, <3>1
      <4>1. arrived \in 1 .. Len(sent) /\ arrived < i
        <5>1. Len(sent) \in Nat /\ arrived > 0
          BY <1>2, TypeFacts DEF SocketInv, CallInv, Dispatching
        <5> QED
          BY <1>3, <5>1
      <4>2. PICK m \in Managers : m = OwnerOf(q)
        BY RequestFacts
      <4>3. OwnerOf(sent[arrived]) = m /\ ~crowded[m]
        BY <1>3, <2>4, <4>1, <4>2 DEF OneManager
      <4>4. AsSent(m) /\ OneIsCalled(m)
        BY <4>3 DEF SocketInv, FewInv, OrderInv
      <4>5. PICK k \in 1 .. LastListener : k < next /\ sockListeners[k] = sent[arrived]
        BY <1>2, <2>4, <4>1, <4>2, <4>3, <4>4 DEF AsSent
      <4>6. got[sent[arrived]] # NoRequest
        BY <4>5 DEF SocketInv, CallInv
      <4>7. at[sent[arrived]] = arrived
        BY <2>1, <4>1, <4>6
      <4>8. at[sockListeners[k]] < arrived
        BY <1>2, <1>3, <4>2, <4>3, <4>4, <4>5 DEF OneIsCalled
      <4> QED
        BY <1>3, <4>5, <4>7, <4>8
    <3>3. heard = sent[arrived]
      <4>1. arrived > 0
        BY <1>2 DEF SocketInv, CallInv, Dispatching
      <4> QED
        BY <4>1 DEF SocketInv, LinkInv
    <3> QED
      BY <1>1, <1>2, <2>4, <3>2, <3>3
  <2> QED
    BY <2>2, <2>3, <2>4
<1> QED
  BY <1>4, <1>5

LEMMA CallStep ==
    ASSUME SocketInv, CallListener
    PROVE  SocketInv'
<1>1. PICK q \in Requests, r \in Seq(Requests) : CallEffect(q, r)
  BY CallHasEffect DEF SocketInv
<1>2. SocketTypeOK' /\ PlaceInv' /\ PromiseInv'
  BY <1>1, CallKeepsPlaces
<1>3. CallInv' /\ AwaitInv'
  BY <1>1, CallKeepsCalls
<1>4. FewInv'
  BY <1>1, CallKeepsOrder
<1>5. LinkInv' /\ MatchInv'
  BY <1>1, CallKeepsReplies
<1> QED
  BY <1>2, <1>3, <1>4, <1>5 DEF SocketInv

-----------------------------------------------------------------------------
(* The theorems.                                                           *)

LEMMA SocketStart == SocketInit => SocketInv
<1> SUFFICES ASSUME SocketInit PROVE SocketInv
  OBVIOUS
<1>1. /\ sent = <<>> /\ up = <<>> /\ down = <<>> /\ pushed = 0 /\ waiting = <<>>
      /\ sockListeners = <<>> /\ heard = Push /\ arrived = 0 /\ next = 1 /\ until = 0
      /\ ongoing = [m \in Managers |-> NoRequest]
      /\ awaits = [q \in Requests |-> NoRequest]
      /\ got = [q \in Requests |-> NoRequest] /\ at = [q \in Requests |-> 0]
      /\ crowded = [m \in Managers |-> FALSE]
  BY DEF SocketInit
<1>2. /\ Len(<<>>) = 0 /\ <<>> \in Seq(Requests) /\ <<>> \in Seq(Messages)
      /\ Elems(<<>>) = {} /\ Distinct(<<>>)
  BY DEF Elems, Distinct
<1>3. SocketTypeOK
  BY <1>1, <1>2, SocketAssumption DEF SocketTypeOK, Messages
<1>4. Sent = {} /\ Listening = {} /\ Suspended = {} /\ LastListener = 0
  BY <1>1, <1>2, <1>3, TypeFacts DEF Listening, Suspended, LastListener
<1>5. PlaceInv /\ PromiseInv
  BY <1>1, <1>2, <1>4 DEF PlaceInv, PromiseInv
<1>6. CallInv /\ AwaitInv
  BY <1>1, <1>4 DEF CallInv, AwaitInv, AwaitedFirst, Dispatching
<1>7. FewInv
  <2>1. \A m : Pending(m) = {}
    BY <1>4 DEF Pending, InFlight
  <2>2. \A m : TwoPending(m) /\ InTurn(m) /\ NewIsOngoing(m) /\ OneIsCalled(m) /\ AsSent(m)
    BY <1>1, <1>2, <1>4, <2>1 DEF TwoPending, InTurn, NewIsOngoing, OneIsCalled, AsSent
  <2> QED
    BY <2>2 DEF FewInv, OrderInv
<1>8. LinkInv /\ MatchInv
  BY <1>1, <1>2 DEF LinkInv, MatchInv
<1> QED
  BY <1>3, <1>5, <1>6, <1>7, <1>8 DEF SocketInv

\* The invariant: who listens, who waits and for whom, and what of a message
\* under dispatch is yet to be called.
THEOREM SocketInvariant == SocketSpec => []SocketInv
<1>1. SocketInit => SocketInv
  BY SocketStart
<1>2. ASSUME SocketInv, [SocketNext]_socketVars PROVE SocketInv'
  <2>1. CASE UNCHANGED socketVars
    <3>1. /\ UNCHANGED <<sent, up, down, pushed, ongoing, waiting, awaits, sockListeners,
                         heard, arrived, next, until, got, at, crowded>>
          /\ UNCHANGED <<promises, dispatch>>
      BY <2>1 DEF socketVars, link, promises, dispatch
    <3>2. SocketTypeOK' /\ LinkInv' /\ MatchInv'
      BY <1>2, <3>1 DEF SocketInv, SocketTypeOK, LinkInv, MatchInv, OneManager, Sent, LastListener
    <3> QED
      BY <1>2, <3>1, <3>2, LinkStep DEF SocketInv
  <2>2. ASSUME NEW q \in Requests, SendMessage(q) PROVE SocketInv'
    BY <1>2, <2>2, SendStep
  <2>3. CASE ServerAnswers
    BY <1>2, <2>3, AnswerStep
  <2>4. CASE ServerPushes
    BY <1>2, <2>4, PushStep
  <2>5. CASE Receive
    BY <1>2, <2>5, ReceiveStep
  <2>6. CASE CallListener
    BY <1>2, <2>6, CallStep
  <2> QED
    BY <1>2, <2>1, <2>2, <2>3, <2>4, <2>5, <2>6 DEF SocketNext
<1> QED
  BY <1>1, <1>2, PTL DEF SocketSpec

\* The replies of the socket are taken in order: each request is resolved after
\* the one it waited for, requests of a manager that has no more than two in
\* flight are resolved in the order they were sent, each with a message of its
\* own, and with their own replies if the manager is alone and nothing is pushed.
THEOREM RepliesStayInOrder == SocketSpec => []RepliesInOrder
<1>1. SocketInv => RepliesInOrder
  <2> SUFFICES ASSUME SocketInv PROVE RepliesInOrder
    OBVIOUS
  <2>1. FewRepliesMatch
    <3> SUFFICES ASSUME pushed = 0, OneManager, NEW q \in Requests, got[q] # NoRequest
                 PROVE  got[q] = q
      BY DEF FewRepliesMatch, RepliesMatch, OneManager
    <3>1. q \in Sent
      BY DEF SocketInv, CallInv, PlaceInv
    <3>2. PICK i \in 1 .. Len(sent) : sent[i] = q
      BY <3>1, TypeFacts DEF SocketInv
    <3> QED
      BY <3>2 DEF SocketInv, MatchInv
  <2>2. AwaitedFirst
    BY DEF SocketInv, AwaitInv
  <2>3. NeverOvertaken
    <3>1. DOMAIN sent = 1 .. Len(sent)
      BY DEF SocketInv, SocketTypeOK
    <3> SUFFICES ASSUME NEW i \in 1 .. Len(sent), NEW j \in 1 .. Len(sent), i < j,
                        OwnerOf(sent[i]) = OwnerOf(sent[j]), ~crowded[OwnerOf(sent[j])],
                        got[sent[j]] # NoRequest
                 PROVE  got[sent[i]] # NoRequest /\ at[sent[i]] < at[sent[j]]
      BY <3>1 DEF NeverOvertaken
    <3>2. sent[i] \in Requests /\ sent[j] \in Requests
      BY TypeFacts DEF SocketInv
    <3>3. PICK m \in Managers : m = OwnerOf(sent[j])
      BY <3>2, RequestFacts
    <3>4. AsSent(m) /\ InTurn(m)
      BY <3>3 DEF SocketInv, FewInv, OrderInv
    <3>5. PICK p \in 1 .. LastListener : sockListeners[p] = sent[j]
      BY <3>2, TypeFacts DEF SocketInv, CallInv
    <3>6. PICK k \in 1 .. LastListener : k < p /\ sockListeners[k] = sent[i]
      BY <3>3, <3>4, <3>5 DEF AsSent
    <3> QED
      BY <3>3, <3>4, <3>5, <3>6 DEF InTurn
  <2> QED
    BY <2>1, <2>2, <2>3 DEF RepliesInOrder
<1> QED
  BY <1>1, SocketInvariant, PTL
=============================================================================
