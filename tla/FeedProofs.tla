----------------------------- MODULE FeedProofs ----------------------------
(* Proofs about Feed, for any subjects and watches.                        *)
EXTENDS Feed, TLAPS

FeedShape ==
    /\ line \in Nat
    /\ home \in [Watches -> Nat]
    /\ current \in [Subjects -> Nat]
    /\ about \in [Watches -> Subjects]
    /\ stage \in [Watches -> {"new", "offered", "open", "closed"}]
    /\ transit \in [Watches -> Seq(Nat)]
    /\ seen \in [Watches -> Nat]

\* Nothing is on its way to a watch that is new.
NewIsEmpty ==
    \A w \in Watches :
        /\ home[w] = 0 => stage[w] = "new"
        /\ stage[w] = "new" => transit[w] = <<>> /\ seen[w] = 0

\* What is on its way to w is newer than what w has seen, and published.
NewerThanSeen(w) ==
    \A i \in DOMAIN transit[w] :
        seen[w] < transit[w][i] /\ transit[w][i] <= current[about[w]]

\* It comes in order.
Ascending(w) ==
    \A i, j \in DOMAIN transit[w] : i < j => transit[w][i] < transit[w][j]

\* What w has seen was published.
SeenIsPublished(w) == seen[w] <= current[about[w]]

FeedInv ==
    /\ FeedShape
    /\ NewIsEmpty
    /\ \A w \in Watches : NewerThanSeen(w) /\ Ascending(w) /\ SeenIsPublished(w)

-----------------------------------------------------------------------------
\* A piece of a sequence that ascends above n ascends above n.
Above(s, n, m) ==
    /\ \A i \in DOMAIN s : n < s[i] /\ s[i] <= m
    /\ \A i, j \in DOMAIN s : i < j => s[i] < s[j]

LEMMA PieceAbove ==
    ASSUME NEW s \in Seq(Nat), NEW n \in Nat, NEW m \in Nat, Above(s, n, m),
           NEW a \in 1 .. Len(s) + 1, NEW b \in 0 .. Len(s)
    PROVE  SubSeq(s, a, b) \in Seq(Nat) /\ Above(SubSeq(s, a, b), n, m)
<1> DEFINE t == SubSeq(s, a, b)
<1>1. t \in Seq(Nat) /\ Len(t) = IF a <= b THEN b - a + 1 ELSE 0
  OBVIOUS
<1>2. \A i \in 1 .. Len(t) : i + a - 1 \in 1 .. Len(s) /\ t[i] = s[i + a - 1]
  OBVIOUS
<1> HIDE DEF t
<1>5. DOMAIN t = 1 .. Len(t) /\ DOMAIN s = 1 .. Len(s) /\ Len(t) \in Nat /\ Len(s) \in Nat
  BY <1>1
<1>3. \A i \in DOMAIN t : n < t[i] /\ t[i] <= m
  <2> SUFFICES ASSUME NEW i \in 1 .. Len(t) PROVE n < t[i] /\ t[i] <= m
    BY <1>5
  <2>1. i + a - 1 \in DOMAIN s /\ t[i] = s[i + a - 1]
    BY <1>2, <1>5
  <2> QED
    BY <2>1 DEF Above
<1>4. \A i, j \in DOMAIN t : i < j => t[i] < t[j]
  <2> SUFFICES ASSUME NEW i \in 1 .. Len(t), NEW j \in 1 .. Len(t), i < j
               PROVE  t[i] < t[j]
    BY <1>5
  <2>1. i + a - 1 \in DOMAIN s /\ j + a - 1 \in DOMAIN s
    BY <1>2, <1>5
  <2>3. i + a - 1 < j + a - 1
    BY <1>5
  <2>2. s[i + a - 1] < s[j + a - 1]
    BY <2>1, <2>3, Zenon DEF Above
  <2> QED
    BY <1>2, <2>2
<1> QED
  BY <1>1, <1>3, <1>4 DEF Above, t

LEMMA TailAbove ==
    ASSUME NEW s \in Seq(Nat), NEW n \in Nat, NEW m \in Nat, Above(s, n, m), s # <<>>
    PROVE  /\ Tail(s) \in Seq(Nat) /\ Above(Tail(s), n, m) /\ Above(Tail(s), Head(s), m)
           /\ Head(s) \in Nat /\ n < Head(s)
<1> DEFINE t == Tail(s)
<1>1. t \in Seq(Nat) /\ Len(t) = Len(s) - 1 /\ Len(s) \in Nat \ {0}
  OBVIOUS
<1>2. \A i \in 1 .. Len(t) : i + 1 \in DOMAIN s /\ 1 \in DOMAIN s /\ t[i] = s[i + 1]
  OBVIOUS
<1>3. Head(s) = s[1] /\ 1 \in DOMAIN s
  OBVIOUS
<1> HIDE DEF t
<1>7. DOMAIN t = 1 .. Len(t)
  BY <1>1
<1>4. Head(s) \in Nat /\ n < Head(s)
  BY <1>3 DEF Above
<1>5. \A i \in DOMAIN t : n < t[i] /\ Head(s) < t[i] /\ t[i] <= m
  <2> SUFFICES ASSUME NEW i \in 1 .. Len(t)
               PROVE  n < t[i] /\ Head(s) < t[i] /\ t[i] <= m
    BY <1>1
  <2>1. i + 1 \in DOMAIN s /\ 1 \in DOMAIN s /\ 1 < i + 1 /\ t[i] = s[i + 1]
    BY <1>2
  <2>3. s[1] < s[i + 1]
    BY <2>1, Zenon DEF Above
  <2>4. n < s[i + 1] /\ s[i + 1] <= m
    BY <2>1 DEF Above
  <2>2. s[1] < s[i + 1] /\ n < s[i + 1] /\ s[i + 1] <= m
    BY <2>3, <2>4
  <2> QED
    BY <2>1, <2>2, <1>3
<1>6. \A i, j \in DOMAIN t : i < j => t[i] < t[j]
  <2> SUFFICES ASSUME NEW i \in 1 .. Len(t), NEW j \in 1 .. Len(t), i < j
               PROVE  t[i] < t[j]
    BY <1>7
  <2>1. i + 1 \in DOMAIN s /\ j + 1 \in DOMAIN s
    BY <1>2
  <2>3. i + 1 < j + 1
    <3>1. i \in Nat /\ j \in Nat
      BY <1>1
    <3> QED
      BY <3>1
  <2>2. s[i + 1] < s[j + 1]
    BY <2>1, <2>3, Zenon DEF Above
  <2> QED
    BY <1>2, <2>2
<1> QED
  BY <1>1, <1>4, <1>5, <1>6 DEF Above, t

LEMMA AppendAbove ==
    ASSUME NEW s \in Seq(Nat), NEW n \in Nat, NEW m \in Nat, Above(s, n, m), n <= m
    PROVE  Append(s, m + 1) \in Seq(Nat) /\ Above(Append(s, m + 1), n, m + 1)
<1> DEFINE t == Append(s, m + 1)
<1>1. /\ t \in Seq(Nat) /\ DOMAIN t = 1 .. Len(s) + 1 /\ DOMAIN s = 1 .. Len(s)
      /\ Len(s) \in Nat
      /\ \A i \in 1 .. Len(s) : t[i] = s[i] /\ s[i] \in Nat
      /\ t[Len(s) + 1] = m + 1
  OBVIOUS
<1> HIDE DEF t
<1>4. \A i \in 1 .. Len(s) : n < s[i] /\ s[i] <= m
  BY <1>1 DEF Above
<1>2. \A i \in DOMAIN t : n < t[i] /\ t[i] <= m + 1
  <2> SUFFICES ASSUME NEW i \in 1 .. Len(s) + 1 PROVE n < t[i] /\ t[i] <= m + 1
    BY <1>1
  <2>1. CASE i = Len(s) + 1
    BY <2>1, <1>1
  <2>2. CASE i \in 1 .. Len(s)
    BY <2>2, <1>1, <1>4
  <2> QED
    BY <2>1, <2>2, <1>1
<1>3. \A i, j \in DOMAIN t : i < j => t[i] < t[j]
  <2> SUFFICES ASSUME NEW i \in 1 .. Len(s) + 1, NEW j \in 1 .. Len(s) + 1, i < j
               PROVE  t[i] < t[j]
    BY <1>1
  <2>1. i \in 1 .. Len(s)
    BY <1>1
  <2>2. CASE j = Len(s) + 1
    BY <2>1, <2>2, <1>1, <1>4
  <2>3. CASE j \in 1 .. Len(s)
    <3>1. s[i] < s[j]
      BY <2>1, <2>3, <1>1, Zenon DEF Above
    <3> QED
      BY <2>1, <2>3, <3>1, <1>1
  <2> QED
    BY <2>2, <2>3, <1>1
<1> QED
  BY <1>1, <1>2, <1>3 DEF Above, t

-----------------------------------------------------------------------------
\* Every step keeps what is on its way new, published and in order.
FeedFacts ==
    /\ FeedShape
    /\ NewIsEmpty
    /\ \A w \in Watches : Above(transit[w], seen[w], current[about[w]])
    /\ \A w \in Watches : seen[w] <= current[about[w]]

LEMMA FeedStep == ASSUME FeedFacts, [FeedNext]_feedVars PROVE FeedFacts'
<1> USE DEF FeedFacts, FeedShape, NewIsEmpty
<1>1. CASE Break
  <2>1. \A w \in Watches : \E n \in 0 .. Len(transit[w]) :
           transit'[w] = SubSeq(transit[w], n + 1, Len(transit[w]))
    BY <1>1 DEF Break
  <2>2. \A w \in Watches : /\ transit'[w] \in Seq(Nat)
                           /\ Above(transit'[w], seen[w], current[about[w]])
    <3> SUFFICES ASSUME NEW w \in Watches
                 PROVE  /\ transit'[w] \in Seq(Nat)
                        /\ Above(transit'[w], seen[w], current[about[w]])
      OBVIOUS
    <3>1. PICK n \in 0 .. Len(transit[w]) :
             transit'[w] = SubSeq(transit[w], n + 1, Len(transit[w]))
      BY <2>1
    <3>2. transit[w] \in Seq(Nat) /\ seen[w] \in Nat /\ current[about[w]] \in Nat
      OBVIOUS
    <3>3. n + 1 \in 1 .. Len(transit[w]) + 1 /\ Len(transit[w]) \in 0 .. Len(transit[w])
      BY <3>2
    <3> QED
      BY <3>1, <3>2, <3>3, PieceAbove, ZenonT(30)
  <2>3. \A w \in Watches : transit[w] = <<>> => transit'[w] = <<>>
    <3> SUFFICES ASSUME NEW w \in Watches, transit[w] = <<>> PROVE transit'[w] = <<>>
      OBVIOUS
    <3>1. PICK n \in 0 .. Len(transit[w]) :
             transit'[w] = SubSeq(transit[w], n + 1, Len(transit[w]))
      BY <2>1
    <3> QED
      BY <3>1
  <2>4. line' = 0 /\ UNCHANGED <<home, current, about, stage, seen>>
    BY <1>1 DEF Break
  <2>5. transit' \in [Watches -> Seq(Nat)]
    BY <2>2, <1>1 DEF Break
  <2> QED
    BY <2>2, <2>3, <2>4, <2>5
<1>2. CASE NewLine
  BY <1>2 DEF NewLine
<1>3. ASSUME NEW s \in Subjects, PublishState(s) PROVE FeedFacts'
  <2>1. UNCHANGED <<line, home, about, stage, seen>>
    BY <1>3 DEF PublishState
  <2>2. current' = [current EXCEPT ![s] = @ + 1] /\ current' \in [Subjects -> Nat]
    BY <1>3 DEF PublishState
  <2>3. \A w \in Watches : /\ transit'[w] \in Seq(Nat)
                           /\ Above(transit'[w], seen[w], current'[about[w]])
    <3> SUFFICES ASSUME NEW w \in Watches
                 PROVE  /\ transit'[w] \in Seq(Nat)
                        /\ Above(transit'[w], seen[w], current'[about[w]])
      OBVIOUS
    <3>1. /\ transit[w] \in Seq(Nat) /\ seen[w] \in Nat /\ current[about[w]] \in Nat
          /\ seen[w] <= current[about[w]] /\ Above(transit[w], seen[w], current[about[w]])
      OBVIOUS
    <3>2. CASE stage[w] = "open" /\ about[w] = s
      <4>1. transit'[w] = Append(transit[w], current[s] + 1)
        BY <1>3, <3>2 DEF PublishState
      <4>2. current'[s] = current[s] + 1
        BY <2>2
      <4> QED
        BY <3>1, <3>2, <4>1, <4>2, AppendAbove
    <3>3. CASE ~(stage[w] = "open" /\ about[w] = s)
      <4>1. transit'[w] = transit[w]
        BY <1>3, <3>3 DEF PublishState
      <4>2. current'[about[w]] \in Nat /\ current[about[w]] <= current'[about[w]]
        BY <2>2, <3>1
      <4>3. \A i \in DOMAIN transit[w] : transit[w][i] \in Nat
        BY <3>1
      <4> QED
        BY <3>1, <4>1, <4>2, <4>3 DEF Above
    <3> QED
      BY <3>2, <3>3
  <2>4. transit' \in [Watches -> Seq(Nat)]
    BY <1>3, <2>3 DEF PublishState
  <2>5. \A w \in Watches : stage[w] = "new" => transit'[w] = <<>>
    BY <1>3 DEF PublishState
  <2>6. \A w \in Watches : seen[w] <= current'[about[w]]
    BY <2>2
  <2> QED
    BY <2>1, <2>2, <2>3, <2>4, <2>5, <2>6
<1>4. ASSUME NEW w \in Watches, Arrive(w) PROVE FeedFacts'
  <2>1. UNCHANGED <<line, home, current, about, stage>> /\ transit[w] # <<>>
    BY <1>4 DEF Arrive
  <2>2. /\ transit[w] \in Seq(Nat) /\ seen[w] \in Nat /\ current[about[w]] \in Nat
        /\ Above(transit[w], seen[w], current[about[w]])
    OBVIOUS
  <2>3. /\ transit' = [transit EXCEPT ![w] = Tail(transit[w])]
        /\ seen' = [seen EXCEPT ![w] = Head(transit[w])]
    BY <1>4 DEF Arrive
  <2>4. /\ Tail(transit[w]) \in Seq(Nat) /\ Head(transit[w]) \in Nat
        /\ Above(Tail(transit[w]), Head(transit[w]), current[about[w]])
    BY <2>1, <2>2, TailAbove
  <2>5. Head(transit[w]) <= current[about[w]]
    <3>1. 1 \in DOMAIN transit[w] /\ Head(transit[w]) = transit[w][1]
      BY <2>1, <2>2
    <3> QED
      BY <3>1, <2>2 DEF Above
  <2>6. stage[w] # "new"
    BY <2>1
  <2>7. transit' \in [Watches -> Seq(Nat)] /\ seen' \in [Watches -> Nat]
    BY <2>3, <2>4
  <2>8. \A v \in Watches : /\ Above(transit'[v], seen'[v], current[about[v]])
                           /\ seen'[v] <= current[about[v]]
    BY <2>3, <2>4, <2>5
  <2>9. \A v \in Watches : stage[v] = "new" => transit'[v] = <<>> /\ seen'[v] = 0
    BY <2>3, <2>6
  <2> QED
    BY <2>1, <2>7, <2>8, <2>9
<1>5. ASSUME NEW w \in Watches, Lose(w) PROVE FeedFacts'
  <2>1. UNCHANGED <<line, home, current, about, stage, seen>> /\ transit[w] # <<>>
    BY <1>5 DEF Lose
  <2>2. /\ transit[w] \in Seq(Nat) /\ seen[w] \in Nat /\ current[about[w]] \in Nat
        /\ Above(transit[w], seen[w], current[about[w]])
    OBVIOUS
  <2>3. transit' = [transit EXCEPT ![w] = Tail(transit[w])]
    BY <1>5 DEF Lose
  <2>4. /\ Tail(transit[w]) \in Seq(Nat)
        /\ Above(Tail(transit[w]), seen[w], current[about[w]])
    BY <2>1, <2>2, TailAbove
  <2>5. transit' \in [Watches -> Seq(Nat)]
    BY <2>3, <2>4
  <2>6. \A v \in Watches : Above(transit'[v], seen[v], current[about[v]])
    BY <2>3, <2>4
  <2>7. \A v \in Watches : stage[v] = "new" => transit'[v] = <<>>
    BY <2>3, <2>1
  <2> QED
    BY <2>1, <2>5, <2>6, <2>7
<1>6. ASSUME NEW w \in Watches, OfferEarlier(w) PROVE FeedFacts'
  <2>1. /\ UNCHANGED <<line, home, current, about, seen>> /\ stage[w] = "new" /\ home[w] # 0
        /\ stage' = [stage EXCEPT ![w] = "offered"]
    BY <1>6 DEF OfferEarlier
  <2>2. seen[w] = 0 /\ transit[w] = <<>> /\ current[about[w]] \in Nat
    BY <2>1
  <2>3. \/ transit' = transit
        \/ \E v \in 1 .. current[about[w]] : transit' = [transit EXCEPT ![w] = <<v>>]
    BY <1>6 DEF OfferEarlier
  <2>4. \A v \in 1 .. current[about[w]] : <<v>> \in Seq(Nat) /\ Above(<<v>>, 0, current[about[w]])
    BY <2>2 DEF Above
  <2>5. transit' \in [Watches -> Seq(Nat)]
    BY <2>3, <2>4
  <2>6. \A u \in Watches : Above(transit'[u], seen[u], current[about[u]])
    BY <2>2, <2>3, <2>4
  <2>7. \A u \in Watches : stage'[u] = "new" => transit'[u] = <<>> /\ stage[u] = "new"
    BY <2>1, <2>3
  <2> QED
    BY <2>1, <2>5, <2>6, <2>7
<1>7. ASSUME NEW w \in Watches, Open(w) PROVE FeedFacts'
  <2>1. /\ UNCHANGED <<line, home, current, about, seen>> /\ home[w] # 0
        /\ stage' = [stage EXCEPT ![w] = "open"]
    BY <1>7 DEF Open
  <2>2. current[about[w]] \in Nat
    OBVIOUS
  <2>3. \/ transit' = transit
        \/ /\ stage[w] = "new" /\ current[about[w]] > 0
           /\ transit' = [transit EXCEPT ![w] = <<current[about[w]]>>]
    BY <1>7 DEF Open
  <2>4. current[about[w]] > 0 => /\ <<current[about[w]]>> \in Seq(Nat)
                                 /\ Above(<<current[about[w]]>>, 0, current[about[w]])
    BY <2>2 DEF Above
  <2>5. transit' \in [Watches -> Seq(Nat)]
    BY <2>3, <2>4
  <2>6. \A u \in Watches : Above(transit'[u], seen[u], current[about[u]])
    BY <2>3, <2>4
  <2>7. \A u \in Watches : stage'[u] = "new" => transit'[u] = <<>> /\ stage[u] = "new"
    BY <2>1, <2>3
  <2> QED
    BY <2>1, <2>5, <2>6, <2>7
<1>8. ASSUME NEW w \in Watches, Close(w) PROVE FeedFacts'
  <2>1. /\ UNCHANGED <<line, home, current, about, seen>> /\ home[w] # 0
        /\ stage' = [stage EXCEPT ![w] = "closed"]
    BY <1>8 DEF Close
  <2>2. PICK n \in 0 .. Len(transit[w]) :
           transit' = [transit EXCEPT ![w] = SubSeq(transit[w], 1, n)]
    BY <1>8 DEF Close
  <2>3. /\ transit[w] \in Seq(Nat) /\ seen[w] \in Nat /\ current[about[w]] \in Nat
        /\ Above(transit[w], seen[w], current[about[w]]) /\ 1 \in 1 .. Len(transit[w]) + 1
    OBVIOUS
  <2>4. /\ SubSeq(transit[w], 1, n) \in Seq(Nat)
        /\ Above(SubSeq(transit[w], 1, n), seen[w], current[about[w]])
    BY <2>3, PieceAbove
  <2>5. transit' \in [Watches -> Seq(Nat)]
    BY <2>2, <2>4
  <2>6. \A u \in Watches : Above(transit'[u], seen[u], current[about[u]])
    BY <2>2, <2>4
  <2>7. \A u \in Watches : stage'[u] = "new" => transit'[u] = transit[u] /\ stage[u] = "new"
    BY <2>1, <2>2
  <2> QED
    BY <2>1, <2>5, <2>6, <2>7
<1>9. ASSUME NEW w \in Watches, NEW s \in Subjects, AskFor(w, s) PROVE FeedFacts'
  <2>1. /\ UNCHANGED <<line, current, stage, transit, seen>> /\ line # 0 /\ home[w] = 0
        /\ home' = [home EXCEPT ![w] = line] /\ about' = [about EXCEPT ![w] = s]
    BY <1>9 DEF AskFor
  <2>2. seen[w] = 0 /\ transit[w] = <<>>
    BY <2>1
  <2>3. \A v \in Watches : /\ Above(transit[v], seen[v], current[about'[v]])
                           /\ seen[v] <= current[about'[v]]
    BY <2>1, <2>2 DEF Above
  <2> QED
    BY <2>1, <2>3
<1>10. CASE UNCHANGED feedVars
  BY <1>10 DEF feedVars
<1> QED
  BY <1>1, <1>2, <1>3, <1>4, <1>5, <1>6, <1>7, <1>8, <1>9, <1>10 DEF FeedNext

LEMMA FeedStart == FeedInit => FeedFacts
BY DEF FeedInit, FeedFacts, FeedShape, NewIsEmpty, Above

-----------------------------------------------------------------------------
\* What is on its way to a watch is published, newer than what it has seen, and
\* in order, however connections break and watches are closed.
THEOREM FeedInOrder == FeedSpec => []FeedInv
<1>1. FeedFacts => FeedInv
  BY DEF FeedFacts, FeedInv, Above, NewerThanSeen, Ascending, SeenIsPublished
<1> QED
  BY <1>1, FeedStart, FeedStep, PTL DEF FeedSpec

\* A watch never shows an older state, nor one twice (index.ts, SioClient): what
\* arrives is newer than all it has seen.
SeenGrows == \A w \in Watches : seen'[w] # seen[w] => seen[w] < seen'[w]

THEOREM NeverGoesBack == FeedSpec => [][SeenGrows]_feedVars
<1>1. FeedFacts /\ FeedNext => SeenGrows
  <2> SUFFICES ASSUME FeedFacts, FeedNext, NEW v \in Watches, seen'[v] # seen[v]
               PROVE  seen[v] < seen'[v]
    BY DEF SeenGrows
  <2>1. PICK w \in Watches : Arrive(w)
    BY DEF FeedNext, Break, NewLine, PublishState, Lose, OfferEarlier, Open, Close, AskFor
  <2>2. v = w /\ seen'[v] = Head(transit[v]) /\ transit[v] # <<>>
    BY <2>1 DEF Arrive, FeedFacts, FeedShape
  <2>3. /\ transit[v] \in Seq(Nat) /\ seen[v] \in Nat /\ current[about[v]] \in Nat
        /\ Above(transit[v], seen[v], current[about[v]])
    BY DEF FeedFacts, FeedShape
  <2> QED
    BY <2>2, <2>3, TailAbove
<1> QED
  BY <1>1, FeedStart, FeedStep, PTL DEF FeedSpec
=============================================================================
