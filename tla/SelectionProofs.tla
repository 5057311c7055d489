-------------------------- MODULE SelectionProofs --------------------------
(* What Kept returns, for any sequence and any set.                        *)
EXTENDS Selection, SequenceTheorems, WellFoundedInduction, TLAPS

\* Induction, without an operator to instantiate: a set of naturals that is not
\* empty has a least element.
LEMMA NatMin ==
    ASSUME NEW S \in SUBSET Nat, S # {}
    PROVE  \E m \in S : \A n \in S : m <= n
<1> DEFINE R == {ss \in Nat \X Nat : ss[1] < ss[2]}
<1>1. IsWellFoundedOn(R, Nat)
  BY NatLessThanWellFounded DEF OpToRel
<1>2. \A n, m \in Nat : n < m => <<n, m>> \in R
  OBVIOUS
<1> HIDE DEF R
<1>3. PICK m \in S : \A n \in S : ~(<<n, m>> \in R)
  BY <1>1, WFMin
<1>4. \A n \in S : m <= n
  <2> SUFFICES ASSUME NEW n \in S PROVE m <= n
    OBVIOUS
  <2>1. m \in Nat /\ n \in Nat /\ ~(n < m)
    BY <1>2, <1>3
  <2> QED
    BY <2>1
<1> QED
  BY <1>4

\* A set that holds 0 and the successors of its members up to n holds 0 .. n.
LEMMA CountTo ==
    ASSUME NEW n \in Nat, NEW G, 0 \in G,
           \A k \in 1 .. n : k - 1 \in G => k \in G
    PROVE  \A k \in 0 .. n : k \in G
<1> SUFFICES ASSUME NEW k \in 0 .. n, k \notin G PROVE FALSE
  OBVIOUS
<1> DEFINE B == {j \in 0 .. n : j \notin G}
<1>1. PICK m \in B : \A j \in B : m <= j
  <2>1. B \in SUBSET Nat /\ B # {}
    OBVIOUS
  <2> HIDE DEF B
  <2> QED
    BY <2>1, NatMin
<1>2. m \in 1 .. n /\ m - 1 \in 0 .. n /\ m - 1 \notin B
  BY <1>1
<1> QED
  BY <1>1, <1>2

-----------------------------------------------------------------------------
\* What the definition of Kept says of the prefixes of s.
Step(f, s, S, n) ==
    IF n = 0 THEN <<>>
    ELSE IF s[n] \in S THEN Append(f[n - 1], s[n]) ELSE f[n - 1]

Builds(f, s, S, n) == f = [k \in 0 .. n |-> Step(f, s, S, k)]

LEMMA BuildExists ==
    ASSUME NEW s, NEW S, NEW n \in Nat
    PROVE  \E f : Builds(f, s, S, n)
<1> DEFINE G == {k \in 0 .. n : \E f : Builds(f, s, S, k)}
<1>1. 0 \in G
  <2>1. Builds([k \in 0 .. 0 |-> <<>>], s, S, 0)
    BY DEF Builds, Step
  <2> QED
    BY <2>1
<1>2. ASSUME NEW k \in 1 .. n, k - 1 \in G PROVE k \in G
  <2>1. PICK f : Builds(f, s, S, k - 1)
    BY <1>2
  <2> DEFINE g == [j \in 0 .. k |-> IF j = k THEN Step(f, s, S, k) ELSE f[j]]
  <2>2. ASSUME NEW j \in 0 .. k PROVE g[j] = Step(g, s, S, j)
    <3>1. CASE j = k
      <4>1. k - 1 \in 0 .. k /\ k - 1 # k
        OBVIOUS
      <4> QED
        BY <3>1, <4>1 DEF Step
    <3>2. CASE j # k
      <4>1. j \in 0 .. k - 1
        BY <3>2
      <4>2. f[j] = Step(f, s, S, j)
        BY <2>1, <4>1 DEF Builds
      <4>3. j # 0 => j - 1 \in 0 .. k /\ j - 1 # k
        BY <4>1
      <4> QED
        BY <3>2, <4>2, <4>3 DEF Step
    <3> QED
      BY <3>1, <3>2
  <2>3. Builds(g, s, S, k)
    BY <2>2 DEF Builds
  <2> QED
    BY <2>3
<1> HIDE DEF G
<1>3. n \in G
  BY <1>1, <1>2, CountTo
<1> QED
  BY <1>3 DEF G

\* Two sequences that agree on a prefix keep the same of it.
Agree(s, t, n) == \A j \in 1 .. n : s[j] = t[j]

LEMMA BuildAgrees ==
    ASSUME NEW s, NEW t, NEW S, NEW n \in Nat, NEW m \in Nat, NEW k \in 0 .. n,
           n <= m, NEW f, NEW g, Builds(f, s, S, n), Builds(g, t, S, m), Agree(s, t, n)
    PROVE  f[k] = g[k]
<1> DEFINE G == {j \in 0 .. n : f[j] = g[j]}
<1>1. 0 \in G
  BY DEF Builds, Step
<1>2. ASSUME NEW j \in 1 .. n, j - 1 \in G PROVE j \in G
  <2>1. j \in 0 .. n /\ j \in 0 .. m /\ j # 0
    OBVIOUS
  <2>2. f[j] = Step(f, s, S, j) /\ g[j] = Step(g, t, S, j)
    BY <2>1 DEF Builds
  <2> QED
    BY <1>2, <2>1, <2>2 DEF Step, Agree
<1> HIDE DEF G
<1>3. k \in G
  BY <1>1, <1>2, CountTo
<1> QED
  BY <1>3 DEF G

LEMMA KeptBuilds ==
    ASSUME NEW s, NEW S, Len(s) \in Nat
    PROVE  \E f : Builds(f, s, S, Len(s)) /\ Kept(s, S) = f[Len(s)]
<1> DEFINE f == CHOOSE f : Builds(f, s, S, Len(s))
<1>1. Builds(f, s, S, Len(s))
  BY BuildExists
<1>2. Kept(s, S) = f[Len(s)]
  BY DEF Kept, Builds, Step
<1> QED
  BY <1>1, <1>2

-----------------------------------------------------------------------------
LEMMA KeptEmpty == \A S : Kept(<<>>, S) = <<>>
<1> SUFFICES ASSUME NEW S PROVE Kept(<<>>, S) = <<>>
  OBVIOUS
<1>1. Len(<<>>) = 0
  OBVIOUS
<1>2. PICK f : Builds(f, <<>>, S, 0) /\ Kept(<<>>, S) = f[0]
  BY <1>1, KeptBuilds
<1> QED
  BY <1>2 DEF Builds, Step

\* An element added at the end is kept at the end, or not at all.
LEMMA KeptAppend ==
    ASSUME NEW A, NEW s \in Seq(A), NEW e \in A, NEW S
    PROVE  Kept(Append(s, e), S) = IF e \in S THEN Append(Kept(s, S), e) ELSE Kept(s, S)
<1> DEFINE t == Append(s, e)
           n == Len(s)
<1>1. /\ n \in Nat /\ t \in Seq(A) /\ Len(t) = n + 1 /\ t[n + 1] = e
      /\ \A j \in 1 .. n : s[j] = t[j]
  OBVIOUS
<1>2. PICK f : Builds(f, s, S, n) /\ Kept(s, S) = f[n]
  BY <1>1, KeptBuilds
<1> HIDE DEF t, n
<1>3. PICK g : Builds(g, t, S, n + 1) /\ Kept(t, S) = g[n + 1]
  BY <1>1, KeptBuilds
<1>4. f[n] = g[n]
  <2>1. n \in Nat /\ n + 1 \in Nat /\ n \in 0 .. n /\ n <= n + 1
    BY <1>1
  <2>2. Agree(s, t, n)
    BY <1>1 DEF Agree
  <2> QED
    BY <1>2, <1>3, <2>1, <2>2, BuildAgrees
<1>5. g[n + 1] = Step(g, t, S, n + 1)
  <2>1. n + 1 \in 0 .. n + 1
    BY <1>1
  <2> QED
    BY <1>3, <2>1 DEF Builds
<1>6. n + 1 # 0 /\ (n + 1) - 1 = n
  BY <1>1
<1> QED
  BY <1>1, <1>2, <1>3, <1>4, <1>5, <1>6 DEF Step, t

\* What is kept of a sequence over A is a sequence over what A and S share.
LEMMA KeptInSeq ==
    ASSUME NEW A, NEW s \in Seq(A), NEW S
    PROVE  Kept(s, S) \in Seq(A \cap S) /\ Len(Kept(s, S)) <= Len(s)
<1> DEFINE n == Len(s)
<1>1. n \in Nat /\ \A j \in 1 .. n : s[j] \in A
  OBVIOUS
<1>2. PICK f : Builds(f, s, S, n) /\ Kept(s, S) = f[n]
  BY KeptBuilds
<1> HIDE DEF n
<1> DEFINE G == {k \in 0 .. n : f[k] \in Seq(A \cap S) /\ Len(f[k]) <= k}
<1>3. 0 \in G
  BY <1>1, <1>2 DEF Builds, Step
<1>4. ASSUME NEW k \in 1 .. n, k - 1 \in G PROVE k \in G
  <2>1. k \in 0 .. n /\ k # 0 /\ k \in Nat
    BY <1>1
  <2>2. f[k] = Step(f, s, S, k)
    BY <1>2, <2>1 DEF Builds
  <2>3. f[k - 1] \in Seq(A \cap S) /\ Len(f[k - 1]) <= k - 1
    BY <1>4
  <2>4. CASE s[k] \in S
    <3>1. f[k] = Append(f[k - 1], s[k]) /\ s[k] \in A \cap S
      BY <1>1, <2>1, <2>2, <2>4 DEF Step
    <3>2. f[k] \in Seq(A \cap S) /\ Len(f[k]) = Len(f[k - 1]) + 1 /\ Len(f[k - 1]) \in Nat
      BY <2>3, <3>1, AppendProperties
    <3> QED
      BY <2>1, <2>3, <3>2
  <2>5. CASE s[k] \notin S
    <3>1. f[k] = f[k - 1] /\ Len(f[k - 1]) \in Nat
      BY <2>1, <2>2, <2>3, <2>5 DEF Step
    <3> QED
      BY <2>1, <2>3, <3>1
  <2> QED
    BY <2>4, <2>5
<1> HIDE DEF G
<1>5. n \in G
  <2>1. n \in Nat /\ n \in 0 .. n
    BY <1>1
  <2>2. \A k \in 0 .. n : k \in G
    BY <1>3, <1>4, <2>1, CountTo
  <2> QED
    BY <2>1, <2>2
<1> QED
  BY <1>2, <1>5 DEF G, n

\* Every element of s that is in S is kept.
LEMMA KeptHolds ==
    ASSUME NEW A, NEW s \in Seq(A), NEW S, NEW i \in 1 .. Len(s), s[i] \in S
    PROVE  \E j \in 1 .. Len(Kept(s, S)) : Kept(s, S)[j] = s[i]
<1> DEFINE n == Len(s)
<1>1. n \in Nat /\ i \in 1 .. n /\ \A j \in 1 .. n : s[j] \in A
  OBVIOUS
<1>2. PICK f : Builds(f, s, S, n) /\ Kept(s, S) = f[n]
  BY KeptBuilds
<1> HIDE DEF n
<1> DEFINE Holds(q) == \E j \in 1 .. Len(q) : q[j] = s[i]
           G == {k \in 0 .. n : f[k] \in Seq(A) /\ (i <= k => Holds(f[k]))}
<1>3. 0 \in G
  BY <1>1, <1>2 DEF Builds, Step
<1>4. ASSUME NEW k \in 1 .. n, k - 1 \in G PROVE k \in G
  <2>1. k \in 0 .. n /\ k # 0 /\ k \in Nat
    BY <1>1
  <2>2. f[k] = Step(f, s, S, k)
    BY <1>2, <2>1 DEF Builds
  <2>3. f[k - 1] \in Seq(A) /\ (i <= k - 1 => Holds(f[k - 1]))
    BY <1>4
  <2>4. CASE s[k] \in S
    <3>1. PICK q \in Seq(A), e \in A : q = f[k - 1] /\ e = s[k]
      BY <1>1, <2>3
    <3>2. f[k] = Append(q, e)
      BY <2>1, <2>2, <2>4, <3>1 DEF Step
    <3>3. /\ f[k] \in Seq(A) /\ Len(f[k]) = Len(q) + 1 /\ f[k][Len(q) + 1] = e
          /\ \A j \in 1 .. Len(q) : f[k][j] = q[j]
      BY <3>2
    <3>4. i <= k => Holds(f[k])
      <4>1. CASE i = k
        <5>1. Len(q) + 1 \in 1 .. Len(f[k])
          BY <3>1, <3>3
        <5> QED
          BY <3>1, <3>3, <4>1, <5>1
      <4>2. CASE i <= k - 1
        <5>1. PICK j \in 1 .. Len(q) : q[j] = s[i]
          BY <2>3, <3>1, <4>2
        <5>2. j \in 1 .. Len(f[k]) /\ f[k][j] = s[i]
          BY <3>1, <3>3, <5>1
        <5> QED
          BY <5>2
      <4> QED
        BY <1>1, <2>1, <4>1, <4>2
    <3> HIDE DEF Holds
    <3> QED
      BY <2>1, <3>3, <3>4
  <2>5. CASE s[k] \notin S
    <3>1. f[k] = f[k - 1] /\ i # k
      BY <2>1, <2>2, <2>5 DEF Step
    <3>2. i <= k => i <= k - 1
      BY <1>1, <2>1, <3>1
    <3> HIDE DEF Holds
    <3> QED
      BY <2>1, <2>3, <3>1, <3>2
  <2> QED
    BY <2>4, <2>5
<1> HIDE DEF G
<1>5. n \in G
  <2>1. n \in Nat /\ n \in 0 .. n
    BY <1>1
  <2>2. \A k \in 0 .. n : k \in G
    BY <1>3, <1>4, <2>1, CountTo
  <2> QED
    BY <2>1, <2>2
<1>6. i <= n
  BY <1>1
<1> QED
  BY <1>2, <1>5, <1>6 DEF G

\* What is appended to the second of two sequences is appended to both.
LEMMA AppendToConcat ==
    ASSUME NEW A, NEW x \in Seq(A), NEW y \in Seq(A), NEW e \in A,
           NEW t, NEW z, t = x \o y, z = Append(y, e)
    PROVE  x \o z = Append(t, e)
OBVIOUS

\* Taking the first element away takes it from what is kept, when it is kept.
LEMMA KeptTail ==
    ASSUME NEW A, NEW s \in Seq(A), s # <<>>, NEW S
    PROVE  Kept(s, S) = (IF Head(s) \in S THEN <<Head(s)>> ELSE <<>>) \o Kept(Tail(s), S)
<1> DEFINE t == Tail(s)
           n == Len(s)
           pre == IF Head(s) \in S THEN <<Head(s)>> ELSE <<>>
<1>1. /\ n \in Nat \ {0} /\ Head(s) = s[1] /\ s[1] \in A
      /\ t \in Seq(A) /\ Len(t) = n - 1
      /\ \A j \in 1 .. n : s[j] \in A
      /\ \A j \in 1 .. n - 1 : t[j] = s[j + 1]
  OBVIOUS
<1>2. PICK f : Builds(f, s, S, n) /\ Kept(s, S) = f[n]
  BY <1>1, KeptBuilds
<1>3. pre \in Seq(A)
  BY <1>1
<1> HIDE DEF t, n
<1>4. PICK g : Builds(g, t, S, n - 1) /\ Kept(t, S) = g[n - 1]
  <2>1. Len(t) \in Nat /\ Len(t) = n - 1
    BY <1>1
  <2> QED
    BY <2>1, KeptBuilds
<1> DEFINE G == {k \in 0 .. n - 1 : g[k] \in Seq(A) /\ f[k + 1] = pre \o g[k]}
<1>5. 0 \in G
  <2>1. g[0] = <<>> /\ f[0] = <<>> /\ 0 \in 0 .. n - 1 /\ 1 \in 0 .. n
    BY <1>1, <1>2, <1>4 DEF Builds, Step
  <2>2. f[1] = IF s[1] \in S THEN Append(f[0], s[1]) ELSE f[0]
    <3>1. f[1] = Step(f, s, S, 1)
      BY <1>2, <2>1 DEF Builds
    <3> QED
      BY <3>1 DEF Step
  <2>3. f[1] = pre
    BY <1>1, <2>1, <2>2
  <2>4. pre \o <<>> = pre /\ <<>> \in Seq(A)
    BY <1>3
  <2> HIDE DEF pre
  <2>5. 0 + 1 = 1
    OBVIOUS
  <2>6. g[0] \in Seq(A) /\ f[0 + 1] = pre \o g[0]
    BY <2>1, <2>3, <2>4, <2>5
  <2> QED
    BY <2>1, <2>6
<1>6. ASSUME NEW k \in 1 .. n - 1, k - 1 \in G PROVE k \in G
  <2>1. /\ k \in 0 .. n - 1 /\ k # 0 /\ k + 1 \in 0 .. n /\ k + 1 # 0 /\ (k + 1) - 1 = k
        /\ (k - 1) + 1 = k /\ k + 1 \in 1 .. n
    BY <1>1
  <2>2. g[k] = Step(g, t, S, k) /\ f[k + 1] = Step(f, s, S, k + 1)
    BY <1>2, <1>4, <2>1 DEF Builds
  <2>3. t[k] = s[k + 1] /\ t[k] \in A
    BY <1>1, <2>1
  <2>4. g[k - 1] \in Seq(A) /\ f[k] = pre \o g[k - 1]
    BY <1>6, <2>1
  <2>5. CASE t[k] \in S
    <3>1. g[k] = Append(g[k - 1], t[k]) /\ f[k + 1] = Append(f[k], t[k])
      BY <2>1, <2>2, <2>3, <2>5 DEF Step
    <3>2. Append(pre \o g[k - 1], t[k]) = pre \o Append(g[k - 1], t[k])
      <4> HIDE DEF pre
      <4>1. PICK y \in Seq(A), e \in A : y = g[k - 1] /\ e = t[k]
        BY <2>3, <2>4
      <4>2. PICK x \in Seq(A) : x = pre
        BY <1>3
      <4>3. PICK u \in Seq(A) : u = x \o y
        <5>1. x \o y \in Seq(A)
          OBVIOUS
        <5> QED
          BY <5>1
      <4>4. PICK z \in Seq(A) : z = Append(y, e)
        <5>1. Append(y, e) \in Seq(A)
          OBVIOUS
        <5> QED
          BY <5>1
      <4>5. x \o z = Append(u, e)
        BY <4>3, <4>4, AppendToConcat
      <4> QED
        BY <4>1, <4>2, <4>3, <4>4, <4>5
    <3>3. g[k] \in Seq(A)
      BY <2>3, <2>4, <3>1
    <3> HIDE DEF pre
    <3> QED
      BY <2>1, <2>4, <3>1, <3>2, <3>3
  <2>6. CASE t[k] \notin S
    <3> HIDE DEF pre
    <3> QED
      BY <2>1, <2>2, <2>3, <2>4, <2>6 DEF Step
  <2> QED
    BY <2>5, <2>6
<1> HIDE DEF G
<1>7. n - 1 \in G
  <2>1. n - 1 \in Nat /\ n - 1 \in 0 .. n - 1
    BY <1>1
  <2>2. \A k \in 0 .. n - 1 : k \in G
    BY <1>5, <1>6, <2>1, CountTo
  <2> QED
    BY <2>1, <2>2
<1>8. (n - 1) + 1 = n
  BY <1>1
<1> QED
  BY <1>2, <1>4, <1>7, <1>8 DEF G, t

-----------------------------------------------------------------------------
(* Sequences whose elements are all different.                             *)

Elems(s) == {s[i] : i \in 1 .. Len(s)}
Distinct(s) == \A i, j \in 1 .. Len(s) : s[i] = s[j] => i = j

LEMMA AppendElems ==
    ASSUME NEW A, NEW s \in Seq(A), NEW e \in A
    PROVE  /\ Elems(Append(s, e)) = Elems(s) \cup {e}
           /\ Distinct(s) /\ e \notin Elems(s) => Distinct(Append(s, e))
<1> DEFINE n == Len(s)
           t == Append(s, e)
<1>1. /\ n \in Nat /\ t \in Seq(A) /\ Len(t) = n + 1 /\ t[n + 1] = e
      /\ \A i \in 1 .. n : t[i] = s[i]
  OBVIOUS
<1> HIDE DEF n, t
<1>2. \A i \in 1 .. n + 1 : i = n + 1 \/ i \in 1 .. n
  BY <1>1
<1>3. Elems(t) = Elems(s) \cup {e}
  <2>1. \A i \in 1 .. n : i \in 1 .. n + 1
    BY <1>1
  <2>2. n + 1 \in 1 .. n + 1
    BY <1>1
  <2> QED
    BY <1>1, <1>2, <2>1, <2>2 DEF Elems, n
<1>4. ASSUME Distinct(s), e \notin Elems(s) PROVE Distinct(t)
  <2> SUFFICES ASSUME NEW i \in 1 .. n + 1, NEW j \in 1 .. n + 1, t[i] = t[j] PROVE i = j
    BY <1>1 DEF Distinct
  <2>1. \A k \in 1 .. n : t[k] # e
    BY <1>1, <1>4 DEF Elems, n
  <2> QED
    BY <1>1, <1>2, <1>4, <2>1 DEF Distinct, n
<1> QED
  BY <1>3, <1>4 DEF t

LEMMA ConcatElems ==
    ASSUME NEW A, NEW s \in Seq(A), NEW r \in Seq(A)
    PROVE  /\ Elems(s \o r) = Elems(s) \cup Elems(r)
           /\ Distinct(s) /\ Distinct(r) /\ Elems(s) \cap Elems(r) = {} => Distinct(s \o r)
<1> DEFINE n == Len(s)
           m == Len(r)
           t == s \o r
<1>1. /\ n \in Nat /\ m \in Nat /\ t \in Seq(A) /\ Len(t) = n + m
      /\ \A i \in 1 .. n : t[i] = s[i]
      /\ \A i \in 1 .. m : t[n + i] = r[i]
  OBVIOUS
<1> HIDE DEF n, m, t
<1>2. \A i \in 1 .. n + m : i \in 1 .. n \/ (i - n \in 1 .. m /\ t[i] = r[i - n])
  <2> SUFFICES ASSUME NEW i \in 1 .. n + m, i \notin 1 .. n
               PROVE  i - n \in 1 .. m /\ t[i] = r[i - n]
    OBVIOUS
  <2>1. i - n \in 1 .. m /\ n + (i - n) = i
    BY <1>1
  <2> QED
    BY <1>1, <2>1
<1>3. Elems(t) = Elems(s) \cup Elems(r)
  <2>1. \A i \in 1 .. n : i \in 1 .. n + m
    BY <1>1
  <2>2. \A i \in 1 .. m : n + i \in 1 .. n + m
    BY <1>1
  <2>3. ASSUME NEW e \in Elems(t) PROVE e \in Elems(s) \/ e \in Elems(r)
    BY <1>1, <1>2, <2>3, ZenonT(30) DEF Elems, n, m
  <2>4. ASSUME NEW e \in Elems(s) PROVE e \in Elems(t)
    BY <1>1, <2>1, <2>4 DEF Elems, n
  <2>5. ASSUME NEW i \in 1 .. m PROVE r[i] \in Elems(t)
    <3>1. n + i \in 1 .. Len(t) /\ t[n + i] = r[i]
      BY <1>1, <2>2
    <3> QED
      BY <3>1 DEF Elems
  <2> QED
    BY <2>3, <2>4, <2>5 DEF Elems, m
<1>4. ASSUME Distinct(s), Distinct(r), Elems(s) \cap Elems(r) = {} PROVE Distinct(t)
  <2> SUFFICES ASSUME NEW i \in 1 .. n + m, NEW j \in 1 .. n + m, t[i] = t[j] PROVE i = j
    BY <1>1 DEF Distinct
  <2>1. CASE i \in 1 .. n /\ j \in 1 .. n
    BY <1>1, <1>4, <2>1 DEF Distinct, n
  <2>2. CASE i \notin 1 .. n /\ j \notin 1 .. n
    <3>1. i - n \in 1 .. m /\ j - n \in 1 .. m /\ r[i - n] = r[j - n]
      BY <1>2, <2>2
    <3>2. i - n = j - n
      BY <1>4, <3>1 DEF Distinct, m
    <3> QED
      BY <1>1, <3>2
  <2>3. ASSUME NEW x \in 1 .. n, NEW y \in 1 .. m, s[x] = r[y] PROVE FALSE
    BY <1>4, <2>3 DEF Elems, n, m
  <2> QED
    BY <1>1, <1>2, <2>1, <2>2, <2>3
<1> QED
  BY <1>3, <1>4 DEF t

\* What is kept of s is what of s is in S.
LEMMA KeptElems ==
    ASSUME NEW A, NEW s \in Seq(A), NEW S
    PROVE  Elems(Kept(s, S)) = Elems(s) \cap S
<1>1. s \in Seq(Elems(s)) /\ Len(s) \in Nat
  BY DEF Elems
<1>2. Kept(s, S) \in Seq(Elems(s) \cap S)
  BY <1>1, KeptInSeq
<1>3. Elems(Kept(s, S)) \subseteq Elems(s) \cap S
  <2> DEFINE B == Elems(s) \cap S
             k == Kept(s, S)
  <2>1. k \in Seq(B)
    BY <1>2
  <2> HIDE DEF B, k
  <2>2. \A i \in 1 .. Len(k) : k[i] \in B
    BY <2>1
  <2> QED
    BY <2>2 DEF Elems, B, k
<1>4. ASSUME NEW i \in 1 .. Len(s), s[i] \in S PROVE s[i] \in Elems(Kept(s, S))
  <2>1. \E j \in 1 .. Len(Kept(s, S)) : Kept(s, S)[j] = s[i]
    BY <1>4, KeptHolds
  <2> QED
    BY <2>1 DEF Elems
<1> QED
  BY <1>3, <1>4 DEF Elems

\* Elements that are different are different among those kept.
LEMMA KeptDistinct ==
    ASSUME NEW A, NEW s \in Seq(A), NEW S, Distinct(s)
    PROVE  Distinct(Kept(s, S))
<1> DEFINE n == Len(s)
<1>1. n \in Nat /\ \A j \in 1 .. n : s[j] \in A
  OBVIOUS
<1>2. PICK f : Builds(f, s, S, n) /\ Kept(s, S) = f[n]
  BY KeptBuilds
<1>a. \A i, j \in 1 .. n : s[i] = s[j] => i = j
  BY DEF Distinct
<1> HIDE DEF n
<1> DEFINE Upto(k) == {s[j] : j \in 1 .. k}
           G == {k \in 0 .. n : f[k] \in Seq(A) /\ Elems(f[k]) \subseteq Upto(k)
                                /\ Distinct(f[k])}
<1>3. 0 \in G
  <2>1. f[0] = <<>> /\ 0 \in 0 .. n
    BY <1>1, <1>2 DEF Builds, Step
  <2>2. f[0] \in Seq(A) /\ Elems(f[0]) = {} /\ Distinct(f[0])
    BY <2>1 DEF Elems, Distinct
  <2> QED
    BY <2>1, <2>2
<1>4. ASSUME NEW k \in 1 .. n, k - 1 \in G PROVE k \in G
  <2>1. k \in 0 .. n /\ k # 0 /\ k \in Nat
    BY <1>1
  <2>2. f[k] = Step(f, s, S, k)
    BY <1>2, <2>1 DEF Builds
  <2>3. f[k - 1] \in Seq(A) /\ Elems(f[k - 1]) \subseteq Upto(k - 1) /\ Distinct(f[k - 1])
    BY <1>4
  <2>4. Upto(k) = Upto(k - 1) \cup {s[k]} /\ s[k] \notin Upto(k - 1)
    <3>1. 1 .. k = (1 .. k - 1) \cup {k} /\ k \notin 1 .. k - 1 /\ 1 .. k \subseteq 1 .. n
      BY <1>1, <2>1
    <3> QED
      BY <1>a, <3>1
  <2>5. CASE s[k] \in S
    <3>1. f[k] = Append(f[k - 1], s[k]) /\ s[k] \in A
      BY <1>1, <2>1, <2>2, <2>5 DEF Step
    <3> HIDE DEF Upto
    <3>2. PICK g \in Seq(A), e \in A : g = f[k - 1] /\ e = s[k]
      BY <2>3, <3>1
    <3>3. Distinct(g) /\ e \notin Elems(g) /\ f[k] = Append(g, e)
      BY <2>3, <2>4, <3>1, <3>2
    <3>4. f[k] \in Seq(A) /\ Elems(f[k]) = Elems(g) \cup {e} /\ Distinct(f[k])
      BY <3>3, AppendElems
    <3> QED
      BY <2>1, <2>3, <2>4, <3>2, <3>4
  <2>6. CASE s[k] \notin S
    <3>1. f[k] = f[k - 1]
      BY <2>1, <2>2, <2>6 DEF Step
    <3> HIDE DEF Upto
    <3> QED
      BY <2>1, <2>3, <2>4, <3>1
  <2> QED
    BY <2>5, <2>6
<1> HIDE DEF G
<1>5. n \in G
  <2>1. n \in Nat /\ n \in 0 .. n
    BY <1>1
  <2>2. \A k \in 0 .. n : k \in G
    BY <1>3, <1>4, <2>1, CountTo
  <2> QED
    BY <2>1, <2>2
<1> QED
  BY <1>2, <1>5 DEF G
=============================================================================
