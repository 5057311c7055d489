-------------------------- MODULE BackOfficeProofs --------------------------
(* Proofs about the pages of the administrator and what runs behind them:  *)
(* the reports, for any limit, page sizes and rows; the intake of the log, *)
(* for any lines, tries and faults; the page of a user, the list of users  *)
(* and the roles with their permissions, for any users, roles, permissions *)
(* and order of the answers; and the back office they are parts of, with   *)
(* the health of a device (MCBackOffice).                                  *)
EXTENDS MCBackOffice, HealthWatchdogProofs, SelectionProofs,
        FiniteSetTheorems, SequenceTheorems, TLAPS

-----------------------------------------------------------------------------
(* Reports and LogIntake.                                                  *)

Queries   == [from : Int, to : Int, open : BOOLEAN]
ShownRows == [row : Int, q : Queries, of : Nat]
Asks      == [id : Nat, of : Nat, q : Queries, base : Seq(ShownRows),
              rows : Seq(Int), served : BOOLEAN]

ReportsShape ==
    /\ oldest \in Int /\ newest \in Nat /\ switches \in Nat /\ reportSent \in Nat
    /\ fromDate \in Int /\ toDate \in Int
    /\ logs \in Seq(ShownRows) /\ lastSearch \in Queries
    /\ reportAsks \subseteq Asks
    /\ overlapped \in BOOLEAN

\* The end of a range among the rows there are.
End(q) == IF q.to < newest + 1 THEN q.to ELSE newest + 1

\* A range that did not go on after the rows there were ends at one of them.
Ended(q) == ~q.open => q.to <= newest + 1

\* Rows of the report n, each at its offset in its query from the end there was
\* when it was served; of two that are next to each other the second was not served
\* first.
InPlace(rs, n) ==
    /\ \A i \in DOMAIN rs :
          /\ rs[i].of = n
          /\ ~rs[i].q.open => rs[i].row = rs[i].q.to - i
          /\ rs[i].row + i <= End(rs[i].q)
    /\ \A i, j \in DOMAIN rs :
          j = i + 1 /\ rs[i].q = rs[j].q => rs[i].row + i <= rs[j].row + j

\* The rows of an answer follow those the request remembers.
Follows(a) ==
    \A i \in DOMAIN a.rows :
        /\ ~a.q.open => a.rows[i] = a.q.to - Len(a.base) - i
        /\ a.rows[i] + Len(a.base) + i <= End(a.q)
        /\ \A j \in DOMAIN a.rows : a.rows[i] + i = a.rows[j] + j
        /\ \A j \in DOMAIN a.base :
              a.base[j].q = a.q => a.base[j].row + j <= a.rows[i] + Len(a.base) + i

\* A request remembers rows of the report it is for, and is answered with those
\* that follow them.
AskInv(a) ==
    /\ a.of <= switches
    /\ Ended(a.q)
    /\ InPlace(a.base, a.of)
    /\ a.served => Follows(a)

AllOf(rs, q) == \A i \in DOMAIN rs : rs[i].q = q

\* Requests that do not overlap are one at a time, and of the last search.
OneAtATime ==
    ~overlapped =>
        /\ \A a, b \in OwnAsks : a = b
        /\ \A a \in OwnAsks : a.q = lastSearch /\ AllOf(a.base, lastSearch)
        /\ OwnAsks = {} => AllOf(logs, lastSearch)

ReportsInv ==
    /\ ReportsShape
    /\ Ended(lastSearch)
    /\ InPlace(logs, switches)
    /\ \A a \in reportAsks : AskInv(a)
    /\ OneAtATime

-----------------------------------------------------------------------------
LEMMA AskFields ==
    ASSUME NEW a \in Asks
    PROVE  /\ a.id \in Nat /\ a.of \in Nat /\ a.q \in Queries
           /\ a.base \in Seq(ShownRows) /\ a.rows \in Seq(Int) /\ a.served \in BOOLEAN
BY DEF Asks

LEMMA RowFields ==
    ASSUME NEW rs \in Seq(ShownRows), NEW i \in DOMAIN rs
    PROVE  /\ rs[i].row \in Int /\ rs[i].q \in Queries /\ rs[i].of \in Nat /\ i \in Nat
           /\ rs[i].q.to \in Int /\ DOMAIN rs = 1 .. Len(rs) /\ Len(rs) \in Nat
<1>1. rs[i] \in ShownRows /\ DOMAIN rs = 1 .. Len(rs) /\ Len(rs) \in Nat
  OBVIOUS
<1>2. rs[i].row \in Int /\ rs[i].q \in Queries /\ rs[i].of \in Nat
  BY <1>1 DEF ShownRows
<1> QED
  BY <1>1, <1>2 DEF Queries

\* What was served stays in place when rows are added.
LEMMA EndLater ==
    ASSUME NEW q \in Queries, newest \in Nat, newest' \in Nat, newest <= newest'
    PROVE  /\ End(q) \in Int /\ End(q)' \in Int /\ End(q) <= End(q)'
           /\ Ended(q) => Ended(q)'
<1>1. q.to \in Int
  BY DEF Queries
<1> QED
  BY <1>1 DEF End, Ended

LEMMA InPlaceLater ==
    ASSUME NEW rs \in Seq(ShownRows), NEW n \in Nat, InPlace(rs, n),
           newest \in Nat, newest' \in Nat, newest <= newest'
    PROVE  InPlace(rs, n)'
<1>1. ASSUME NEW i \in DOMAIN rs PROVE rs[i].row + i <= End(rs[i].q)'
  <2>1. rs[i].row \in Int /\ rs[i].q \in Queries /\ i \in Nat
    BY RowFields
  <2>2. End(rs[i].q) \in Int /\ End(rs[i].q)' \in Int /\ End(rs[i].q) <= End(rs[i].q)'
    BY <2>1, EndLater
  <2>3. rs[i].row + i <= End(rs[i].q)
    BY DEF InPlace
  <2> QED
    BY <2>1, <2>2, <2>3
<1> QED
  BY <1>1 DEF InPlace

LEMMA AskLater ==
    ASSUME NEW a \in Asks, AskInv(a), newest \in Nat, newest' \in Nat, newest <= newest',
           switches \in Nat, switches' \in Nat, switches <= switches'
    PROVE  AskInv(a)'
<1>1. /\ a.of \in Nat /\ a.q \in Queries /\ a.base \in Seq(ShownRows) /\ a.rows \in Seq(Int)
  BY AskFields
<1>2. InPlace(a.base, a.of)'
  BY <1>1, InPlaceLater DEF AskInv
<1>3. End(a.q) \in Int /\ End(a.q)' \in Int /\ End(a.q) <= End(a.q)' /\ Ended(a.q)'
  BY <1>1, EndLater DEF AskInv
<1>4. Follows(a) => Follows(a)'
  <2>1. \A i \in DOMAIN a.rows : a.rows[i] \in Int /\ i \in Nat
    BY <1>1
  <2>2. Len(a.base) \in Nat
    BY <1>1
  <2>3. ASSUME Follows(a), NEW i \in DOMAIN a.rows
        PROVE  a.rows[i] + Len(a.base) + i <= End(a.q)'
    <3>1. a.rows[i] + Len(a.base) + i <= End(a.q)
      BY <2>3 DEF Follows
    <3> QED
      BY <3>1, <2>1, <2>2, <1>3
  <2> QED
    BY <2>3 DEF Follows
<1>5. a.of <= switches'
  BY <1>1 DEF AskInv
<1> QED
  BY <1>2, <1>3, <1>4, <1>5 DEF AskInv

\* The i-th row of an answer is the i-th after the offset (log_view.py).
LEMMA AnswerInPlace ==
    ASSUME NEW q \in Queries, NEW offset \in Nat, oldest \in Int, newest \in Nat
    PROVE  /\ RowsOf(q, offset) \in Seq(Int) /\ End(q) \in Int
           /\ \A i \in DOMAIN RowsOf(q, offset) : RowsOf(q, offset)[i] = End(q) - offset - i
<1> DEFINE first == IF q.from > oldest THEN q.from ELSE oldest
           count == End(q) - first - offset
           size  == IF count < 0 THEN 0 ELSE IF count < ReportLimit THEN count ELSE ReportLimit
<1>1. q.from \in Int /\ End(q) \in Int /\ ReportLimit \in Nat
  <2>1. q.from \in Int /\ q.to \in Int
    BY DEF Queries
  <2> QED
    BY <2>1, ReportsAssumption DEF End
<1>2. size \in Nat
  BY <1>1
<1>3. RowsOf(q, offset) = [i \in 1 .. size |-> End(q) - offset - i]
  BY DEF RowsOf, Now, End
<1> HIDE DEF size
<1> QED
  BY <1>1, <1>2, <1>3

\* The rows an answer shows: those the request remembers, and those that follow.
LEMMA ShownInPlace ==
    ASSUME NEW a \in Asks, AskInv(a), a.served, newest \in Nat
    PROVE  LET new == [i \in 1 .. Len(a.rows) |-> [row |-> a.rows[i], q |-> a.q, of |-> a.of]]
           IN /\ a.base \o new \in Seq(ShownRows) /\ InPlace(a.base \o new, a.of)
              /\ AllOf(a.base, a.q) => AllOf(a.base \o new, a.q)
<1> DEFINE new == [i \in 1 .. Len(a.rows) |-> [row |-> a.rows[i], q |-> a.q, of |-> a.of]]
           all == a.base \o new
<1>1. /\ a.of \in Nat /\ a.q \in Queries /\ a.base \in Seq(ShownRows) /\ a.rows \in Seq(Int)
  BY AskFields
<1>2. /\ new \in Seq(ShownRows) /\ Len(new) = Len(a.rows)
  <2>1. \A i \in 1 .. Len(a.rows) : [row |-> a.rows[i], q |-> a.q, of |-> a.of] \in ShownRows
    BY <1>1 DEF ShownRows
  <2> QED
    BY <2>1, <1>1
<1>3. \A i \in 1 .. Len(a.rows) :
         new[i].row = a.rows[i] /\ new[i].q = a.q /\ new[i].of = a.of
  OBVIOUS
<1> HIDE DEF new
<1>4. /\ all \in Seq(ShownRows) /\ DOMAIN all = 1 .. Len(a.base) + Len(a.rows)
      /\ Len(a.base) \in Nat /\ Len(a.rows) \in Nat /\ DOMAIN a.base = 1 .. Len(a.base)
      /\ \A i \in 1 .. Len(a.base) : all[i] = a.base[i]
      /\ \A i \in 1 .. Len(a.base) + Len(a.rows) : i > Len(a.base) =>
            i - Len(a.base) \in 1 .. Len(a.rows) /\ all[i] = new[i - Len(a.base)]
  <2> DEFINE base == a.base
             rows == a.rows
  <2>1. /\ base \in Seq(ShownRows) /\ new \in Seq(ShownRows) /\ rows \in Seq(Int)
        /\ Len(new) = Len(rows)
    BY <1>1, <1>2
  <2> HIDE DEF base, rows
  <2>2. base \o new \in Seq(ShownRows) /\ DOMAIN (base \o new) = 1 .. Len(base) + Len(rows)
    <3>1. base \o new \in Seq(ShownRows) /\ Len(base \o new) = Len(base) + Len(new)
      BY <2>1, ConcatProperties
    <3> QED
      BY <3>1, <2>1
  <2>3. Len(base) \in Nat /\ Len(rows) \in Nat /\ DOMAIN base = 1 .. Len(base)
    BY <2>1
  <2>4. \A i \in 1 .. Len(base) : (base \o new)[i] = base[i]
    BY <2>1
  <2>5. \A i \in 1 .. Len(base) + Len(rows) : i > Len(base) =>
           i - Len(base) \in 1 .. Len(rows) /\ (base \o new)[i] = new[i - Len(base)]
    <3> SUFFICES ASSUME NEW i \in 1 .. Len(base) + Len(rows), i > Len(base)
                 PROVE  /\ i - Len(base) \in 1 .. Len(rows)
                        /\ (base \o new)[i] = new[i - Len(base)]
      OBVIOUS
    <3>1. i - Len(base) \in 1 .. Len(rows)
      BY <2>3
    <3>2. (base \o new)[i] = new[i - Len(base)]
      BY <2>1, ConcatProperties
    <3> QED
      BY <3>1, <3>2
  <2> QED
    BY <2>2, <2>3, <2>4, <2>5, Zenon DEF base, rows
<1> HIDE DEF all
<1>5. /\ a.q.to \in Int /\ End(a.q) \in Int
      /\ \A i \in 1 .. Len(a.rows) : a.rows[i] \in Int
  <2>1. a.q.to \in Int
    BY <1>1 DEF Queries
  <2> QED
    BY <1>1, <2>1 DEF End
<1> DEFINE L == Len(a.base)
<1>0. L \in Nat /\ DOMAIN a.rows = 1 .. Len(a.rows)
  BY <1>1, <1>4
<1>6. ASSUME NEW i \in DOMAIN all
      PROVE  /\ all[i].of = a.of
             /\ ~all[i].q.open => all[i].row = all[i].q.to - i
             /\ all[i].row + i <= End(all[i].q)
             /\ AllOf(a.base, a.q) => all[i].q = a.q
  <2>1. CASE i \in 1 .. Len(a.base)
    BY <2>1, <1>4 DEF AskInv, InPlace, AllOf
  <2>2. CASE i > Len(a.base)
    <3>1. i - Len(a.base) \in 1 .. Len(a.rows) /\ all[i] = new[i - Len(a.base)]
      BY <2>2, <1>4
    <3>2. all[i].row = a.rows[i - L] /\ all[i].q = a.q /\ all[i].of = a.of
      BY <3>1, <1>3
    <3>3. /\ ~a.q.open => a.rows[i - L] = a.q.to - L - (i - L)
          /\ a.rows[i - L] + L + (i - L) <= End(a.q)
      BY <3>1, <1>0 DEF AskInv, Follows
    <3>4. a.rows[i - L] \in Int /\ i \in Int
      BY <3>1, <1>4, <1>5
    <3>5. L + (i - L) = i /\ a.q.to - L - (i - L) = a.q.to - i
          /\ a.rows[i - L] + L + (i - L) = a.rows[i - L] + i
      <4>1. \A x, k, l \in Int : l + (k - l) = k /\ x - l - (k - l) = x - k
                                 /\ x + l + (k - l) = x + k
        OBVIOUS
      <4>2. L \in Int /\ a.q.to \in Int
        BY <1>0, <1>5
      <4> QED
        BY <4>1, <4>2, <3>4
    <3> QED
      BY <3>2, <3>3, <3>5
  <2> QED
    BY <2>1, <2>2, <1>4
<1>7. ASSUME NEW i \in DOMAIN all, NEW j \in DOMAIN all, j = i + 1, all[i].q = all[j].q
      PROVE  all[i].row + i <= all[j].row + j
  <2>1. CASE j \in 1 .. L
    <3>1. i \in 1 .. L
      BY <2>1, <1>4, <1>7
    <3> QED
      BY <2>1, <3>1, <1>4, <1>7 DEF AskInv, InPlace
  <2>2. CASE j > L /\ i \in 1 .. L
    <3>1. j - L \in 1 .. Len(a.rows) /\ all[j] = new[j - L] /\ all[i] = a.base[i]
      BY <2>2, <1>4
    <3>2. all[j].row = a.rows[j - L] /\ a.base[i].q = a.q
      BY <3>1, <1>3, <1>7
    <3>3. a.base[i].row + i <= a.rows[j - L] + L + (j - L)
      BY <3>1, <3>2, <2>2, <1>0, <1>4 DEF AskInv, Follows
    <3>4. a.rows[j - L] + L + (j - L) = a.rows[j - L] + j
      BY <3>1, <1>0, <1>4, <1>5
    <3> QED
      BY <3>1, <3>2, <3>3, <3>4
  <2>3. CASE i > L
    <3>0. /\ i \in 1 .. Len(a.base) + Len(a.rows) /\ j \in 1 .. Len(a.base) + Len(a.rows)
          /\ j > L
      <4>1. i \in 1 .. Len(a.base) + Len(a.rows) /\ j \in 1 .. Len(a.base) + Len(a.rows)
        BY <1>4
      <4>2. i \in Int /\ L \in Int
        BY <4>1, <1>0, <1>4
      <4>3. j > L
        BY <4>2, <2>3, <1>7
      <4> QED
        BY <4>1, <4>3
    <3>1. /\ j - L \in 1 .. Len(a.rows) /\ all[j] = new[j - L]
          /\ i - L \in 1 .. Len(a.rows) /\ all[i] = new[i - L]
      BY <2>3, <3>0, <1>4
    <3>2. all[j].row = a.rows[j - L] /\ all[i].row = a.rows[i - L]
      BY <3>1, <1>3
    <3>3. a.rows[i - L] + (i - L) = a.rows[j - L] + (j - L)
      BY <3>1, <1>0 DEF AskInv, Follows
    <3>4. a.rows[i - L] \in Int /\ a.rows[j - L] \in Int /\ i \in Int /\ j \in Int
          /\ L \in Int
      BY <3>0, <3>1, <1>0, <1>5
    <3>5. \A x, y, k, m, l \in Int : x + (k - l) = y + (m - l) => x + k <= y + m
      OBVIOUS
    <3>6. a.rows[i - L] + i <= a.rows[j - L] + j
      BY <3>3, <3>4, <3>5
    <3> QED
      BY <3>2, <3>6
  <2> QED
    BY <2>1, <2>2, <2>3, <1>4, <1>7
<1> QED
  BY <1>4, <1>6, <1>7 DEF InPlace, AllOf, all, new

\* A request that is sent for the report on the screen.
LEMMA AskStep ==
    ASSUME ReportsInv, NEW q \in Queries, NEW base \in Seq(ShownRows), NEW fresh \in BOOLEAN,
           AskReport(q, base, fresh), switches' = switches, newest' = newest,
           InPlace(base, switches), Ended(q)
    PROVE  /\ reportAsks' \subseteq Asks /\ reportSent' \in Nat /\ overlapped' \in BOOLEAN
           /\ \A a \in reportAsks' : AskInv(a)'
           /\ ~overlapped' => /\ OwnAsks = {} /\ (overlapped => fresh)
                              /\ \A a \in OwnAsks' : a.q = q /\ a.base = base
                              /\ \A a, b \in OwnAsks' : a = b
                              /\ OwnAsks' # {}
<1> DEFINE new == [id |-> reportSent, of |-> switches, q |-> q, base |-> base, rows |-> <<>>,
                   served |-> FALSE]
<1>1. reportAsks' = reportAsks \cup {new} /\ reportSent' = reportSent + 1
  BY DEF AskReport
<1>2. overlapped' = ((OwnAsks # {}) \/ (overlapped /\ ~fresh))
  BY DEF AskReport
<1>3. new \in Asks
  <2>1. <<>> \in Seq(Int)
    OBVIOUS
  <2> QED
    BY <2>1 DEF Asks, ReportsInv, ReportsShape
<1>4. new.of = switches /\ new.q = q /\ new.base = base /\ new.served = FALSE
  OBVIOUS
<1> HIDE DEF new
<1>5. overlapped' \in BOOLEAN
  BY <1>2, Zenon
<1>6. switches \in Nat /\ reportSent \in Nat /\ reportAsks \subseteq Asks
  BY DEF ReportsInv, ReportsShape
<1>7. \A a \in reportAsks' : AskInv(a)'
  <2>1. AskInv(new)
    BY <1>4, <1>6 DEF AskInv
  <2>2. ASSUME NEW a \in reportAsks' PROVE AskInv(a)'
    <3>1. a \in Asks /\ AskInv(a)
      BY <2>1, <1>1, <1>3, <1>6 DEF ReportsInv
    <3>2. newest \in Nat
      BY DEF ReportsInv, ReportsShape
    <3> QED
      BY <3>1, <3>2, <1>6, AskLater
  <2> QED
    BY <2>2
<1>8. OwnAsks' = OwnAsks \cup {new}
  BY <1>1, <1>4 DEF OwnAsks
<1>9. ~overlapped' => OwnAsks = {} /\ (overlapped => fresh)
  BY <1>2, Zenon
<1>10. reportAsks' \subseteq Asks /\ reportSent' \in Nat
  BY <1>1, <1>3, <1>6
<1>11. OwnAsks = {} =>
           /\ \A a \in OwnAsks' : a.q = q /\ a.base = base
           /\ \A a, b \in OwnAsks' : a = b
           /\ OwnAsks' # {}
  BY <1>4, <1>8
<1> QED
  BY <1>5, <1>7, <1>9, <1>10, <1>11, Zenon

-----------------------------------------------------------------------------
\* The rows, requests and searches of the report on the screen.
LEMMA ReportsStep ==
    ASSUME ReportsInv, [ReportsNext]_reportVars PROVE ReportsInv'
<1> USE DEF ReportsInv
<1>1. ASSUME UNCHANGED <<switches, logs, lastSearch, reportAsks, reportSent, overlapped>>,
             oldest' \in Int, newest' \in Nat, newest <= newest',
             fromDate' \in Int, toDate' \in Int
      PROVE  ReportsInv'
  <2>1. ReportsShape'
    BY <1>1 DEF ReportsShape
  <2>2. OwnAsks' = OwnAsks
    BY <1>1 DEF OwnAsks
  <2>3. InPlace(logs, switches)' /\ Ended(lastSearch)'
    BY <1>1, InPlaceLater, EndLater DEF ReportsShape, InPlace, Ended
  <2>4. ASSUME NEW a \in reportAsks' PROVE AskInv(a)'
    BY <1>1, AskLater DEF ReportsShape
  <2> QED
    BY <2>1, <2>2, <2>3, <2>4, <1>1 DEF OneAtATime, AllOf
<1>2. CASE AddRow
  BY <1>2, <1>1 DEF AddRow, datesVars, ReportsShape
<1>3. CASE CleanLogs
  BY <1>3, <1>1 DEF CleanLogs, datesVars, ReportsShape
<1>4. CASE PickDates
  <2>1. fromDate' \in FromDates /\ toDate' \in Now .. MaxRow + 1
    BY <1>4 DEF PickDates
  <2>2. FromDates \subseteq Int /\ Now \in Int
    BY ReportsAssumption DEF Now, ReportsShape
  <2>3. fromDate' \in Int /\ toDate' \in Int
    BY <2>1, <2>2
  <2>4. /\ UNCHANGED <<switches, logs, lastSearch, reportAsks, reportSent, overlapped>>
        /\ UNCHANGED <<oldest, newest>>
    BY <1>4 DEF PickDates, serverRows
  <2> QED
    BY <2>3, <2>4, <1>1 DEF ReportsShape
<1>5. CASE SearchLogs
  <2>0. (toDate > Now) \in BOOLEAN
    OBVIOUS
  <2>1. /\ lastSearch' = RangeOf(fromDate, toDate) /\ AskReport(lastSearch', <<>>, TRUE)
        /\ UNCHANGED <<oldest, newest, switches, fromDate, toDate, logs>>
    BY <1>5 DEF SearchLogs, serverRows, datesVars
  <2>2. lastSearch' \in Queries
    BY <2>1, <2>0 DEF RangeOf, Queries, ReportsShape
  <2>3. /\ <<>> \in Seq(ShownRows) /\ InPlace(<<>>, switches) /\ TRUE \in BOOLEAN
        /\ Ended(lastSearch') /\ Ended(lastSearch)'
    <3>1. lastSearch'.to = toDate /\ lastSearch'.open = (toDate > newest + 1)
      BY <2>1 DEF RangeOf, Now
    <3>2. ~lastSearch'.open => lastSearch'.to <= newest + 1
      <4>1. CASE toDate > newest + 1
        BY <4>1, <3>1
      <4>2. CASE ~(toDate > newest + 1)
        BY <4>2, <3>1 DEF ReportsShape
      <4> QED
        BY <4>1, <4>2
    <3> QED
      BY <2>1, <3>2 DEF InPlace, Ended
  <2>4. /\ reportAsks' \subseteq Asks /\ reportSent' \in Nat /\ overlapped' \in BOOLEAN
        /\ \A a \in reportAsks' : AskInv(a)'
        /\ ~overlapped' => /\ \A a \in OwnAsks' : a.q = lastSearch' /\ a.base = <<>>
                           /\ \A a, b \in OwnAsks' : a = b
                           /\ OwnAsks' # {}
    BY <2>1, <2>2, <2>3, AskStep
  <2>5. ReportsShape'
    BY <2>1, <2>2, <2>4 DEF ReportsShape
  <2>6. OneAtATime'
    BY <2>4 DEF OneAtATime, AllOf
  <2> QED
    BY <2>1, <2>3, <2>4, <2>5, <2>6 DEF InPlace, End
<1>6. CASE ChangeTablePage
  <2>1. UNCHANGED <<oldest, newest, switches, fromDate, toDate, logs, lastSearch>>
    BY <1>6 DEF ChangeTablePage, serverRows, datesVars
  <2>2. AskReport(MoreQuery, logs, FALSE) \/ UNCHANGED <<reportAsks, reportSent, overlapped>>
    BY <1>6 DEF ChangeTablePage
  <2>3. CASE UNCHANGED <<reportAsks, reportSent, overlapped>>
    BY <2>1, <2>3, <1>1 DEF ReportsShape
  <2>4. CASE AskReport(MoreQuery, logs, FALSE)
    <3>1. AskReport(lastSearch, logs, FALSE)
      BY <2>4 DEF MoreQuery
    <3>2. lastSearch \in Queries /\ logs \in Seq(ShownRows) /\ FALSE \in BOOLEAN
      BY DEF ReportsShape
    <3>3. /\ reportAsks' \subseteq Asks /\ reportSent' \in Nat /\ overlapped' \in BOOLEAN
          /\ \A a \in reportAsks' : AskInv(a)'
          /\ ~overlapped' => /\ OwnAsks = {} /\ ~overlapped
                             /\ \A a \in OwnAsks' : a.q = lastSearch /\ a.base = logs
                             /\ \A a, b \in OwnAsks' : a = b
                             /\ OwnAsks' # {}
      BY <3>1, <3>2, <2>1, AskStep
    <3>4. ReportsShape'
      BY <2>1, <3>3 DEF ReportsShape
    <3>5. OneAtATime'
      BY <2>1, <3>3 DEF OneAtATime, AllOf
    <3> QED
      BY <2>1, <3>3, <3>4, <3>5 DEF InPlace, End, Ended
  <2> QED
    BY <2>2, <2>3, <2>4
<1>7. CASE ChangePageSize
  BY <1>7, <1>1 DEF ChangePageSize, serverRows, datesVars, ReportsShape
<1>8. CASE ServeReport
  <2>1. UNCHANGED <<oldest, newest, switches, fromDate, toDate, logs, lastSearch, reportSent,
                    overlapped>>
    BY <1>8 DEF ServeReport, serverRows, datesVars
  <2>2. PICK a \in reportAsks :
           reportAsks' = (reportAsks \ {a}) \cup
              {[a EXCEPT !.served = TRUE, !.rows = RowsOf(a.q, Len(a.base))]}
    BY <1>8 DEF ServeReport
  <2> DEFINE b == [a EXCEPT !.served = TRUE, !.rows = RowsOf(a.q, Len(a.base))]
  <2>3. a \in Asks /\ oldest \in Int /\ newest \in Nat /\ AskInv(a)
    BY DEF ReportsShape
  <2>4. a.q \in Queries /\ Len(a.base) \in Nat
    BY <2>3, AskFields
  <2>5. /\ RowsOf(a.q, Len(a.base)) \in Seq(Int) /\ End(a.q) \in Int
        /\ \A i \in DOMAIN RowsOf(a.q, Len(a.base)) :
              RowsOf(a.q, Len(a.base))[i] = End(a.q) - Len(a.base) - i
    BY <2>3, <2>4, AnswerInPlace
  <2>6. /\ b \in Asks /\ b.of = a.of /\ b.q = a.q /\ b.base = a.base
        /\ b.rows = RowsOf(a.q, Len(a.base))
    BY <2>3, <2>5 DEF Asks
  <2> HIDE DEF b
  <2>7. reportAsks' = (reportAsks \ {a}) \cup {b}
    BY <2>2 DEF b
  <2>8. AskInv(b)
    <3>1. \A i \in DOMAIN b.rows : i \in Nat /\ b.rows[i] = End(b.q) - Len(b.base) - i
      BY <2>5, <2>6
    <3>2. /\ End(b.q) \in Int /\ Len(b.base) \in Nat /\ b.q.to \in Int
          /\ Ended(b.q) /\ InPlace(b.base, b.of)
      BY <2>3, <2>4, <2>5, <2>6 DEF AskInv, Queries
    <3>3. ~b.q.open => End(b.q) = b.q.to
      BY <3>2, <2>3 DEF End, Ended
    <3>4. \A j \in DOMAIN b.base : b.base[j].q = b.q => b.base[j].row + j <= End(b.q)
      BY <3>2 DEF InPlace
    <3>5. Follows(b)
      <4> SUFFICES ASSUME NEW i \in DOMAIN b.rows
                   PROVE  /\ ~b.q.open => b.rows[i] = b.q.to - Len(b.base) - i
                          /\ b.rows[i] + Len(b.base) + i <= End(b.q)
                          /\ \A j \in DOMAIN b.rows : b.rows[i] + i = b.rows[j] + j
                          /\ \A j \in DOMAIN b.base :
                                b.base[j].q = b.q =>
                                    b.base[j].row + j <= b.rows[i] + Len(b.base) + i
        BY DEF Follows
      <4>1. b.rows[i] + Len(b.base) + i = End(b.q)
        BY <3>1, <3>2
      <4>2. \A j \in DOMAIN b.rows : b.rows[i] + i = b.rows[j] + j
        BY <3>1, <3>2
      <4> QED
        BY <4>1, <4>2, <3>1, <3>2, <3>3, <3>4
    <3> QED
      BY <3>2, <3>5, <2>3, <2>6 DEF AskInv
  <2>9. ReportsShape'
    BY <2>1, <2>6, <2>7 DEF ReportsShape
  <2>10. \A x \in reportAsks' : AskInv(x)'
    <3> SUFFICES ASSUME NEW x \in reportAsks' PROVE AskInv(x)'
      OBVIOUS
    <3>1. x \in Asks /\ AskInv(x)
      BY <2>6, <2>7, <2>8 DEF ReportsShape
    <3> QED
      BY <3>1, <2>1, <2>3, AskLater DEF ReportsShape
  <2>11. /\ \A x \in OwnAsks' : x \in OwnAsks \ {a} \/ (x = b /\ a \in OwnAsks)
         /\ OwnAsks' = {} => OwnAsks = {}
    BY <2>1, <2>6, <2>7 DEF OwnAsks
  <2>12. OneAtATime'
    <3> SUFFICES ASSUME ~overlapped PROVE OneAtATime'
      BY <2>1 DEF OneAtATime
    <3>1. /\ \A x, y \in OwnAsks : x = y
          /\ \A x \in OwnAsks : x.q = lastSearch /\ AllOf(x.base, lastSearch)
          /\ OwnAsks = {} => AllOf(logs, lastSearch)
      BY DEF OneAtATime
    <3>2. \A x, y \in OwnAsks' : x = y
      BY <3>1, <2>11
    <3>3. \A x \in OwnAsks' : x.q = lastSearch /\ AllOf(x.base, lastSearch)
      BY <3>1, <2>6, <2>11
    <3> QED
      BY <3>1, <3>2, <3>3, <2>1, <2>11 DEF OneAtATime, AllOf
  <2> QED
    BY <2>1, <2>9, <2>10, <2>12 DEF InPlace, End, Ended
<1>9. CASE ReportReturns
  <2>1. UNCHANGED <<oldest, newest, switches, fromDate, toDate, lastSearch, reportSent,
                    overlapped>>
    BY <1>9 DEF ReportReturns, serverRows, datesVars
  <2>2. PICK a \in reportAsks, failed \in BOOLEAN :
           /\ failed \/ a.served
           /\ reportAsks' = reportAsks \ {a}
           /\ logs' = IF ~Mine(a) THEN logs ELSE
                     a.base \o (IF failed THEN <<>> ELSE
                        [i \in 1 .. Len(a.rows) |->
                            [row |-> a.rows[i], q |-> a.q, of |-> a.of]])
    BY <1>9 DEF ReportReturns
  <2>3. a \in Asks /\ AskInv(a) /\ a.base \in Seq(ShownRows)
    BY AskFields DEF ReportsShape
  <2>4. \A x \in reportAsks' : AskInv(x)'
    <3> SUFFICES ASSUME NEW x \in reportAsks' PROVE AskInv(x)'
      OBVIOUS
    <3> QED
      BY <2>1, <2>2, AskLater DEF ReportsShape
  <2>5. OwnAsks' = OwnAsks \ {a} /\ (Mine(a) <=> a \in OwnAsks)
    BY <2>1, <2>2 DEF OwnAsks, Mine
  <2>6. CASE ~Mine(a)
    <3>1. logs' = logs /\ OwnAsks' = OwnAsks
      BY <2>2, <2>5, <2>6
    <3>2. ReportsShape'
      BY <2>1, <2>2, <3>1 DEF ReportsShape
    <3>3. OneAtATime'
      BY <2>1, <3>1 DEF OneAtATime, AllOf
    <3> QED
      BY <2>1, <2>4, <3>1, <3>2, <3>3 DEF InPlace, End, Ended
  <2>7. CASE Mine(a)
    <3>1. /\ logs' \in Seq(ShownRows) /\ InPlace(logs', a.of)
          /\ AllOf(a.base, a.q) => AllOf(logs', a.q)
      <4>1. CASE failed
        <5>1. logs' = a.base
          BY <4>1, <2>2, <2>3, <2>7
        <5> QED
          BY <5>1, <2>3 DEF AskInv
      <4>2. CASE ~failed
        <5>1. /\ a.served
              /\ logs' = a.base \o [i \in 1 .. Len(a.rows) |->
                                       [row |-> a.rows[i], q |-> a.q, of |-> a.of]]
          BY <4>2, <2>2, <2>7
        <5> QED
          BY <5>1, <2>3, ShownInPlace DEF ReportsShape
      <4> QED
        BY <4>1, <4>2
    <3>2. a.of = switches
      BY <2>7 DEF Mine
    <3>3. ReportsShape'
      BY <2>1, <2>2, <3>1 DEF ReportsShape
    <3>4. OneAtATime'
      <4> SUFFICES ASSUME ~overlapped PROVE OneAtATime'
        BY <2>1 DEF OneAtATime
      <4>1. /\ \A x, y \in OwnAsks : x = y
            /\ a.q = lastSearch /\ AllOf(a.base, lastSearch)
        BY <2>5, <2>7 DEF OneAtATime
      <4>2. OwnAsks' = {}
        BY <4>1, <2>5, <2>7
      <4>3. AllOf(logs', lastSearch)
        BY <3>1, <4>1
      <4> QED
        BY <4>2, <4>3, <2>1 DEF OneAtATime, AllOf
    <3>5. InPlace(logs, switches)'
      BY <3>1, <3>2, <2>1 DEF InPlace, End
    <3> QED
      BY <2>1, <2>4, <3>3, <3>4, <3>5 DEF Ended
  <2> QED
    BY <2>6, <2>7
<1>10. CASE ShowReport
  <2>1. /\ UNCHANGED <<oldest, newest, fromDate, toDate, reportAsks, reportSent>>
        /\ switches' = switches + 1 /\ logs' = <<>> /\ lastSearch' = NoSearch
        /\ overlapped' = FALSE
    BY <1>10 DEF ShowReport, ClearRows, serverRows, datesVars
  <2>2. switches' \in Nat /\ logs' \in Seq(ShownRows) /\ lastSearch' \in Queries
    BY <2>1 DEF NoSearch, Queries, ReportsShape
  <2>3. overlapped' \in BOOLEAN
    BY <2>1, Zenon
  <2>4. ReportsShape'
    BY <2>1, <2>2, <2>3 DEF ReportsShape
  <2>5. \A a \in reportAsks : a.of \in Nat /\ a.of <= switches
    <3> SUFFICES ASSUME NEW a \in reportAsks PROVE a.of \in Nat /\ a.of <= switches
      OBVIOUS
    <3>1. a \in Asks /\ AskInv(a)
      BY DEF ReportsShape
    <3> QED
      BY <3>1, AskFields DEF AskInv
  <2>6. \A a \in reportAsks' : AskInv(a)'
    <3> SUFFICES ASSUME NEW a \in reportAsks PROVE AskInv(a)'
      BY <2>1
    <3>1. a \in Asks /\ AskInv(a)
      BY DEF ReportsShape
    <3> QED
      BY <3>1, <2>1, AskLater DEF ReportsShape
  <2>7. OwnAsks' = {}
    <3>1. \A a \in reportAsks : a.of # switches + 1
      BY <2>5 DEF ReportsShape
    <3> QED
      BY <3>1, <2>1 DEF OwnAsks
  <2>8. Ended(lastSearch)'
    BY <2>1 DEF Ended, NoSearch, ReportsShape
  <2> QED
    BY <2>1, <2>4, <2>6, <2>7, <2>8 DEF InPlace, OneAtATime, AllOf
<1>11. CASE UNCHANGED reportVars
  BY <1>11, <1>1 DEF reportVars, ReportsShape
<1> QED
  BY <1>2, <1>3, <1>4, <1>5, <1>6, <1>7, <1>8, <1>9, <1>10, <1>11 DEF ReportsNext

LEMMA ReportsStart == ReportsInit => ReportsInv
<1> SUFFICES ASSUME ReportsInit PROVE ReportsInv
  OBVIOUS
<1>1. /\ oldest = FirstRow /\ newest = 0 /\ switches = 0 /\ reportSent = 0
      /\ fromDate = 1 /\ toDate = 1 /\ logs = <<>>
      /\ lastSearch = [from |-> 0, to |-> 0, open |-> FALSE]
      /\ reportAsks = {} /\ overlapped = FALSE
  BY DEF ReportsInit, Now, NoSearch
<1>2. overlapped \in BOOLEAN
  BY <1>1, Zenon
<1>3. ReportsShape
  BY <1>1, <1>2, ReportsAssumption DEF ReportsShape, Queries
<1>4. OwnAsks = {} /\ DOMAIN logs = {}
  BY <1>1 DEF OwnAsks
<1>5. InPlace(logs, switches)
  BY <1>4 DEF InPlace
<1>6. OneAtATime
  BY <1>4 DEF OneAtATime, AllOf
<1>7. \A a \in reportAsks : AskInv(a)
  BY <1>1
<1>8. Ended(lastSearch)
  BY <1>1 DEF Ended
<1> QED
  BY <1>3, <1>5, <1>6, <1>7, <1>8 DEF ReportsInv

\* A table holds the rows of its own report, of one search if no requests overlapped,
\* and each at its place, or in a range that goes on after now none left out
\* (lib/reports), whatever is added, deleted, searched and switched meanwhile.
THEOREM ReportsStaySound == ReportsSpec => []ReportsAreSound
<1>1. ReportsInv => ReportsAreSound
  <2> SUFFICES ASSUME ReportsInv PROVE ReportsAreSound
    OBVIOUS
  <2>1. DOMAIN logs = 1 .. Len(logs) /\ logs \in Seq(ShownRows) /\ Len(logs) \in Nat
    BY DEF ReportsInv, ReportsShape
  <2>2. NoneLeftOut
    <3> SUFFICES ASSUME NEW i \in 2 .. Len(logs), logs[i].q = logs[i - 1].q
                 PROVE  logs[i].row >= logs[i - 1].row - 1
      BY DEF NoneLeftOut
    <3>1. i \in DOMAIN logs /\ i - 1 \in DOMAIN logs /\ i = (i - 1) + 1 /\ i \in Nat
      BY <2>1
    <3>2. logs[i - 1].row + (i - 1) <= logs[i].row + i
      BY <3>1 DEF ReportsInv, InPlace
    <3>3. logs[i].row \in Int /\ logs[i - 1].row \in Int
      BY <2>1, <3>1, RowFields
    <3> QED
      BY <3>1, <3>2, <3>3
  <2> QED
    BY <2>1, <2>2 DEF ReportsInv, InPlace, OneAtATime, AllOf, ReportsAreSound, RowAtItsOffset,
                OneSearch, RowsOfTheReport
<1> QED
  BY <1>1, ReportsStart, ReportsStep, PTL DEF ReportsSpec
-----------------------------------------------------------------------------
Outcomes == {"waiting", "accepted", "dropped"}

IntakeShape ==
    /\ lines \in Seq(LineKinds) /\ saved \in Seq(Nat) /\ Len(saved) = Len(lines)
    /\ chunks \in Seq(Nat \X Nat)
    /\ outcome \in Seq(Outcomes) /\ Len(outcome) = Len(chunks)
    /\ posted \in 0 .. Len(chunks) /\ line \in Nat

\* A line is in one chunk at most, and chunks hold lines that are logged.
ChunksApart ==
    /\ LastOf(chunks) \in 0 .. Len(lines)
    /\ \A c \in DOMAIN chunks : chunks[c][1] \in 1 .. chunks[c][2] /\ chunks[c][2] <= LastOf(chunks)
    /\ \A c, d \in DOMAIN chunks : c < d => chunks[c][2] < chunks[d][1]

\* The lines of the post that were handled are saved, or in error.
PostInv ==
    posted # 0 =>
        /\ line >= chunks[posted][1] /\ outcome[posted] = "waiting"
        /\ \A i \in LinesOf(posted) : i < line =>
              /\ IsState(lines[i]) => saved[i] >= 1
              /\ lines[i] = "health" => i \in errorLogs
        /\ \A i \in errorLogs : i \in LinesOf(posted) /\ lines[i] = "health"

Cause(c) ==
    \/ HasKind(c, "health") \/ c \in cut
    \/ HasKind(c, "summary") /\ Ambiguous

\* Without a cause a chunk is handled once.
SavedOnce ==
    /\ \A i \in 1 .. Len(lines) : i > LastOf(chunks) => saved[i] = 0
    /\ \A c \in DOMAIN chunks : ~Cause(c) => \A i \in LinesOf(c) :
          /\ saved[i] <= 1
          /\ outcome[c] = "waiting" /\ (posted = c => i >= line) => saved[i] = 0

\* The rows of robots of the name are of models that states gave, and one without
\* a model needs a summary that came first.
RobotInv ==
    /\ firstTold \in {"nothing", "state", "summary"}
    /\ firstTold = "nothing" => robotModels = {}
    /\ firstTold = "state" => robotModels # {} /\ "null" \notin robotModels
    /\ robotModels \subseteq RobotModels \cup {"null"}
    /\ \A m \in robotModels : m = "null" \/ \E i \in DOMAIN lines : lines[i] = m

IntakeInv ==
    /\ IntakeShape /\ ChunksApart /\ PostInv /\ AcceptedIsSaved /\ SavedOnce /\ RobotInv

-----------------------------------------------------------------------------
LEMMA LinesAreLogged ==
    ASSUME IntakeShape, ChunksApart, NEW c \in DOMAIN chunks, NEW i \in LinesOf(c)
    PROVE  /\ i \in Nat /\ i \in 1 .. Len(lines) /\ i <= LastOf(chunks)
           /\ chunks[c][1] <= i /\ i <= chunks[c][2]
<1>1. chunks[c] \in Nat \X Nat
  BY DEF IntakeShape
<1>2. chunks[c][1] \in Nat /\ chunks[c][2] \in Nat /\ LastOf(chunks) \in Nat /\ Len(lines) \in Nat
  BY <1>1 DEF IntakeShape, ChunksApart
<1> QED
  BY <1>2 DEF LinesOf, ChunksApart

\* Two chunks share no line.
LEMMA OneChunk ==
    ASSUME IntakeShape, ChunksApart, NEW c \in DOMAIN chunks, NEW d \in DOMAIN chunks,
           NEW i \in LinesOf(c), i \in LinesOf(d)
    PROVE  c = d
<1>1. c \in Nat /\ d \in Nat
  BY DEF IntakeShape
<1>2. /\ chunks[c][1] <= i /\ i <= chunks[c][2] /\ chunks[d][1] <= i /\ i <= chunks[d][2]
      /\ i \in Nat
  BY LinesAreLogged
<1>3. chunks[c] \in Nat \X Nat /\ chunks[d] \in Nat \X Nat
  BY DEF IntakeShape
<1>4. chunks[c][1] \in Nat /\ chunks[c][2] \in Nat /\ chunks[d][1] \in Nat /\ chunks[d][2] \in Nat
  BY <1>3
<1>5. ~(c < d) /\ ~(d < c)
  BY <1>2, <1>4 DEF ChunksApart
<1> QED
  BY <1>1, <1>5

LEMMA RobotStep ==
    ASSUME RobotInv, NEW i \in DOMAIN lines, lines' = lines,
           robotModels' = RobotsAfter(lines[i]), firstTold' = Told(lines[i])
    PROVE  RobotInv' /\ robotModels \subseteq robotModels'
<1> DEFINE k == lines[i]
<1>0. "summary" \notin RobotModels /\ "null" \notin RobotModels
  BY IntakeAssumption DEF OtherKinds
<1>1. CASE k = "summary"
  <2>1. /\ robotModels' = RobotOfSummary
        /\ firstTold' = IF firstTold # "nothing" THEN firstTold ELSE "summary"
    BY <1>0, <1>1 DEF RobotsAfter, Told
  <2> QED
    BY <2>1 DEF RobotInv, RobotOfSummary
<1>2. CASE k \in RobotModels
  <2>1. /\ robotModels' = robotModels \cup {k}
        /\ firstTold' = IF firstTold # "nothing" THEN firstTold ELSE "state"
    BY <1>0, <1>2 DEF RobotsAfter, RobotOfState, Told
  <2> QED
    BY <1>0, <1>2, <2>1 DEF RobotInv
<1>3. CASE k # "summary" /\ k \notin RobotModels
  <2>1. robotModels' = robotModels /\ firstTold' = firstTold
    BY <1>3 DEF RobotsAfter, Told
  <2> QED
    BY <2>1 DEF RobotInv
<1> QED
  BY <1>1, <1>2, <1>3

\* A step that ends a post; what it saves is of a chunk that has a cause.
LEMMA EndStep ==
    ASSUME IntakeInv, NEW p \in DOMAIN chunks, posted = p, posted' = 0,
           UNCHANGED <<lines, chunks, line, errorLogs>>,
           saved' \in Seq(Nat), Len(saved') = Len(saved),
           \A i \in 1 .. Len(lines) :
               saved'[i] = saved[i] \/ (saved'[i] > saved[i] /\ i \in LinesOf(p) /\ Cause(p)'),
           RobotInv', robotModels \subseteq robotModels', cut \subseteq cut',
           \/ outcome' = [outcome EXCEPT ![posted] = "accepted"] /\ errorLogs = {}
                 /\ line > chunks[posted][2]
           \/ outcome' = Refused(posted) /\ Cause(p)'
    PROVE  IntakeInv'
<1> USE DEF IntakeInv
<1>1. posted # 0 /\ posted \in DOMAIN chunks /\ posted \in DOMAIN outcome /\ DOMAIN outcome = DOMAIN chunks
  BY DEF IntakeShape
<1>2. /\ outcome' \in Seq(Outcomes) /\ Len(outcome') = Len(outcome)
      /\ \A c \in DOMAIN chunks : c # posted => outcome'[c] = outcome[c]
      /\ outcome'[posted] = "accepted" =>
            outcome' = [outcome EXCEPT ![posted] = "accepted"] /\ errorLogs = {}
                 /\ line > chunks[posted][2]
      /\ outcome'[posted] = "waiting" => Cause(p)'
  <2> DEFINE new(o) == [outcome EXCEPT ![posted] = o]
  <2>1. \A o \in Outcomes : /\ new(o) \in Seq(Outcomes) /\ Len(new(o)) = Len(outcome)
                            /\ \A c \in DOMAIN chunks : c # posted => new(o)[c] = outcome[c]
                            /\ new(o)[posted] = o
    BY <1>1 DEF IntakeShape
  <2>2. PICK o \in Outcomes : outcome' = new(o)
           /\ \/ o = "accepted" /\ errorLogs = {} /\ line > chunks[posted][2]
              \/ o # "accepted" /\ Cause(p)'
    BY DEF Refused, Outcomes
  <2> HIDE DEF new
  <2> QED
    BY <2>1, <2>2 DEF new
<1>3. IntakeShape'
  BY <1>2 DEF IntakeShape
<1>4. ChunksApart' /\ PostInv' /\ RobotInv'
  BY DEF ChunksApart, PostInv, LastOf
<1>5. \A c \in DOMAIN chunks : Cause(c) => Cause(c)'
  BY DEF Cause, HasKind, LinesOf, Ambiguous, IntakeShape
<1>6. \A c : LinesOf(c)' = LinesOf(c)
  BY DEF LinesOf
<1>9. \A i \in 1 .. Len(lines) : saved[i] \in Nat /\ saved'[i] \in Nat /\ saved'[i] >= saved[i]
  <2> SUFFICES ASSUME NEW i \in 1 .. Len(lines)
               PROVE  saved[i] \in Nat /\ saved'[i] \in Nat /\ saved'[i] >= saved[i]
    OBVIOUS
  <2>1. saved[i] \in Nat /\ saved'[i] \in Nat
    <3>1. saved \in Seq(Nat) /\ i \in 1 .. Len(saved)
      BY DEF IntakeShape
    <3>2. saved' \in Seq(Nat) /\ i \in 1 .. Len(saved')
      BY <3>1
    <3>3. saved[i] \in Nat
      BY <3>1
    <3>4. \A s \in Seq(Nat) : i \in 1 .. Len(s) => s[i] \in Nat
      OBVIOUS
    <3> QED
      BY <3>2, <3>3, <3>4
  <2>2. saved'[i] = saved[i] \/ saved'[i] > saved[i]
    OBVIOUS
  <2> QED
    BY <2>1, <2>2
<1>7. AcceptedIsSaved'
  <2> SUFFICES ASSUME NEW c \in DOMAIN chunks, outcome'[c] = "accepted", NEW i \in LinesOf(c)
               PROVE  (IsState(lines[i]) => saved'[i] >= 1) /\ lines[i] # "health"
    BY <1>6 DEF AcceptedIsSaved, IsState
  <2>0. i \in 1 .. Len(lines)
    BY LinesAreLogged
  <2> SUFFICES (IsState(lines[i]) => saved[i] >= 1) /\ lines[i] # "health"
    BY <2>0, <1>9
  <2>1. CASE c # posted
    BY <2>1, <1>2 DEF AcceptedIsSaved
  <2>2. CASE c = posted
    <3>1. errorLogs = {} /\ line > chunks[posted][2]
      BY <2>2, <1>2
    <3>2. i \in LinesOf(posted) /\ i \in Nat /\ i <= chunks[posted][2]
      BY <2>2, LinesAreLogged
    <3>3. chunks[posted] \in Nat \X Nat /\ line \in Nat
      BY <1>1 DEF IntakeShape
    <3>4. i < line
      BY <3>1, <3>2, <3>3
    <3> QED
      BY <1>1, <3>1, <3>2, <3>4 DEF PostInv
  <2> QED
    BY <2>1, <2>2
<1>8. SavedOnce'
  <2>1. ASSUME NEW i \in 1 .. Len(lines), i > LastOf(chunks) PROVE saved'[i] = 0
    <3>1. i \notin LinesOf(p)
      BY <2>1, LinesAreLogged DEF ChunksApart
    <3> QED
      BY <2>1, <3>1 DEF SavedOnce
  <2>2. ASSUME NEW c \in DOMAIN chunks, ~Cause(c)', NEW i \in LinesOf(c)
        PROVE  saved'[i] <= 1 /\ (outcome'[c] = "waiting" => saved'[i] = 0)
    <3>0. i \in LinesOf(p) => c = p
      BY OneChunk
    <3> SUFFICES saved[i] <= 1 /\ (outcome'[c] = "waiting" => saved[i] = 0)
      BY <3>0, <2>2, LinesAreLogged
    <3>1. saved[i] <= 1
      BY <2>2, <1>5 DEF SavedOnce
    <3>2. CASE c # posted
      <4>1. outcome'[c] = outcome[c] /\ ~Cause(c)
        BY <2>2, <1>2, <1>5, <3>2
      <4>2. outcome[c] = "waiting" /\ (posted = c => i >= line) => saved[i] = 0
        BY <2>2, <4>1 DEF SavedOnce
      <4> QED
        BY <3>1, <3>2, <4>1, <4>2
    <3>3. CASE c = posted
      BY <2>2, <1>2, <3>1, <3>3
    <3> QED
      BY <3>1, <3>2, <3>3
  <2> QED
    BY <2>1, <2>2, <1>6 DEF SavedOnce, LastOf
<1> QED
  BY <1>3, <1>4, <1>7, <1>8

LEMMA IntakeStep ==
    ASSUME IntakeInv, [IntakeNext]_intakeVars PROVE IntakeInv'
<1> USE DEF IntakeInv
<1>1. CASE LogLine
  <2>1. PICK k \in LineKinds : lines' = Append(lines, k)
    BY <1>1 DEF faultVars, LogLine
  <2>2. /\ saved' = Append(saved, 0)
        /\ UNCHANGED <<chunks, posted, line, errorLogs, outcome, robotModels, faults, cut, firstTold>>
    BY <1>1 DEF faultVars, LogLine
  <2>3. /\ lines' \in Seq(LineKinds) /\ Len(lines') = Len(lines) + 1 /\ Len(lines) \in Nat
        /\ \A i \in 1 .. Len(lines) : lines'[i] = lines[i]
    BY <2>1 DEF IntakeShape
  <2>4. /\ saved' \in Seq(Nat) /\ Len(saved') = Len(lines) + 1
        /\ saved'[Len(lines) + 1] = 0
        /\ \A i \in 1 .. Len(lines) : saved'[i] = saved[i]
    BY <2>2 DEF IntakeShape
  <2>5. IntakeShape'
    BY <2>2, <2>3, <2>4 DEF IntakeShape
  <2>6. LastOf(chunks)' = LastOf(chunks) /\ \A c : LinesOf(c)' = LinesOf(c)
    BY <2>2 DEF LastOf, LinesOf
  <2>7. ChunksApart'
    BY <2>2, <2>3, <2>6 DEF ChunksApart
  <2>8. \A c \in DOMAIN chunks : \A i \in LinesOf(c) :
           lines'[i] = lines[i] /\ saved'[i] = saved[i]
    BY <2>3, <2>4, LinesAreLogged
  <2>9. posted # 0 => posted \in DOMAIN chunks
    BY DEF IntakeShape
  <2>10. PostInv'
    <3> SUFFICES ASSUME posted # 0 PROVE PostInv'
      BY <2>2 DEF PostInv
    <3>1. \A i \in LinesOf(posted) : lines'[i] = lines[i] /\ saved'[i] = saved[i]
      BY <2>8, <2>9
    <3> QED
      BY <3>1, <2>2, <2>6 DEF PostInv, IsState
  <2>11. AcceptedIsSaved'
    <3> SUFFICES ASSUME NEW c \in DOMAIN chunks, outcome[c] = "accepted", NEW i \in LinesOf(c)
                 PROVE  (IsState(lines'[i]) => saved'[i] >= 1) /\ lines'[i] # "health"
      BY <2>2, <2>6 DEF AcceptedIsSaved, IsState
    <3>1. lines'[i] = lines[i] /\ saved'[i] = saved[i]
      BY <2>8
    <3> QED
      BY <3>1 DEF AcceptedIsSaved
  <2>12. \A c \in DOMAIN chunks : Cause(c)' <=> Cause(c)
    BY <2>2, <2>6, <2>8 DEF Cause, HasKind, Ambiguous
  <2>13. SavedOnce'
    <3>1. \A i \in 1 .. Len(lines') : i > LastOf(chunks) => saved'[i] = 0
      BY <2>3, <2>4 DEF SavedOnce
    <3>2. ASSUME NEW c \in DOMAIN chunks, ~Cause(c)', NEW i \in LinesOf(c)
          PROVE  /\ saved'[i] <= 1
                 /\ outcome[c] = "waiting" /\ (posted = c => i >= line) => saved'[i] = 0
      BY <3>2, <2>8, <2>12 DEF SavedOnce
    <3> QED
      BY <3>1, <3>2, <2>2, <2>6 DEF SavedOnce
  <2>14. RobotInv'
    <3>1. \A i \in DOMAIN lines : i \in DOMAIN lines' /\ lines'[i] = lines[i]
      BY <2>3 DEF IntakeShape
    <3> QED
      BY <3>1, <2>2 DEF RobotInv
  <2> QED
    BY <2>2, <2>5, <2>7, <2>10, <2>11, <2>13, <2>14
<1>2. CASE CutChunk
  <2> DEFINE new == <<LastOf(chunks) + 1, Len(lines)>>
  <2>1. /\ chunks' = Append(chunks, new) /\ outcome' = Append(outcome, "waiting")
        /\ LastOf(chunks) < Len(lines)
        /\ UNCHANGED <<lines, posted, line, errorLogs, saved, robotModels, faults, cut, firstTold>>
    BY <1>2 DEF faultVars, CutChunk
  <2>2. LastOf(chunks) \in Nat /\ Len(lines) \in Nat /\ Len(chunks) \in Nat
    BY DEF IntakeShape, ChunksApart
  <2>3. new \in Nat \X Nat /\ new[1] = LastOf(chunks) + 1 /\ new[2] = Len(lines)
    BY <2>2
  <2> HIDE DEF new
  <2>0. PICK n \in Nat : n = Len(chunks) + 1
    BY <2>2
  <2>4. /\ chunks' \in Seq(Nat \X Nat) /\ Len(chunks') = n /\ DOMAIN chunks' = 1 .. n
        /\ chunks'[n] = new /\ \A c \in DOMAIN chunks : chunks'[c] = chunks[c]
        /\ DOMAIN chunks = 1 .. Len(chunks)
    <3>1. chunks \in Seq(Nat \X Nat)
      BY DEF IntakeShape
    <3>2. DOMAIN chunks = 1 .. Len(chunks)
      BY <3>1
    <3>3. /\ chunks' \in Seq(Nat \X Nat) /\ Len(chunks') = Len(chunks) + 1
          /\ chunks'[Len(chunks) + 1] = new
          /\ \A c \in 1 .. Len(chunks) : chunks'[c] = chunks[c]
      BY <2>1, <2>3, <3>1, AppendProperties
    <3> QED
      BY <2>0, <3>2, <3>3
  <2>5. /\ outcome' \in Seq(Outcomes) /\ Len(outcome') = n
        /\ \A c \in DOMAIN chunks : outcome'[c] = outcome[c]
    <3>1. outcome \in Seq(Outcomes) /\ Len(outcome) = Len(chunks) /\ "waiting" \in Outcomes
      BY DEF IntakeShape, Outcomes
    <3>2. DOMAIN chunks = 1 .. Len(outcome)
      BY <3>1, <2>4
    <3>3. /\ outcome' \in Seq(Outcomes) /\ Len(outcome') = Len(outcome) + 1
          /\ \A c \in 1 .. Len(outcome) : outcome'[c] = outcome[c]
      BY <2>1, <3>1, AppendProperties
    <3> QED
      BY <2>0, <3>1, <3>2, <3>3
  <2>6. IntakeShape'
    BY <2>0, <2>1, <2>2, <2>4, <2>5 DEF IntakeShape
  <2>7. chunks' # <<>> /\ LastOf(chunks') = Len(lines)
    BY <2>0, <2>2, <2>3, <2>4 DEF LastOf
  <2>8. \A c \in DOMAIN chunks : LinesOf(c)' = LinesOf(c) /\ c \in Nat /\ c < n
    <3> SUFFICES ASSUME NEW c \in DOMAIN chunks
                 PROVE  LinesOf(c)' = LinesOf(c) /\ c \in Nat /\ c < n
      OBVIOUS
    <3>1. chunks'[c] = chunks[c]
      BY <2>4
    <3>2. LinesOf(c)' = LinesOf(c)
      BY <3>1 DEF LinesOf
    <3> QED
      BY <3>2, <2>0, <2>2, <2>4
  <2>9. LinesOf(n)' = LastOf(chunks) + 1 .. Len(lines)
    BY <2>3, <2>4 DEF LinesOf
  <2>10. \A c \in DOMAIN chunks' : c = n \/ c \in DOMAIN chunks
    BY <2>0, <2>2, <2>4
  <2>11. \A c \in DOMAIN chunks : chunks[c][1] \in Nat /\ chunks[c][2] \in Nat
    <3>1. \A c \in DOMAIN chunks : chunks[c] \in Nat \X Nat
      BY DEF IntakeShape
    <3> QED
      BY <3>1
  <2>12. ChunksApart'
    <3>1. LastOf(chunks)' \in 0 .. Len(lines)
      BY <2>2, <2>7
    <3>2. ASSUME NEW c \in DOMAIN chunks'
          PROVE  chunks'[c][1] \in 1 .. chunks'[c][2] /\ chunks'[c][2] <= Len(lines)
      <4>1. CASE c = n
        BY <4>1, <2>1, <2>2, <2>3, <2>4
      <4>2. CASE c \in DOMAIN chunks
        BY <4>2, <2>1, <2>2, <2>4, <2>11 DEF ChunksApart
      <4> QED
        BY <4>1, <4>2, <2>10
    <3>3. ASSUME NEW c \in DOMAIN chunks', NEW d \in DOMAIN chunks', c < d
          PROVE  chunks'[c][2] < chunks'[d][1]
      <4>1. c \in DOMAIN chunks
        BY <3>3, <2>0, <2>2, <2>4
      <4>2. CASE d = n
        <5>1. chunks[c][2] <= LastOf(chunks)
          BY <4>1 DEF ChunksApart
        <5> QED
          BY <4>1, <4>2, <5>1, <2>2, <2>3, <2>4, <2>11
      <4>3. CASE d \in DOMAIN chunks
        BY <3>3, <4>1, <4>3, <2>4 DEF ChunksApart
      <4> QED
        BY <4>2, <4>3, <2>10
    <3> QED
      BY <3>1, <3>2, <3>3, <2>1, <2>7 DEF ChunksApart
  <2>13. posted # 0 => posted \in DOMAIN chunks
    BY DEF IntakeShape
  <2>14. PostInv'
    <3> SUFFICES ASSUME posted # 0 PROVE PostInv'
      BY <2>1 DEF PostInv
    <3>1. /\ chunks'[posted] = chunks[posted] /\ outcome'[posted] = outcome[posted]
          /\ LinesOf(posted)' = LinesOf(posted)
      <4>1. PICK q \in DOMAIN chunks : q = posted
        BY <2>13
      <4>2. LinesOf(q)' = LinesOf(q) /\ chunks'[q] = chunks[q] /\ outcome'[q] = outcome[q]
        BY <2>4, <2>5, <2>8
      <4>3. LinesOf(posted)' = LinesOf(q)'
        BY <4>1, <2>1 DEF LinesOf
      <4> QED
        BY <4>1, <4>2, <4>3
    <3> QED
      BY <3>1, <2>1 DEF PostInv, IsState
  <2>15. AcceptedIsSaved'
    <3>1. outcome'[n] = "waiting"
      BY <2>0, <2>1 DEF IntakeShape
    <3> QED
      BY <3>1, <2>1, <2>4, <2>5, <2>8, <2>10 DEF AcceptedIsSaved, IsState
  <2>16. \A c \in DOMAIN chunks : Cause(c)' <=> Cause(c)
    BY <2>1, <2>8 DEF Cause, HasKind, Ambiguous
  <2>17. SavedOnce'
    <3>1. \A i \in 1 .. Len(lines') : i > LastOf(chunks)' => saved'[i] = 0
      BY <2>1, <2>2, <2>7
    <3>2. \A i \in LinesOf(n)' : saved[i] = 0
      BY <2>2, <2>9 DEF SavedOnce
    <3>3. ASSUME NEW c \in DOMAIN chunks, ~Cause(c)', NEW i \in LinesOf(c)
          PROVE  /\ saved[i] <= 1
                 /\ outcome[c] = "waiting" /\ (posted = c => i >= line) => saved[i] = 0
      BY <3>3, <2>16 DEF SavedOnce
    <3> QED
      BY <3>1, <3>2, <3>3, <2>1, <2>5, <2>8, <2>10 DEF SavedOnce
  <2> QED
    BY <2>1, <2>6, <2>12, <2>14, <2>15, <2>17 DEF RobotInv
<1>3. CASE PostChunk
  <2>1. /\ posted = 0 /\ errorLogs' = {}
        /\ UNCHANGED <<lines, chunks, outcome, saved, robotModels, faults, cut, firstTold>>
    BY <1>3 DEF faultVars, PostChunk, FreshErrors
  <2>2. PICK c \in DOMAIN chunks :
           outcome[c] = "waiting" /\ posted' = c /\ line' = chunks[c][1]
    BY <1>3 DEF faultVars, PostChunk
  <2>3. chunks[c] \in Nat \X Nat /\ c \in 1 .. Len(chunks) /\ Len(chunks) \in Nat
    BY DEF IntakeShape
  <2>4. chunks[c][1] \in Nat /\ c \in 0 .. Len(chunks)
    BY <2>3
  <2>5. IntakeShape'
    BY <2>1, <2>2, <2>4 DEF IntakeShape
  <2>6. LastOf(chunks)' = LastOf(chunks) /\ \A d : LinesOf(d)' = LinesOf(d)
    BY <2>1 DEF LastOf, LinesOf
  <2>7. ChunksApart' /\ AcceptedIsSaved' /\ RobotInv'
    BY <2>1, <2>6 DEF ChunksApart, AcceptedIsSaved, RobotInv, IsState
  <2>8. \A i \in LinesOf(c) : i >= line' /\ ~(i < line')
    BY <2>2, <2>4, LinesAreLogged
  <2>9. PostInv'
    BY <2>1, <2>2, <2>4, <2>6, <2>8 DEF PostInv
  <2>10. \A d : Cause(d)' <=> Cause(d)
    BY <2>1, <2>6 DEF Cause, HasKind, Ambiguous
  <2>11. SavedOnce'
    <3>1. \A i \in 1 .. Len(lines) : i > LastOf(chunks) => saved[i] = 0
      BY DEF SavedOnce
    <3>2. ASSUME NEW d \in DOMAIN chunks, ~Cause(d), NEW i \in LinesOf(d)
          PROVE  /\ saved[i] <= 1
                 /\ outcome[d] = "waiting" => saved[i] = 0
      <4>1. posted # d
        BY <2>1, <2>3 DEF IntakeShape
      <4> QED
        BY <3>2, <4>1 DEF SavedOnce
    <3> QED
      BY <3>1, <3>2, <2>1, <2>6, <2>10 DEF SavedOnce
  <2> QED
    BY <2>5, <2>7, <2>9, <2>11
<1>4. CASE HandleLine
  <2>1. /\ posted # 0 /\ line <= chunks[posted][2] /\ line' = line + 1
        /\ UNCHANGED <<lines, chunks, posted, outcome, faults, cut>>
    BY <1>4 DEF HandleLine, LineAfter, faultVars
  <2> DEFINE k == lines[line]
  <2>2. /\ robotModels' = RobotsAfter(k)
        /\ saved' = IF IsState(k) THEN [saved EXCEPT ![line] = @ + 1] ELSE saved
        /\ errorLogs' = IF k = "health" THEN errorLogs \cup {line} ELSE errorLogs
        /\ firstTold' = Told(k)
    BY <1>4 DEF HandleLine
  <2>3. posted \in DOMAIN chunks /\ posted \in Nat
    BY <2>1 DEF IntakeShape
  <2>4. /\ chunks[posted][1] \in Nat /\ chunks[posted][2] \in Nat /\ line \in Nat
        /\ line >= chunks[posted][1] /\ outcome[posted] = "waiting"
    <3>1. chunks[posted] \in Nat \X Nat
      BY <2>3 DEF IntakeShape
    <3> QED
      BY <3>1, <2>1 DEF PostInv, IntakeShape
  <2>5. line \in LinesOf(posted)
    BY <2>1, <2>4 DEF LinesOf
  <2>6. line \in 1 .. Len(lines) /\ line <= LastOf(chunks) /\ line \in DOMAIN saved
    BY <2>3, <2>5, LinesAreLogged DEF IntakeShape
  <2>7. k \in LineKinds
    BY <2>6 DEF IntakeShape
  <2>8. RobotInv' /\ robotModels \subseteq robotModels'
    <3>1. line \in DOMAIN lines
      BY <2>6 DEF IntakeShape
    <3> QED
      BY <3>1, <2>1, <2>2, RobotStep
  <2>9. /\ saved' \in Seq(Nat) /\ Len(saved') = Len(saved)
        /\ \A i \in 1 .. Len(lines) : i # line => saved'[i] = saved[i]
        /\ saved'[line] >= saved[line] /\ saved'[line] <= saved[line] + 1
        /\ IsState(k) => saved'[line] >= 1
    <3>1. saved[line] \in Nat
      BY <2>6 DEF IntakeShape
    <3>2. CASE IsState(k)
      BY <3>1, <3>2, <2>2, <2>6 DEF IntakeShape
    <3>3. CASE ~IsState(k)
      BY <3>1, <3>3, <2>2 DEF IntakeShape
    <3> QED
      BY <3>2, <3>3
  <2>10. IntakeShape'
    BY <2>1, <2>4, <2>9 DEF IntakeShape
  <2>11. LastOf(chunks)' = LastOf(chunks) /\ \A d : LinesOf(d)' = LinesOf(d)
    BY <2>1 DEF LastOf, LinesOf
  <2>12. ChunksApart'
    BY <2>1, <2>11 DEF ChunksApart
  <2>13. \A i \in 1 .. Len(lines) : saved[i] \in Nat /\ saved'[i] \in Nat /\ saved'[i] >= saved[i]
    BY <2>9, SMTT(20) DEF IntakeShape
  <2>14. ASSUME NEW c \in DOMAIN chunks, NEW i \in LinesOf(c), c # posted PROVE saved'[i] = saved[i]
    <3>1. i # line
      BY <2>3, <2>5, <2>14, OneChunk
    <3> QED
      BY <3>1, <2>9, LinesAreLogged
  <2>15. PostInv'
    <3>1. ASSUME NEW i \in LinesOf(posted), i < line + 1
          PROVE  /\ IsState(lines[i]) => saved'[i] >= 1
                 /\ lines[i] = "health" => i \in errorLogs'
      <4>1. i \in 1 .. Len(lines) /\ i \in Nat
        BY <2>3, LinesAreLogged
      <4>2. CASE i = line
        BY <4>2, <2>2, <2>9
      <4>3. CASE i < line
        <5>1. /\ IsState(lines[i]) => saved[i] >= 1
              /\ lines[i] = "health" => i \in errorLogs
          BY <4>3, <2>1 DEF PostInv
        <5>2. errorLogs \subseteq errorLogs'
          BY <2>2
        <5> QED
          BY <5>1, <5>2, <4>1, <2>13
      <4> QED
        BY <3>1, <4>1, <4>2, <4>3, <2>4
    <3>2. \A i \in errorLogs' : i \in LinesOf(posted) /\ lines[i] = "health"
      BY <2>1, <2>2, <2>5 DEF PostInv
    <3>3. line' >= chunks[posted][1]
      BY <2>1, <2>4
    <3> QED
      BY <3>1, <3>2, <3>3, <2>1, <2>4, <2>11 DEF PostInv, IsState
  <2>16. AcceptedIsSaved'
    <3>1. \A c \in DOMAIN chunks : outcome[c] = "accepted" => c # posted
      BY <2>4
    <3>2. ASSUME NEW c \in DOMAIN chunks, outcome[c] = "accepted", NEW i \in LinesOf(c)
          PROVE  (IsState(lines[i]) => saved'[i] >= 1) /\ lines[i] # "health"
      <4>1. saved'[i] = saved[i]
        BY <2>14, <3>1, <3>2
      <4> QED
        BY <4>1, <3>2 DEF AcceptedIsSaved
    <3> QED
      BY <3>2, <2>1, <2>11 DEF AcceptedIsSaved, IsState
  <2>17. \A c : Cause(c) => Cause(c)'
    BY <2>1, <2>8, <2>11 DEF Cause, HasKind, Ambiguous
  <2>18. SavedOnce'
    <3>1. ASSUME NEW i \in 1 .. Len(lines), i > LastOf(chunks) PROVE saved'[i] = 0
      <4>1. i # line
        BY <3>1, <2>4, <2>6 DEF ChunksApart
      <4> QED
        BY <3>1, <4>1, <2>9 DEF SavedOnce
    <3>2. ASSUME NEW c \in DOMAIN chunks, ~Cause(c), NEW i \in LinesOf(c)
          PROVE  /\ saved'[i] <= 1
                 /\ outcome[c] = "waiting" /\ (posted = c => i >= line + 1) => saved'[i] = 0
      <4>1. /\ saved[i] <= 1
            /\ outcome[c] = "waiting" /\ (posted = c => i >= line) => saved[i] = 0
        BY <3>2 DEF SavedOnce
      <4>2. i \in 1 .. Len(lines) /\ i \in Nat
        BY LinesAreLogged
      <4>3. CASE c # posted
        BY <4>1, <4>3, <2>14
      <4>4. CASE c = posted /\ i # line
        <5>1. saved'[i] = saved[i]
          BY <4>2, <4>4, <2>9
        <5>2. i >= line + 1 => i >= line
          BY <4>2, <2>4
        <5> QED
          BY <4>1, <5>1, <5>2
      <4>5. CASE c = posted /\ i = line
        <5>1. saved[i] = 0
          BY <4>1, <4>5, <2>4
        <5>2. saved'[i] <= 1
          BY <5>1, <4>5, <2>9, <2>13, <4>2
        <5>3. ~(i >= line + 1)
          BY <4>5, <2>4
        <5> QED
          BY <4>5, <5>2, <5>3
      <4> QED
        BY <4>3, <4>4, <4>5
    <3> QED
      BY <3>1, <3>2, <2>1, <2>11, <2>17 DEF SavedOnce
  <2> QED
    BY <2>8, <2>10, <2>12, <2>15, <2>16, <2>18
<1>5. CASE RaiseAtLine
  <2>1. /\ posted # 0 /\ line <= chunks[posted][2]
        /\ posted' = 0 /\ outcome' = Refused(posted)
        /\ UNCHANGED <<lines, chunks, line, errorLogs>>
    BY <1>5 DEF RaiseAtLine
  <2>2. PICK p \in DOMAIN chunks : posted = p
    BY <2>1 DEF IntakeShape
  <2>3. chunks[posted] \in Nat \X Nat /\ line \in Nat
    BY <2>2 DEF IntakeShape
  <2>4. line \in LinesOf(posted)
    <3>1. line >= chunks[posted][1]
      BY <2>1 DEF PostInv
    <3>2. chunks[posted][1] \in Nat /\ chunks[posted][2] \in Nat
      BY <2>3
    <3> QED
      BY <3>1, <3>2, <2>1, <2>3 DEF LinesOf
  <2>5. line \in 1 .. Len(lines) /\ line \in DOMAIN lines /\ saved \in Seq(Nat)
        /\ DOMAIN saved = 1 .. Len(lines) /\ DOMAIN lines = 1 .. Len(lines)
    BY <2>2, <2>4, LinesAreLogged DEF IntakeShape
  <2>6. CASE /\ lines[line] = "summary" /\ Ambiguous
             /\ UNCHANGED <<saved, robotModels, firstTold, faultVars>>
    <3>1. UNCHANGED <<saved, robotModels, firstTold, cut>>
      BY <2>6 DEF faultVars
    <3>2. Cause(p)'
      BY <2>1, <2>2, <2>4, <2>6, <3>1 DEF Cause, HasKind, LinesOf, Ambiguous
    <3>3. RobotInv'
      BY <2>1, <3>1 DEF RobotInv
    <3>4. Len(saved') = Len(saved) /\ saved' \in Seq(Nat)
      BY <2>5, <3>1
    <3> QED
      BY <2>1, <2>2, <3>1, <3>2, <3>3, <3>4, EndStep
  <2>7. CASE DatabaseRaises(lines[line])
    <3>1. /\ cut' = cut \cup {posted}
          /\ \/ UNCHANGED <<robotModels, firstTold>>
             \/ robotModels' = RobotsAfter(lines[line]) /\ firstTold' = Told(lines[line])
          /\ saved' = saved \/ saved' = [saved EXCEPT ![line] = @ + 1]
      BY <2>7 DEF DatabaseRaises, Fault
    <3>2. Cause(p)'
      BY <2>2, <3>1 DEF Cause
    <3>3. RobotInv' /\ robotModels \subseteq robotModels'
      <4>1. CASE UNCHANGED <<robotModels, firstTold>>
        BY <4>1, <2>1 DEF RobotInv
      <4>2. CASE robotModels' = RobotsAfter(lines[line]) /\ firstTold' = Told(lines[line])
        BY <4>2, <2>1, <2>5, RobotStep
      <4> QED
        BY <3>1, <4>1, <4>2
    <3>4. /\ saved' \in Seq(Nat) /\ Len(saved') = Len(saved)
          /\ \A i \in 1 .. Len(lines) :
                saved'[i] = saved[i] \/ (saved'[i] > saved[i] /\ i \in LinesOf(p))
      <4>1. CASE saved' = saved
        BY <4>1, <2>5
      <4>2. CASE saved' = [saved EXCEPT ![line] = @ + 1]
        <5>1. saved[line] \in Nat
          BY <2>5
        <5>2. saved' \in Seq(Nat) /\ Len(saved') = Len(saved)
          BY <4>2, <5>1, <2>5
        <5>3. saved'[line] = saved[line] + 1
          BY <4>2, <2>5
        <5>4. \A i \in 1 .. Len(lines) : i # line => saved'[i] = saved[i]
          BY <4>2, <2>5
        <5> QED
          BY <5>1, <5>2, <5>3, <5>4, <2>2, <2>4
      <4> QED
        BY <3>1, <4>1, <4>2
    <3> QED
      BY <2>1, <2>2, <3>1, <3>2, <3>3, <3>4, EndStep
  <2> QED
    BY <1>5, <2>6, <2>7 DEF RaiseAtLine
<1>6. CASE AnswerPost
  <2>1. /\ posted # 0 /\ line > chunks[posted][2] /\ posted' = 0
        /\ outcome' = IF errorLogs = {} THEN [outcome EXCEPT ![posted] = "accepted"]
                                        ELSE Refused(posted)
        /\ UNCHANGED <<lines, chunks, line, errorLogs, saved, robotModels, faults, cut, firstTold>>
    BY <1>6 DEF AnswerPost, Accepts, faultVars
  <2>5. PICK p \in DOMAIN chunks : posted = p
    BY <2>1 DEF IntakeShape
  <2>2. RobotInv' /\ saved' \in Seq(Nat) /\ Len(saved') = Len(saved)
    BY <2>1 DEF IntakeShape, RobotInv
  <2>3. CASE errorLogs = {}
    BY <2>1, <2>2, <2>3, <2>5, EndStep
  <2>4. CASE errorLogs # {}
    <3>1. \E i \in LinesOf(posted) : lines[i] = "health"
      BY <2>1, <2>4 DEF PostInv
    <3>2. Cause(p)'
      BY <3>1, <2>1, <2>5 DEF Cause, HasKind, LinesOf
    <3> QED
      BY <3>2, <2>1, <2>2, <2>4, <2>5, EndStep
  <2> QED
    BY <2>3, <2>4
<1>7. CASE LosePost
  <2>1. /\ posted # 0 /\ posted' = 0 /\ outcome' = Refused(posted) /\ cut' = cut \cup {posted}
        /\ UNCHANGED <<lines, chunks, line, errorLogs, saved, robotModels, firstTold>>
    BY <1>7 DEF LosePost, Fault
  <2>2. RobotInv' /\ saved' \in Seq(Nat) /\ Len(saved') = Len(saved)
    BY <2>1 DEF IntakeShape, RobotInv
  <2>3. PICK p \in DOMAIN chunks : posted = p
    BY <2>1 DEF IntakeShape
  <2>4. Cause(p)'
    BY <2>1, <2>3 DEF Cause
  <2> QED
    BY <2>1, <2>2, <2>3, <2>4, EndStep
<1>8. CASE UNCHANGED intakeVars
  <2>1. UNCHANGED <<lines, chunks, posted, line, errorLogs, outcome, saved, robotModels, faults, cut,
                    firstTold>>
    BY <1>8 DEF intakeVars, faultVars
  <2> QED
    BY <2>1 DEF IntakeShape, ChunksApart, PostInv, AcceptedIsSaved, SavedOnce, RobotInv, Cause,
                HasKind, LinesOf, LastOf, Ambiguous, IsState
<1> QED
  BY <1>1, <1>2, <1>3, <1>4, <1>5, <1>6, <1>7, <1>8 DEF IntakeNext

LEMMA IntakeStart == IntakeInit => IntakeInv
<1> SUFFICES ASSUME IntakeInit PROVE IntakeInv
  OBVIOUS
<1>1. /\ lines = <<>> /\ chunks = <<>> /\ posted = 0 /\ line = 1 /\ outcome = <<>>
      /\ saved = <<>> /\ robotModels = {} /\ cut = {} /\ firstTold = "nothing"
  BY DEF IntakeInit
<1>2. IntakeShape
  BY <1>1 DEF IntakeShape
<1>3. LastOf(chunks) = 0 /\ DOMAIN chunks = {} /\ Len(lines) = 0
  BY <1>1 DEF LastOf
<1> QED
  BY <1>1, <1>2, <1>3 DEF IntakeInv, ChunksApart, PostInv, AcceptedIsSaved, SavedOnce, RobotInv

\* What fluentd is told is accepted is in the database, and a row is there twice
\* only after one of the causes named (rest_server/routers/log.py): a health in the
\* chunk, a fault while it was posted, or a summary of a name with two rows; for any
\* models, lines, tries and faults.
THEOREM IntakeStaysSound == IntakeSpec => []IntakeIsSound
<1>1. IntakeInv => IntakeIsSound
  <2> SUFFICES ASSUME IntakeInv PROVE IntakeIsSound
    OBVIOUS
  <2>1. TwiceOnlyWithCause
    <3> SUFFICES ASSUME NEW c \in DOMAIN chunks, NEW i \in LinesOf(c), saved[i] > 1, ~Cause(c)
                 PROVE  FALSE
      BY DEF TwiceOnlyWithCause, Cause
    <3>1. i \in 1 .. Len(lines)
      BY LinesAreLogged DEF IntakeInv
    <3>2. saved[i] \in Nat /\ saved[i] <= 1
      BY <3>1 DEF IntakeInv, IntakeShape, SavedOnce
    <3> QED
      BY <3>2
  <2>2. AmbiguousOnlyWithCause
    <3> SUFFICES ASSUME NEW r \in robotModels, NEW s \in robotModels, r # s,
                        firstTold # "summary"
                 PROVE  TwoModelsLogged
      BY DEF AmbiguousOnlyWithCause, Ambiguous
    <3>1. r \in RobotModels /\ s \in RobotModels
      BY DEF IntakeInv, RobotInv
    <3>2. PICK i \in DOMAIN lines : lines[i] = r
      BY <3>1, IntakeAssumption DEF IntakeInv, RobotInv, OtherKinds
    <3>3. PICK j \in DOMAIN lines : lines[j] = s
      BY <3>1, IntakeAssumption DEF IntakeInv, RobotInv, OtherKinds
    <3> QED
      BY <3>1, <3>2, <3>3 DEF TwoModelsLogged
  <2> QED
    BY <2>1, <2>2 DEF IntakeInv, IntakeIsSound
<1> QED
  BY <1>1, IntakeStart, IntakeStep, PTL DEF IntakeSpec

-----------------------------------------------------------------------------
(* UserPage.                                                               *)

Accounts  == {Nobody} \cup [admin : BOOLEAN, roles : SUBSET Roles]
UserGets  == [n : Nat, at : {"sent", "found", "done"}, got : Accounts]
UserPosts == [n : Nat, kind : {"admin", "roles"}, admin : BOOLEAN, list : [Roles -> Nat],
              kept : BOOLEAN, clean : BOOLEAN,
              at : {"sent", "refused", "found", "done", "unknown role"}]
RoleLoads == [n : Nat, defaults : SUBSET Roles, at : {"sent", "done", "failed"},
              all : SUBSET Roles]

UserShape ==
    /\ account \in Accounts /\ user \in Accounts
    /\ known \subseteq Roles /\ others \in Nat
    /\ gets \subseteq UserGets /\ asks \in Nat /\ crossed \in BOOLEAN
    /\ posts \subseteq UserPosts /\ sends \in Nat
    /\ loads \subseteq RoleLoads /\ opens \in Nat /\ unready \in BOOLEAN
    /\ available \in [Roles -> Nat] /\ assigned \in [Roles -> Nat]
    /\ leftChecked \subseteq Roles /\ rightChecked \subseteq Roles /\ taken \subseteq Roles
    /\ openDialog \in BOOLEAN /\ loading \in BOOLEAN /\ saving \in BOOLEAN
    /\ notFound \in BOOLEAN

\* While nobody else changes the user: what the page has, or is about to get, is
\* the account, or a change that is done will be followed by a refresh.
Fresh ==
    \/ \E p \in posts : p.at = "done"
    \/ gets = {} /\ user = account
    \/ \E g \in gets : gets = {g} /\ (g.at # "done" \/ g.got = account)

SettleInv ==
    others = 0 =>
        /\ account # Nobody
        /\ \A g \in gets : g.at = "done" => g.got # Nobody
        /\ ~crossed => Fresh

\* What the lists of an open dialog have to do with the user it is about, and
\* the marks with the lists.
Listing ==
    /\ user.roles \subseteq Listed(assigned) \cup taken
    /\ \A r \in Roles : available[r] + assigned[r] <= 1
    /\ leftChecked \subseteq Listed(available) /\ rightChecked \subseteq Listed(assigned)

DialogInv ==
    /\ openDialog => user # Nobody
    /\ ~openDialog \/ loading => leftChecked = {} /\ rightChecked = {}
    /\ openDialog /\ ~unready =>
          \/ loads = {} /\ Listing
          \/ loading /\ \E l \in loads : loads = {l} /\ l.defaults = user.roles

PostsInv ==
    /\ UntouchedRolesStay
    /\ NoStuckSave
    /\ \A p \in posts : p.clean => \A r \in Roles : p.list[r] <= 1
    /\ RefusalIsTrue

UserInv == UserShape /\ SettleInv /\ DialogInv /\ PostsInv

-----------------------------------------------------------------------------
(* The records of the requests.                                            *)

LEMMA GetRecords ==
    /\ \A n \in Nat : [n |-> n, at |-> "sent", got |-> Nobody] \in UserGets
    /\ \A g \in UserGets, a \in {"sent", "found", "done"} :
          /\ [g EXCEPT !.at = a] \in UserGets
          /\ [g EXCEPT !.at = a].at = a /\ [g EXCEPT !.at = a].got = g.got
    /\ \A g \in UserGets, u \in Accounts :
          /\ [g EXCEPT !.at = "done", !.got = u] \in UserGets
          /\ [g EXCEPT !.at = "done", !.got = u].at = "done"
          /\ [g EXCEPT !.at = "done", !.got = u].got = u
    /\ \A g \in UserGets : g.got \in Accounts
BY DEF UserGets, Accounts

LEMMA PostRecords ==
    /\ \A p \in UserPosts, a \in {"sent", "refused", "found", "done", "unknown role"} :
          /\ [p EXCEPT !.at = a] \in UserPosts
          /\ [p EXCEPT !.at = a].at = a /\ [p EXCEPT !.at = a].kind = p.kind
          /\ [p EXCEPT !.at = a].list = p.list /\ [p EXCEPT !.at = a].kept = p.kept
          /\ [p EXCEPT !.at = a].clean = p.clean
    /\ \A p \in UserPosts : p.list \in [Roles -> Nat] /\ p.admin \in BOOLEAN
BY DEF UserPosts

LEMMA NewPost ==
    ASSUME NEW n \in Nat, NEW b \in BOOLEAN, NEW l \in [Roles -> Nat], NEW k \in BOOLEAN,
           NEW c \in BOOLEAN, NEW kind \in {"admin", "roles"}, NEW p,
           p = [n |-> n, kind |-> kind, admin |-> b, list |-> l, kept |-> k, clean |-> c,
                at |-> "sent"]
    PROVE  p \in UserPosts
BY DEF UserPosts

LEMMA LoadRecords ==
    /\ \A l \in RoleLoads, rs \in SUBSET Roles :
          /\ [l EXCEPT !.at = "done", !.all = rs] \in RoleLoads
          /\ [l EXCEPT !.at = "done", !.all = rs].defaults = l.defaults
    /\ \A l \in RoleLoads : /\ [l EXCEPT !.at = "failed"] \in RoleLoads
                            /\ [l EXCEPT !.at = "failed"].defaults = l.defaults
    /\ \A l \in RoleLoads : l.defaults \subseteq Roles /\ l.all \subseteq Roles
    /\ \A n \in Nat, rs \in SUBSET Roles :
          [n |-> n, defaults |-> rs, at |-> "sent", all |-> {}] \in RoleLoads
BY DEF RoleLoads

\* A list that was loaded has every role of its set once.
LEMMA OnceListed ==
    ASSUME NEW rs, rs \subseteq Roles
    PROVE  /\ Once(rs) \in [Roles -> Nat] /\ Listed(Once(rs)) = rs
           /\ \A r \in Roles : Once(rs)[r] = IF r \in rs THEN 1 ELSE 0
BY DEF Once, Listed

\* The accounts: the row of a user, or none.
LEMMA AccountFields ==
    /\ Nobody \in Accounts
    /\ \A u \in Accounts : u # Nobody => u \in [admin : BOOLEAN, roles : SUBSET Roles]
    /\ \A u \in [admin : BOOLEAN, roles : SUBSET Roles] :
          /\ u \in Accounts /\ u # Nobody /\ u.roles \subseteq Roles /\ u.admin \in BOOLEAN
BY UserAssumption DEF Accounts, Nobody

\* No step leaves the types.
LEMMA UserShapeStep == ASSUME UserShape, [UserNext]_userVars PROVE UserShape'
<1> USE DEF UserShape
<1>1. CASE GetUser
  <2>1. PICK g \in gets :
           \/ /\ gets' \subseteq gets \cup {[g EXCEPT !.at = "done"], [g EXCEPT !.at = "found"]}
              /\ account' = account
           \/ /\ account' = IF account = Nobody THEN [admin |-> FALSE, roles |-> {}] ELSE account
              /\ gets' \subseteq gets \cup {[g EXCEPT !.at = "done", !.got = account']}
    BY <1>1 DEF GetUser
  <2>2. account' \in Accounts
    BY <2>1, AccountFields
  <2>3. gets' \subseteq UserGets
    <3>1. [g EXCEPT !.at = "done"] \in UserGets /\ [g EXCEPT !.at = "found"] \in UserGets
      BY DEF UserGets
    <3>2. [g EXCEPT !.at = "done", !.got = account'] \in UserGets
      BY <2>2 DEF UserGets
    <3>3. account' = account \/ account' = IF account = Nobody THEN [admin |-> FALSE, roles |-> {}] ELSE account
      BY <2>1
    <3> QED
      BY <2>1, <3>1, <3>2
  <2> QED
    BY <1>1, <2>2, <2>3 DEF GetUser, accountVars, getVars, postVars, loadVars, moveVars, checkVars, dialogVars
<1>2. CASE ChangeUser
  <2>1. PICK p \in posts :
           /\ posts' \subseteq posts \cup {[p EXCEPT !.at = "refused"], [p EXCEPT !.at = "found"],
                 [p EXCEPT !.at = "done"], [p EXCEPT !.at = "unknown role"]}
           /\ \/ account' = account
              \/ account # Nobody /\ account' = [account EXCEPT !.admin = p.admin]
              \/ account # Nobody /\ account' = [account EXCEPT !.roles = Listed(p.list)]
    BY <1>2 DEF ChangeUser
  <2>2. posts' \subseteq UserPosts
    <3>1. /\ [p EXCEPT !.at = "refused"] \in UserPosts /\ [p EXCEPT !.at = "found"] \in UserPosts
          /\ [p EXCEPT !.at = "done"] \in UserPosts
          /\ [p EXCEPT !.at = "unknown role"] \in UserPosts
      BY DEF UserPosts
    <3> QED
      BY <2>1, <3>1
  <2>3. account' \in Accounts
    BY <2>1, AccountFields, PostRecords, ZenonT(30) DEF Listed
  <2> QED
    BY <1>2, <2>2, <2>3 DEF ChangeUser, accountVars, getVars, postVars, loadVars, moveVars, checkVars, dialogVars
<1>3. CASE OtherAdmin
  <2>1. account' \in Accounts /\ known' \subseteq Roles
    BY <1>3, AccountFields DEF OtherAdmin
  <2>2. others' \in Nat
    BY <1>3 DEF OtherAdmin
  <2> QED
    BY <1>3, <2>1, <2>2 DEF OtherAdmin, accountVars, getVars, postVars, loadVars, moveVars, checkVars, dialogVars
<1>4. CASE GetRoles
  <2>1. loads' \subseteq RoleLoads
    <3>1. \A l \in loads : /\ [l EXCEPT !.at = "done", !.all = known] \in RoleLoads
                           /\ [l EXCEPT !.at = "failed"] \in RoleLoads
      BY DEF RoleLoads
    <3> QED
      BY <1>4, <3>1 DEF GetRoles
  <2> QED
    BY <1>4, <2>1 DEF GetRoles, accountVars, getVars, postVars, loadVars, moveVars, checkVars, dialogVars
<1>5. CASE RefreshReturns
  <2>1. PICK g \in gets :
           /\ gets' = gets \ {g}
           /\ IF g.got = Nobody
              THEN /\ notFound' = TRUE /\ openDialog' = FALSE /\ saving' = FALSE
                   /\ Uncheck /\ UNCHANGED <<user, loadVars>>
              ELSE /\ user' = g.got /\ UNCHANGED <<notFound, openDialog, saving>>
                   /\ IF openDialog
                      THEN Load(g.got.roles) /\ (IF loading THEN UNCHANGED checkVars ELSE Uncheck)
                      ELSE UNCHANGED <<loadVars, checkVars>>
    BY <1>5 DEF RefreshReturns
  <2>2. CASE g.got = Nobody
    BY <1>5, <2>1, <2>2 DEF RefreshReturns, Uncheck, accountVars, getVars, postVars, loadVars, moveVars, checkVars, dialogVars
  <2>3. CASE g.got # Nobody /\ openDialog
    <3>1. g.got \in Accounts /\ g.got.roles \subseteq Roles
      BY <2>1, <2>3, GetRecords, AccountFields
    <3>2. loads' \subseteq RoleLoads /\ opens' \in Nat /\ loading' = TRUE /\ unready' \in BOOLEAN
      <4>1. [n |-> opens + 1, defaults |-> g.got.roles, at |-> "sent", all |-> {}] \in RoleLoads
        BY <3>1 DEF RoleLoads
      <4>2. Load(g.got.roles)
        BY <2>1, <2>3
      <4>3. loads' \subseteq RoleLoads
        BY <4>1, <4>2 DEF Load
      <4>4. opens' \in Nat
        BY <4>2 DEF Load
      <4>5. loading' = TRUE /\ unready' \in BOOLEAN
        BY <4>2 DEF Load
      <4> QED
        BY <4>3, <4>4, <4>5
    <3>3. leftChecked' \subseteq Roles /\ rightChecked' \subseteq Roles
      BY <2>1, <2>3 DEF Uncheck, checkVars
    <3> QED
      BY <1>5, <2>1, <2>3, <3>1, <3>2, <3>3 DEF RefreshReturns, accountVars, postVars, moveVars
  <2>4. CASE g.got # Nobody /\ ~openDialog
    <3>1. g.got \in Accounts
      BY GetRecords
    <3> QED
      BY <1>5, <2>1, <2>4, <3>1 DEF RefreshReturns, accountVars, getVars, postVars, loadVars, moveVars, checkVars, dialogVars
  <2> QED
    BY <2>2, <2>3, <2>4
<1>6. CASE MakeAdmin
  <2>1. Once({}) \in [Roles -> Nat] /\ (~user.admin) \in BOOLEAN
    BY DEF Once
  <2>2. [n |-> sends + 1, kind |-> "admin", admin |-> ~user.admin, list |-> Once({}),
         kept |-> TRUE, clean |-> TRUE, at |-> "sent"] \in UserPosts
    <3>1. PICK l \in [Roles -> Nat], n \in Nat : l = Once({}) /\ n = sends + 1
      BY <2>1
    <3>2. [n |-> n, kind |-> "admin", admin |-> ~user.admin, list |-> l,
           kept |-> TRUE, clean |-> TRUE, at |-> "sent"] \in UserPosts
      BY <2>1, NewPost
    <3> QED
      BY <3>1, <3>2
  <2>3. posts' \subseteq UserPosts
    BY <1>6, <2>2 DEF MakeAdmin, Send
  <2>4. sends' \in Nat
    BY <1>6 DEF MakeAdmin, Send
  <2> QED
    BY <1>6, <2>3, <2>4 DEF MakeAdmin, accountVars, getVars, postVars, loadVars, moveVars, checkVars, dialogVars
<1>7. CASE MakeAdminReturns
  <2>1. posts' \subseteq UserPosts
    BY <1>7 DEF MakeAdminReturns
  <2>2. /\ gets' \subseteq UserGets /\ asks' \in Nat /\ crossed' \in BOOLEAN
        /\ user' = user /\ notFound' = notFound
    <3>1. [n |-> asks + 1, at |-> "sent", got |-> Nobody] \in UserGets /\ asks + 1 \in Nat
      BY AccountFields DEF UserGets
    <3> QED
      BY <1>7, <3>1 DEF MakeAdminReturns, RefreshUser, NoRefresh, getVars
  <2> QED
    BY <1>7, <2>1, <2>2 DEF MakeAdminReturns, accountVars, dialogVars, loadVars, moveVars, checkVars
<1>8. CASE OpenDialog
  <2>1. user.roles \subseteq Roles
    BY <1>8, AccountFields DEF OpenDialog
  <2>2. loads' \subseteq RoleLoads /\ opens' \in Nat /\ loading' = TRUE /\ unready' \in BOOLEAN
    <3>1. [n |-> opens + 1, defaults |-> user.roles, at |-> "sent", all |-> {}] \in RoleLoads
      BY <2>1 DEF RoleLoads
    <3>2. loads' \subseteq RoleLoads
      BY <1>8, <3>1 DEF OpenDialog, Load
    <3>3. opens' \in Nat
      BY <1>8 DEF OpenDialog, Load
    <3>4. loading' = TRUE /\ unready' \in BOOLEAN
      BY <1>8 DEF OpenDialog, Load
    <3> QED
      BY <3>2, <3>3, <3>4
  <2> QED
    BY <1>8, <2>2 DEF OpenDialog, Uncheck, accountVars, getVars, postVars, moveVars
<1>9. CASE CloseDialog
  BY <1>9 DEF CloseDialog, Uncheck, accountVars, getVars, postVars, loadVars, moveVars, checkVars, dialogVars
<1>10. CASE LoadReturns
  <2>1. PICK l \in loads :
           /\ loads' = loads \ {l} /\ unready' = (unready \/ l.at = "failed")
           /\ \/ UNCHANGED moveVars
              \/ /\ available' = Available(l) /\ assigned' = Once(l.defaults) /\ taken' = {}
    BY <1>10 DEF LoadReturns
  <2>2. available' \in [Roles -> Nat] /\ assigned' \in [Roles -> Nat] /\ taken' \subseteq Roles
    <3>1. l.defaults \subseteq Roles /\ l.all \subseteq Roles
      BY LoadRecords
    <3>2. l.all \ l.defaults \subseteq Roles
      BY <3>1
    <3> QED
      BY <2>1, <3>1, <3>2, OnceListed DEF Available, moveVars
  <2>3. leftChecked' \subseteq Roles /\ rightChecked' \subseteq Roles
    BY <1>10 DEF LoadReturns, Uncheck, checkVars
  <2> QED
    BY <1>10, <2>1, <2>2, <2>3 DEF LoadReturns, accountVars, getVars, postVars
<1>11. CASE Check
  <2>1. leftChecked' \subseteq Roles /\ rightChecked' \subseteq Roles
    BY <1>11 DEF Check, Toggle, ToggleAll, Listed
  <2> QED
    BY <1>11, <2>1 DEF Check, aroundLists, accountVars, getVars, postVars, loadVars, moveVars, checkVars, dialogVars
<1>12. CASE MoveRight
  <2>1. Without(available, leftChecked) \in [Roles -> Nat] /\ With(assigned, leftChecked) \in [Roles -> Nat]
    BY DEF Without, With
  <2> QED
    BY <1>12, <2>1 DEF MoveRight, aroundLists, accountVars, getVars, postVars, loadVars, moveVars, checkVars, dialogVars
<1>13. CASE MoveLeft
  <2>1. Without(assigned, rightChecked) \in [Roles -> Nat] /\ With(available, rightChecked) \in [Roles -> Nat]
    BY DEF Without, With
  <2> QED
    BY <1>13, <2>1 DEF MoveLeft, aroundLists, accountVars, getVars, postVars, loadVars, moveVars, checkVars, dialogVars
<1>14. CASE Save
  <2>1. PICK k \in BOOLEAN, c \in BOOLEAN :
           posts' = posts \cup
              {[n |-> sends + 1, kind |-> "roles", admin |-> FALSE, list |-> assigned,
                at |-> "sent", clean |-> c, kept |-> k]}
    BY <1>14 DEF Save, Send
  <2>2. [n |-> sends + 1, kind |-> "roles", admin |-> FALSE, list |-> assigned,
         at |-> "sent", clean |-> c, kept |-> k] \in UserPosts
    <3>1. PICK l \in [Roles -> Nat], n \in Nat : l = assigned /\ n = sends + 1
      OBVIOUS
    <3>2. [n |-> n, kind |-> "roles", admin |-> FALSE, list |-> l, kept |-> k, clean |-> c,
           at |-> "sent"] \in UserPosts
      BY NewPost
    <3> QED
      BY <3>1, <3>2
  <2>3. posts' \subseteq UserPosts
    BY <2>1, <2>2
  <2>4. sends' \in Nat
    BY <1>14 DEF Save, Send
  <2> QED
    BY <1>14, <2>3, <2>4 DEF Save, accountVars, getVars, loadVars, moveVars, checkVars
<1>15. CASE SaveReturns
  <2>1. posts' \subseteq UserPosts
    BY <1>15 DEF SaveReturns
  <2>2. /\ gets' \subseteq UserGets /\ asks' \in Nat /\ crossed' \in BOOLEAN
        /\ user' = user /\ notFound' = notFound
    <3>1. [n |-> asks + 1, at |-> "sent", got |-> Nobody] \in UserGets /\ asks + 1 \in Nat
      BY AccountFields DEF UserGets
    <3> QED
      BY <1>15, <3>1 DEF SaveReturns, RefreshUser, NoRefresh, getVars
  <2>3. /\ openDialog' \in BOOLEAN /\ saving' \in BOOLEAN
        /\ leftChecked' \subseteq Roles /\ rightChecked' \subseteq Roles
    BY <1>15 DEF SaveReturns, StopSaving, Uncheck, checkVars
  <2> QED
    BY <1>15, <2>1, <2>2, <2>3 DEF SaveReturns, accountVars, loadVars, moveVars
<1>16. CASE UNCHANGED userVars
  BY <1>16 DEF userVars, accountVars, getVars, postVars, loadVars, moveVars, checkVars, dialogVars
<1>17. CASE RefreshFails
  BY <1>17 DEF RefreshFails, accountVars, getVars, postVars, loadVars, moveVars, checkVars, dialogVars
<1> QED
  BY <1>1, <1>2, <1>3, <1>4, <1>5, <1>6, <1>7, <1>8, <1>9, <1>10, <1>11, <1>12, <1>13, <1>14,
     <1>15, <1>16, <1>17 DEF UserNext

\* What a refresh is sent for, or what it answers, is what the page shows.
LEMMA SettleStep ==
    ASSUME UserShape, SettleInv, [UserNext]_userVars, others' = 0
    PROVE  /\ account' # Nobody
           /\ \A g \in gets' : g.at = "done" => g.got # Nobody
           /\ ~crossed' => Fresh'
<1> USE DEF UserShape
<1>0. /\ others = 0 /\ account # Nobody
      /\ \A g \in gets : g.at = "done" => g.got # Nobody
      /\ ~crossed => Fresh
  <2>1. others = 0
    <3>1. CASE OtherAdmin
      BY <3>1 DEF OtherAdmin
    <3>2. CASE GetUser \/ ChangeUser \/ GetRoles \/ RefreshReturns \/ MakeAdmin
      BY <3>2 DEF GetUser, ChangeUser, GetRoles, RefreshReturns, MakeAdmin, accountVars
    <3>3. CASE MakeAdminReturns \/ OpenDialog \/ CloseDialog \/ LoadReturns \/ Check
      BY <3>3 DEF MakeAdminReturns, OpenDialog, CloseDialog, LoadReturns, Check, aroundLists,
         accountVars
    <3>4. CASE MoveRight \/ MoveLeft \/ Save \/ SaveReturns \/ RefreshFails \/ UNCHANGED userVars
      BY <3>4 DEF MoveRight, MoveLeft, Save, SaveReturns, RefreshFails, userVars, aroundLists,
         accountVars
    <3> QED
      BY <3>1, <3>2, <3>3, <3>4 DEF UserNext
  <2> QED
    BY <2>1 DEF SettleInv
<1>1. CASE GetUser
  <2>1. PICK g \in gets, h \in UserGets :
           /\ gets' = (gets \ {g}) \cup {h}
           /\ account' = account
           /\ h.at = "found" \/ (h.at = "done" /\ h.got = account)
    <3>1. PICK g \in gets :
           \/ /\ g.at = "sent"
              /\ gets' = (gets \ {g}) \cup
                    {[g EXCEPT !.at = IF account = Nobody THEN "done" ELSE "found"]}
              /\ UNCHANGED account
           \/ /\ g.at = "found"
              /\ account' = IF account = Nobody THEN [admin |-> FALSE, roles |-> {}] ELSE account
              /\ gets' = (gets \ {g}) \cup {[g EXCEPT !.at = "done", !.got = account']}
      BY <1>1 DEF GetUser
    <3>3. account' = account
      BY <1>0, <3>1
    <3>4. PICK h, k : /\ h = [g EXCEPT !.at = "found"]
                      /\ k = [g EXCEPT !.at = "done", !.got = account]
      OBVIOUS
    <3>5. /\ h \in UserGets /\ h.at = "found"
          /\ k \in UserGets /\ k.at = "done" /\ k.got = account
      BY <3>4 DEF UserGets
    <3>6. gets' = (gets \ {g}) \cup {h} \/ gets' = (gets \ {g}) \cup {k}
      BY <1>0, <3>1, <3>3, <3>4
    <3> QED
      <4>1. CASE gets' = (gets \ {g}) \cup {h}
        BY <3>3, <3>5, <4>1
      <4>2. CASE gets' = (gets \ {g}) \cup {k}
        BY <3>3, <3>5, <4>2
      <4> QED
        BY <3>6, <4>1, <4>2
  <2>2. user' = user /\ posts' = posts /\ crossed' = crossed
    BY <1>1 DEF GetUser, postVars
  <2>3. ~crossed => Fresh'
    BY <1>0, <2>1, <2>2 DEF Fresh
  <2> QED
    BY <1>0, <2>1, <2>2, <2>3
<1>2. CASE ChangeUser
  <2>1. PICK p \in posts, q \in UserPosts :
           /\ posts' = (posts \ {p}) \cup {q} /\ p.at # "done"
           /\ account' = account \/ q.at = "done"
           /\ account' # Nobody
    <3>1. PICK p \in posts :
           \/ /\ p.at = "sent"
              /\ \/ posts' = (posts \ {p}) \cup {[p EXCEPT !.at = "refused"]}
                 \/ posts' = (posts \ {p}) \cup {[p EXCEPT !.at = "found"]}
              /\ UNCHANGED account
           \/ /\ p.at = "found"
              /\ \/ /\ account' = [account EXCEPT !.admin = p.admin]
                    /\ posts' = (posts \ {p}) \cup {[p EXCEPT !.at = "done"]}
                 \/ /\ account' = [account EXCEPT !.roles = Listed(p.list)]
                    /\ posts' = (posts \ {p}) \cup {[p EXCEPT !.at = "done"]}
                 \/ /\ posts' = (posts \ {p}) \cup {[p EXCEPT !.at = "unknown role"]}
                    /\ UNCHANGED account
      BY <1>0, <1>2 DEF ChangeUser
    <3>2. /\ [p EXCEPT !.at = "found"] \in UserPosts /\ [p EXCEPT !.at = "refused"] \in UserPosts
          /\ [p EXCEPT !.at = "done"] \in UserPosts /\ [p EXCEPT !.at = "done"].at = "done"
          /\ [p EXCEPT !.at = "unknown role"] \in UserPosts
          /\ p.admin \in BOOLEAN /\ Listed(p.list) \subseteq Roles
      BY DEF UserPosts, Listed
    <3>3. account \in [admin : BOOLEAN, roles : SUBSET Roles]
      BY <1>0, AccountFields
    <3>4. /\ [account EXCEPT !.admin = p.admin] \in [admin : BOOLEAN, roles : SUBSET Roles]
          /\ [account EXCEPT !.roles = Listed(p.list)] \in [admin : BOOLEAN, roles : SUBSET Roles]
      BY <3>2, <3>3
    <3>5. account' # Nobody
      BY <1>0, <3>1, <3>4, AccountFields
    <3> QED
      BY <1>0, <3>1, <3>2, <3>5
  <2>2. UNCHANGED getVars
    BY <1>2 DEF ChangeUser
  <2>3. Fresh => Fresh'
    BY <2>1, <2>2 DEF Fresh, getVars
  <2> QED
    BY <1>0, <2>1, <2>2, <2>3 DEF getVars
<1>3. CASE OtherAdmin
  BY <1>0, <1>3 DEF OtherAdmin
<1>4. ASSUME UNCHANGED <<accountVars, getVars, posts>>
      PROVE  account' # Nobody /\ (\A g \in gets' : g.at = "done" => g.got # Nobody) /\ (~crossed' => Fresh')
  BY <1>0, <1>4 DEF accountVars, getVars, Fresh
<1>5. CASE RefreshReturns
  <2>1. PICK g \in gets :
           /\ gets' = gets \ {g} /\ g.at = "done"
           /\ g.got # Nobody => user' = g.got
    BY <1>5 DEF RefreshReturns
  <2>2. user' = g.got /\ account' = account /\ posts' = posts /\ crossed' = crossed
    BY <1>0, <1>5, <2>1 DEF RefreshReturns, accountVars, postVars
  <2>3. Fresh => Fresh'
    BY <2>1, <2>2 DEF Fresh
  <2> QED
    BY <1>0, <2>1, <2>2, <2>3
<1>6. ASSUME RefreshUser, UNCHANGED accountVars
      PROVE  account' # Nobody /\ (\A g \in gets' : g.at = "done" => g.got # Nobody) /\ (~crossed' => Fresh')
  <2>1. PICK g : /\ gets' = gets \cup {g} /\ g.at = "sent"
                 /\ crossed' = (gets # {})
    BY <1>6 DEF RefreshUser
  <2>2. account' = account
    BY <1>6 DEF accountVars
  <2> QED
    BY <1>0, <2>1, <2>2 DEF Fresh
<1>12. ASSUME NEW p \in posts, posts' = posts \ {p}, NoRefresh(p), UNCHANGED accountVars
      PROVE  account' # Nobody /\ (\A g \in gets' : g.at = "done" => g.got # Nobody) /\ (~crossed' => Fresh')
  <2>1. ~crossed' => ~crossed /\ p.at # "done"
    BY <1>12 DEF NoRefresh
  <2>2. UNCHANGED <<account, gets, user>>
    BY <1>12 DEF NoRefresh, accountVars
  <2> QED
    BY <1>0, <1>12, <2>1, <2>2 DEF Fresh
<1>8. CASE MakeAdmin \/ Save
  <2>1. posts \subseteq posts' /\ UNCHANGED <<accountVars, getVars>>
    BY <1>8 DEF MakeAdmin, Save, Send
  <2> QED
    BY <1>0, <2>1 DEF accountVars, getVars, Fresh
<1>9. CASE MakeAdminReturns
  BY <1>6, <1>12, <1>9 DEF MakeAdminReturns
<1>10. CASE SaveReturns
  BY <1>6, <1>12, <1>10 DEF SaveReturns
<1>11. CASE \/ GetRoles \/ OpenDialog \/ CloseDialog \/ LoadReturns \/ Check \/ MoveRight \/ MoveLeft
            \/ UNCHANGED userVars
  BY <1>4, <1>11 DEF GetRoles, OpenDialog, CloseDialog, LoadReturns, Check, MoveRight, MoveLeft,
     userVars, aroundLists, postVars
<1>13. CASE RefreshFails
  BY <1>0, <1>13 DEF RefreshFails, accountVars
<1> QED
  BY <1>1, <1>2, <1>3, <1>5, <1>8, <1>9, <1>10, <1>11, <1>13 DEF UserNext

\* The lists of a dialog are those of its user and of its load.
LEMMA DialogStep ==
    ASSUME UserShape, DialogInv, [UserNext]_userVars PROVE DialogInv'
<1> USE DEF UserShape
<1> DEFINE lists == <<user, openDialog, loading, unready, loads, moveVars, checkVars>>
<1>1. ASSUME UNCHANGED lists PROVE DialogInv'
  BY <1>1 DEF DialogInv, Listing, Listed, moveVars, checkVars
<1>2. CASE \/ GetUser \/ ChangeUser \/ OtherAdmin \/ MakeAdmin \/ MakeAdminReturns \/ Save
           \/ RefreshFails \/ UNCHANGED userVars
  BY <1>1, <1>2 DEF GetUser, ChangeUser, OtherAdmin, MakeAdmin, MakeAdminReturns, Save,
     RefreshFails, RefreshUser, NoRefresh, userVars, dialogVars, getVars, loadVars
<1>3. ASSUME UNCHANGED user, Uncheck, ~openDialog' PROVE DialogInv'
  BY <1>3 DEF DialogInv, Uncheck
<1>4. CASE CloseDialog
  BY <1>3, <1>4 DEF CloseDialog, getVars
<1>5. CASE SaveReturns
  <2>1. \/ Uncheck /\ ~openDialog'
        \/ UNCHANGED <<openDialog, checkVars>>
    BY <1>5 DEF SaveReturns
  <2>2. UNCHANGED <<user, loadVars, moveVars>>
    BY <1>5 DEF SaveReturns, RefreshUser, NoRefresh, getVars
  <2> QED
    BY <1>1, <1>3, <2>1, <2>2 DEF loadVars
<1>6. ASSUME NEW rs, rs = user'.roles, Load(rs), leftChecked' = {}, rightChecked' = {},
             openDialog' = TRUE, user' # Nobody
      PROVE  DialogInv'
  <2>2. loading' = TRUE
    BY <1>6 DEF Load
  <2>3. ~unready' => \E l \in loads' : loads' = {l} /\ l.defaults = user'.roles
    <3>1. PICK l : l.defaults = rs /\ loads' = loads \cup {l}
      BY <1>6 DEF Load
    <3>2. ~unready' => loads = {}
      BY <1>6 DEF Load
    <3> QED
      BY <1>6, <3>1, <3>2
  <2> QED
    BY <1>6, <2>2, <2>3 DEF DialogInv
<1>7. CASE OpenDialog
  <2>1. /\ user' = user /\ user # Nobody /\ Load(user.roles) /\ Uncheck
        /\ openDialog' = TRUE
    BY <1>7 DEF OpenDialog, getVars
  <2>2. PICK rs : rs = user'.roles
    OBVIOUS
  <2>3. Load(rs)
    BY <2>1, <2>2
  <2>4. openDialog' = TRUE /\ leftChecked' = {} /\ rightChecked' = {}
    BY <2>1 DEF Uncheck
  <2>5. user' # Nobody
    BY <2>1
  <2> QED
    BY <1>6, <2>1, <2>2, <2>3, <2>4, <2>5
<1>8. CASE RefreshReturns
  <2>1. PICK g \in gets :
           IF g.got = Nobody
           THEN openDialog' = FALSE /\ Uncheck /\ UNCHANGED user
           ELSE /\ user' = g.got /\ UNCHANGED openDialog
                /\ IF openDialog
                   THEN Load(g.got.roles) /\ (IF loading THEN UNCHANGED checkVars ELSE Uncheck)
                   ELSE UNCHANGED <<loadVars, checkVars>>
    BY <1>8 DEF RefreshReturns
  <2>2. CASE g.got = Nobody
    BY <1>3, <2>1, <2>2
  <2>3. CASE g.got # Nobody /\ openDialog
    <3>1. PICK rs : rs = user'.roles
      OBVIOUS
    <3>2. Load(rs)
      BY <2>1, <2>3, <3>1
    <3>3. leftChecked' = {} /\ rightChecked' = {}
      BY <2>1, <2>3 DEF DialogInv, Uncheck, checkVars
    <3>4. openDialog' = TRUE
      BY <2>1, <2>3
    <3>5. user' # Nobody
      BY <2>1, <2>3
    <3> QED
      BY <1>6, <3>1, <3>2, <3>3, <3>4, <3>5
  <2>4. CASE g.got # Nobody /\ ~openDialog
    BY <2>1, <2>4 DEF DialogInv, checkVars
  <2> QED
    BY <2>2, <2>3, <2>4
<1>9. CASE GetRoles
  <2>1. PICK l \in loads, k \in RoleLoads :
           /\ loads' = (loads \ {l}) \cup {k} /\ k.defaults = l.defaults
    <3>1. PICK l, k :
             /\ l \in loads /\ loads' = (loads \ {l}) \cup {k}
             /\ k = [l EXCEPT !.at = "done", !.all = known] \/ k = [l EXCEPT !.at = "failed"]
      BY <1>9 DEF GetRoles
    <3>2. k \in RoleLoads /\ k.defaults = l.defaults
      BY <3>1 DEF RoleLoads
    <3> QED
      BY <3>1, <3>2
  <2>2. UNCHANGED <<user, openDialog, loading, unready, moveVars, checkVars>>
    BY <1>9 DEF GetRoles, getVars
  <2>3. /\ loads # {} /\ Listing' = Listing
        /\ \A d : loads = {d} => loads' = {k} /\ k.defaults = d.defaults
    BY <2>1, <2>2 DEF Listing, Listed, moveVars, checkVars
  <2> QED
    BY <2>1, <2>2, <2>3 DEF DialogInv, checkVars
<1>10. CASE LoadReturns
  <2>1. PICK l \in loads :
           /\ loads' = loads \ {l} /\ unready' = (unready \/ l.at = "failed") /\ l.at # "sent"
           /\ l.at = "done" =>
                 available' = Available(l) /\ assigned' = Once(l.defaults) /\ taken' = {}
    BY <1>10 DEF LoadReturns
  <2>2. /\ loading' = FALSE /\ user' = user /\ openDialog' = openDialog
        /\ IF loading THEN Uncheck ELSE UNCHANGED checkVars
    BY <1>10 DEF LoadReturns, getVars
  <2>3. ~openDialog \/ loading => leftChecked' = {} /\ rightChecked' = {}
    BY <2>2 DEF DialogInv, Uncheck, checkVars
  <2>4. ASSUME openDialog, ~unready' PROVE loads' = {} /\ Listing'
    <3>1. ~unready /\ l.at = "done"
      BY <2>1, <2>4 DEF RoleLoads
    <3>2. loading /\ loads = {l} /\ l.defaults = user.roles
      BY <2>1, <2>4, <3>1 DEF DialogInv
    <3>3. l.defaults \subseteq Roles /\ l.all \ l.defaults \subseteq Roles
      BY LoadRecords
    <3>4. /\ user'.roles \subseteq Listed(assigned')
          /\ \A r \in Roles : available'[r] + assigned'[r] <= 1
      BY <2>1, <2>2, <3>1, <3>2, <3>3, OnceListed DEF Available
    <3> QED
      BY <2>1, <2>3, <3>2, <3>4 DEF Listing, Listed
  <2> QED
    BY <2>1, <2>2, <2>3, <2>4 DEF DialogInv
<1>11. ASSUME UserCanMove, UNCHANGED aroundLists,
              loads = {} /\ ~unready /\ Listing => Listing'
       PROVE  DialogInv'
  BY <1>11 DEF DialogInv, UserCanMove, aroundLists, loadVars, getVars
<1>12. CASE Check
  <2>1. ASSUME Listing PROVE Listing'
    BY <1>12, <2>1 DEF Check, Listing, Listed, Toggle, ToggleAll, aroundLists, getVars, moveVars
  <2> QED
    BY <1>11, <1>12, <2>1 DEF Check
<1>13. CASE MoveRight
  <2>1. ASSUME Listing PROVE Listing'
    BY <1>13, <2>1 DEF MoveRight, Listing, Listed, With, Without, aroundLists, getVars
  <2> QED
    BY <1>11, <1>13, <2>1 DEF MoveRight
<1>14. CASE MoveLeft
  <2>1. ASSUME Listing PROVE Listing'
    BY <1>14, <2>1 DEF MoveLeft, Listing, Listed, With, Without, aroundLists, getVars
  <2> QED
    BY <1>11, <1>14, <2>1 DEF MoveLeft
<1> QED
  BY <1>2, <1>4, <1>5, <1>7, <1>8, <1>9, <1>10, <1>12, <1>13, <1>14 DEF UserNext

\* What is sent to be saved is what the lists hold, and is waited for.
LEMMA PostsStep ==
    ASSUME UserShape, DialogInv, PostsInv, [UserNext]_userVars PROVE PostsInv'
<1> USE DEF UserShape
<1>1. ASSUME UNCHANGED posts, known' \subseteq known, saving' => saving PROVE PostsInv'
  BY <1>1 DEF PostsInv, UntouchedRolesStay, NoStuckSave, RefusalIsTrue
<1>2. CASE \/ GetUser \/ OtherAdmin \/ GetRoles \/ RefreshReturns \/ OpenDialog \/ CloseDialog
           \/ LoadReturns \/ Check \/ MoveRight \/ MoveLeft \/ RefreshFails \/ UNCHANGED userVars
  <2>1. posts' = posts
    BY <1>2 DEF GetUser, OtherAdmin, GetRoles, RefreshReturns, OpenDialog, CloseDialog,
       LoadReturns, Check, MoveRight, MoveLeft, RefreshFails, userVars, postVars, aroundLists
  <2>2. known' \subseteq known
    <3>1. CASE OtherAdmin
      BY <3>1 DEF OtherAdmin
    <3>2. CASE ~OtherAdmin
      BY <1>2, <3>2 DEF GetUser, GetRoles, RefreshReturns, OpenDialog, CloseDialog,
         LoadReturns, Check, MoveRight, MoveLeft, RefreshFails, userVars, accountVars, aroundLists
    <3> QED
      BY <3>1, <3>2
  <2>3. saving' => saving
    <3>1. CASE RefreshReturns
      BY <3>1 DEF RefreshReturns
    <3>2. CASE ~RefreshReturns
      BY <1>2, <3>2 DEF GetUser, OtherAdmin, GetRoles, OpenDialog, CloseDialog,
         LoadReturns, Check, MoveRight, MoveLeft, RefreshFails, userVars, dialogVars, aroundLists
    <3> QED
      BY <3>1, <3>2
  <2> QED
    BY <1>1, <2>1, <2>2, <2>3
<1>3. CASE ChangeUser
  <2>1. PICK p \in posts, q \in UserPosts :
           /\ posts' = (posts \ {p}) \cup {q}
           /\ q.kind = p.kind /\ q.list = p.list /\ q.kept = p.kept /\ q.clean = p.clean
           /\ q.at = "unknown role" =>
                 ~(p.list = Once(Listed(p.list)) /\ Listed(p.list) \subseteq known)
    <3>1. PICK p, q :
             /\ p \in posts /\ posts' = (posts \ {p}) \cup {q}
             /\ \/ q = [p EXCEPT !.at = "refused"] \/ q = [p EXCEPT !.at = "found"]
                \/ q = [p EXCEPT !.at = "done"]
                \/ /\ q = [p EXCEPT !.at = "unknown role"]
                   /\ ~(p.list = Once(Listed(p.list)) /\ Listed(p.list) \subseteq known)
      BY <1>3 DEF ChangeUser
    <3>2. /\ q \in UserPosts
          /\ q.kind = p.kind /\ q.list = p.list /\ q.kept = p.kept /\ q.clean = p.clean
          /\ q.at = "unknown role" =>
                ~(p.list = Once(Listed(p.list)) /\ Listed(p.list) \subseteq known)
      BY <3>1 DEF UserPosts
    <3> QED
      BY <3>1, <3>2
  <2>2. UNCHANGED <<known, saving>>
    BY <1>3 DEF ChangeUser, dialogVars
  <2>3. ASSUME p.clean PROVE p.list = Once(Listed(p.list))
    <3>1. p.list \in [Roles -> Nat] /\ \A r \in Roles : p.list[r] <= 1
      BY <2>3, PostRecords DEF PostsInv
    <3> QED
      BY <3>1 DEF Once, Listed
  <2> QED
    BY <2>1, <2>2, <2>3 DEF PostsInv, UntouchedRolesStay, NoStuckSave, RefusalIsTrue
<1>4. CASE MakeAdmin
  <2>1. PICK p : /\ posts' = posts \cup {p} /\ p.kept = TRUE /\ p.list = Once({}) /\ p.at = "sent"
    <3>1. PICK p, n, b :
             /\ posts' = posts \cup {p}
             /\ p = [n |-> n, kind |-> "admin", admin |-> b, list |-> Once({}),
                     kept |-> TRUE, clean |-> TRUE, at |-> "sent"]
      BY <1>4 DEF MakeAdmin, Send
    <3>2. p.list = Once({}) /\ p.at = "sent"
      BY <3>1
    <3>3. p.kept = TRUE
      BY <3>1
    <3> QED
      BY <3>1, <3>2, <3>3
  <2>2. \A r \in Roles : p.list[r] <= 1
    BY <2>1, OnceListed
  <2>3. UNCHANGED <<known, saving>>
    BY <1>4 DEF MakeAdmin, dialogVars, accountVars
  <2> QED
    BY <2>1, <2>2, <2>3 DEF PostsInv, UntouchedRolesStay, NoStuckSave, RefusalIsTrue
<1>5. CASE MakeAdminReturns
  <2>1. PICK p \in posts : posts' = posts \ {p} /\ p.kind = "admin"
    BY <1>5 DEF MakeAdminReturns
  <2>2. UNCHANGED <<known, saving>>
    BY <1>5 DEF MakeAdminReturns, dialogVars, accountVars
  <2> QED
    BY <2>1, <2>2 DEF PostsInv, UntouchedRolesStay, NoStuckSave, RefusalIsTrue
<1>6. CASE Save
  <2>1. PICK p : /\ posts' = posts \cup {p} /\ p.kind = "roles" /\ p.at = "sent"
                 /\ p.list = assigned
                 /\ p.clean => loads = {} /\ ~unready
                 /\ loads = {} /\ ~unready /\ user.roles \subseteq Listed(assigned) \cup taken => p.kept
                 /\ loads # {} \/ unready => p.kept
    <3>1. PICK k \in BOOLEAN, c \in BOOLEAN :
             /\ posts' = posts \cup
                  {[n |-> sends + 1, kind |-> "roles", admin |-> FALSE, list |-> assigned,
                    at |-> "sent", clean |-> c, kept |-> k]}
             /\ c => loads = {} /\ ~unready
             /\ loads = {} /\ ~unready /\ user.roles \subseteq Listed(assigned) \cup taken => k
             /\ loads # {} \/ unready => k
      BY <1>6 DEF Save, Send
    <3>2. PICK p, n : /\ n = sends + 1
                      /\ p = [n |-> n, kind |-> "roles", admin |-> FALSE, list |-> assigned,
                              at |-> "sent", clean |-> c, kept |-> k]
      OBVIOUS
    <3>3. posts' = posts \cup {p}
      BY <3>1, <3>2
    <3>4. p.kind = "roles" /\ p.at = "sent" /\ p.list = assigned
      BY <3>2
    <3>5. (p.clean <=> c) /\ (p.kept <=> k)
      BY <3>2
    <3> QED
      BY <3>1, <3>3, <3>4, <3>5
  <2>2. openDialog /\ UNCHANGED <<known>>
    BY <1>6 DEF Save, accountVars
  <2>3. loads = {} /\ ~unready => Listing
    BY <2>2 DEF DialogInv
  <2>4. p.kept
    BY <2>1, <2>3 DEF Listing
  <2>5. p.clean => \A r \in Roles : p.list[r] <= 1
    BY <2>1, <2>3 DEF Listing
  <2> QED
    BY <2>1, <2>2, <2>4, <2>5 DEF PostsInv, UntouchedRolesStay, NoStuckSave, RefusalIsTrue
<1>7. CASE SaveReturns
  <2>1. posts' \subseteq posts /\ ~saving' /\ known' = known
    BY <1>7 DEF SaveReturns, StopSaving, accountVars
  <2> QED
    BY <2>1 DEF PostsInv, UntouchedRolesStay, NoStuckSave, RefusalIsTrue
<1> QED
  BY <1>2, <1>3, <1>4, <1>5, <1>6, <1>7 DEF UserNext

LEMMA UserStart == UserInit => UserInv
<1> SUFFICES ASSUME UserInit PROVE UserInv
  OBVIOUS
<1> USE DEF UserInit
<1>1. account \in [admin : BOOLEAN, roles : SUBSET Roles]
  OBVIOUS
<1>2. account \in Accounts /\ account # Nobody
  BY <1>1, AccountFields
<1>3. UserShape
  <2>1. gets \subseteq UserGets
    BY AccountFields DEF UserGets
  <2>2. Once({}) \in [Roles -> Nat]
    BY OnceListed
  <2> QED
    BY <1>2, <2>1, <2>2, AccountFields, UserAssumption DEF UserShape
<1>4. SettleInv
  BY <1>2 DEF SettleInv, Fresh
<1>5. DialogInv /\ PostsInv
  BY DEF DialogInv, PostsInv, UntouchedRolesStay, NoStuckSave, RefusalIsTrue
<1> QED
  BY <1>3, <1>4, <1>5 DEF UserInv

\* user-profile-page.tsx and manage-roles-dialog.tsx: what the page, its requests
\* and its dialog know of the account, for any roles and any number of requests.
THEOREM UserPageInvariant == UserSpec => []UserInv
<1>1. UserInv /\ [UserNext]_userVars => UserInv'
  BY UserShapeStep, SettleStep, DialogStep, PostsStep DEF UserInv, SettleInv
<1> QED
  BY <1>1, UserStart, PTL DEF UserSpec

\* The page settles on the account of the server unless answers crossed, failed or
\* were lost; its dialog saves the roles that were chosen in it and is refused for
\* a true reason, unless loads overlapped or failed; and it is never stuck.
THEOREM UserPageStaysSound == UserSpec => []UserPageIsSound
<1>1. UserInv => UserPageIsSound
  BY DEF UserInv, SettleInv, Fresh, PostsInv, UserPageIsSound, UserSettles
<1> QED
  BY <1>1, UserPageInvariant, PTL

-----------------------------------------------------------------------------
(* UserList.                                                               *)

Lists         == Seq(Range(Names))
UserQueries   == [search : Searches, page : Nat]
ListRequests  == [n : Nat, query : UserQueries, done : BOOLEAN, names : Lists]
UserDeletions == [user : Range(Names), query : UserQueries, at : {"sent", "ok", "error"}]
UserCreations == [dialog : Nat, user : Range(Names), query : UserQueries,
                  at : {"sent", "ok", "error"}]

UserListShape ==
    /\ usersDb \subseteq Range(Names) /\ changes \in Nat
    /\ search \in Searches /\ searchInput \in Searches /\ userPage \in Nat
    /\ searchTimer \in BOOLEAN /\ inputs \in Nat
    /\ searching \in BOOLEAN /\ strayed \in BOOLEAN /\ queried \in Nat
    /\ queries \subseteq ListRequests
    /\ users \in Lists /\ Len(users) <= ItemsPerPage
    /\ selectedUser \in Range(Names) \/ ~openDelete
    /\ openDelete \in BOOLEAN /\ deleting \in BOOLEAN /\ deletions \subseteq UserDeletions
    /\ createDialog \in Nat /\ dialogs \in Nat /\ creating \in BOOLEAN
    /\ creations \subseteq UserCreations

\* The list is what the server has for the query shown, or will be: a change
\* that is done will be followed by a request, or the one request under way is
\* for that query, and its answer is not stale.
ListFollows ==
    changes = 0 /\ ~strayed =>
        \/ \E c \in creations : c.at = "ok"
        \/ \E d \in deletions : d.at = "ok"
        \/ queries = {} /\ users = FirstNames(Found(Query))
        \/ \E r \in queries :
              queries = {r} /\ r.query = Query /\ (r.done => r.names = Found(Query))

\* The search is what is in the field, or the timer of the field runs.
FieldInv == searchTimer \/ search = searchInput

DeletionInv == IF deleting THEN \E d \in deletions : deletions = {d} ELSE deletions = {}

CreationInv == NoStuckCreate /\ (creating => createDialog # 0)

UserListInv == UserListShape /\ ListFollows /\ FieldInv /\ DeletionInv /\ CreationInv

-----------------------------------------------------------------------------
(* What the server and the page make of a list of names.                   *)

LEMMA SeqOfMore ==
    ASSUME NEW A, NEW B, B \subseteq A, NEW s \in Seq(B) PROVE s \in Seq(A)
OBVIOUS

\* What is between two places of a list.
LEMMA SliceLists ==
    ASSUME NEW s \in Lists, NEW m \in Nat \ {0}, NEW n \in Nat, n <= Len(s)
    PROVE  SubSeq(s, m, n) \in Lists /\ Len(SubSeq(s, m, n)) <= n
<1>1. \A i \in m .. n : s[i] \in Range(Names)
  BY DEF Lists
<1>2. /\ SubSeq(s, m, n) \in Seq(Range(Names))
      /\ Len(SubSeq(s, m, n)) = IF m <= n THEN n - m + 1 ELSE 0
  BY <1>1, SubSeqProperties
<1>3. Len(SubSeq(s, m, n)) <= n
  BY <1>2
<1> QED
  BY <1>2, <1>3 DEF Lists

LEMMA FoundLists ==
    ASSUME UserListShape, NEW q \in UserQueries PROVE Found(q) \in Lists
<1> DEFINE found == Kept(Names, usersDb \cap Matches[q.search])
           from == q.page * ItemsPerPage + 1
           to == IF Len(found) < from + ItemsPerPage THEN Len(found) ELSE from + ItemsPerPage
<1>1. found \in Lists
  <2>1. found \in Seq(Range(Names) \cap (usersDb \cap Matches[q.search]))
    BY UserListAssumption, KeptInSeq
  <2>2. Range(Names) \cap (usersDb \cap Matches[q.search]) \subseteq Range(Names)
    OBVIOUS
  <2> QED
    BY <2>1, <2>2, SeqOfMore DEF Lists
<1>2. q.page \in Nat /\ ItemsPerPage \in Nat
  BY UserListAssumption DEF UserQueries
<1>3. from \in Nat \ {0} /\ to \in Nat /\ to <= Len(found)
  <2>1. q.page * ItemsPerPage \in Nat
    BY <1>2
  <2>2. Len(found) \in Nat
    BY <1>1 DEF Lists
  <2> QED
    BY <1>2, <2>1, <2>2
<1>4. Found(q) = SubSeq(found, from, to)
  BY DEF Found
<1> HIDE DEF found, from, to
<1> QED
  BY <1>1, <1>3, <1>4, SliceLists

LEMMA FirstNamesLists ==
    ASSUME NEW names \in Lists
    PROVE  FirstNames(names) \in Lists /\ Len(FirstNames(names)) <= ItemsPerPage
<1> DEFINE to == IF Len(names) < ItemsPerPage THEN Len(names) ELSE ItemsPerPage
<1>1. ItemsPerPage \in Nat /\ to \in Nat /\ to <= Len(names) /\ to <= ItemsPerPage
  BY UserListAssumption DEF Lists
<1>2. FirstNames(names) = SubSeq(names, 1, to)
  BY DEF FirstNames
<1> HIDE DEF to
<1>3. /\ SubSeq(names, 1, to) \in Lists
      /\ Len(SubSeq(names, 1, to)) <= to
  BY <1>1, SliceLists
<1>4. Len(SubSeq(names, 1, to)) \in Nat
  BY <1>3 DEF Lists
<1> QED
  BY <1>1, <1>2, <1>3, <1>4

LEMMA QueryType == ASSUME UserListShape PROVE Query \in UserQueries
BY DEF UserListShape, Query, UserQueries

\* A refresh adds a request, and is a stray unless it is the only one and is for
\* the query shown.
LEMMA RefreshUsersEffect ==
    ASSUME UserListShape, NEW q \in UserQueries, NEW k \in BOOLEAN, RefreshUsers(q, k)
    PROVE  /\ queries' \subseteq ListRequests /\ queried' \in Nat /\ searching' \in BOOLEAN
           /\ strayed' \in BOOLEAN /\ users' = users
           /\ \E r \in ListRequests : queries' = queries \cup {r} /\ r.query = q /\ r.done = FALSE
           /\ ~strayed' => queries = {} /\ ~k
<1> USE DEF UserListShape
<1>1. PICK n \in Nat, e \in Lists : n = queried + 1 /\ e = <<>>
  <2>1. <<>> \in Lists
    BY DEF Lists
  <2>2. queried + 1 \in Nat
    OBVIOUS
  <2> QED
    BY <2>1, <2>2
<1>2. PICK r : r = [n |-> n, query |-> q, done |-> FALSE, names |-> e]
  OBVIOUS
<1>3. r \in ListRequests
  BY <1>2 DEF ListRequests
<1>4. r.query = q
  BY <1>2
<1>5. r.done = FALSE
  BY <1>2
<1>6. queries' = queries \cup {r}
  BY <1>1, <1>2 DEF RefreshUsers
<1>7. queried' \in Nat /\ users' = users
  BY DEF RefreshUsers
<1>8. searching' \in BOOLEAN /\ strayed' \in BOOLEAN /\ (~strayed' => queries = {} /\ ~k)
  BY DEF RefreshUsers
<1> QED
  BY <1>3, <1>4, <1>5, <1>6, <1>7, <1>8

\* An answer holds what the server had.
LEMMA ServeUsersEffect ==
    ASSUME UserListShape, ServeUsers
    PROVE  \E r \in queries, h \in ListRequests :
              /\ queries' = (queries \ {r}) \cup {h}
              /\ h.query = r.query /\ h.names = Found(r.query)
<1> USE DEF UserListShape
<1>1. PICK r \in queries :
         queries' = (queries \ {r}) \cup {[r EXCEPT !.done = TRUE, !.names = Found(r.query)]}
  BY DEF ServeUsers
<1>2. PICK f : f = Found(r.query)
  OBVIOUS
<1>3. f \in Lists
  <2>1. r.query \in UserQueries
    BY DEF ListRequests
  <2> QED
    BY <1>2, <2>1, FoundLists
<1>4. PICK h : h = [r EXCEPT !.done = TRUE, !.names = f]
  OBVIOUS
<1>5. h \in ListRequests
  BY <1>3, <1>4 DEF ListRequests
<1>6. h.query = r.query /\ h.names = f
  BY <1>4 DEF ListRequests
<1>7. queries' = (queries \ {r}) \cup {h}
  BY <1>1, <1>2, <1>4
<1> QED
  BY <1>2, <1>5, <1>6, <1>7

-----------------------------------------------------------------------------
(* The steps.                                                              *)

LEMMA UserListShapeStep ==
    ASSUME UserListShape, [UserListNext]_userListVars PROVE UserListShape'
<1> USE DEF UserListShape, queryVars, inputVars, deleteVars, createVars
<1>1. CASE ServeUsers
  <2>1. queries' \subseteq ListRequests
    BY <1>1, ServeUsersEffect
  <2> QED
    BY <1>1, <2>1 DEF ServeUsers
<1>2. CASE UsersArrive
  <2>1. PICK r \in queries : queries' = queries \ {r} /\ users' = FirstNames(r.names)
    BY <1>2 DEF UsersArrive
  <2>2. r.names \in Lists
    BY DEF ListRequests
  <2>3. users' \in Lists /\ Len(users') <= ItemsPerPage
    BY <2>1, <2>2, FirstNamesLists
  <2> QED
    BY <1>2, <2>1, <2>3 DEF UsersArrive
<1>17. CASE UsersFail
  BY <1>17 DEF UsersFail
<1>3. CASE ChangeInput
  BY <1>3 DEF ChangeInput, Input
<1>4. CASE SearchTimeout
  <2>1. search' \in Searches /\ userPage' \in Nat /\ searchTimer' = FALSE
        /\ UNCHANGED <<searchInput, inputs, userPage, usersDb, changes, deleteVars, createVars>>
    BY <1>4 DEF SearchTimeout
  <2>2. PICK q : q = Query'
    OBVIOUS
  <2>3. q \in UserQueries
    BY <2>1, <2>2 DEF Query, UserQueries
  <2>4. UNCHANGED queryVars \/ RefreshUsers(q, FALSE)
    BY <1>4, <2>2 DEF SearchTimeout
  <2> QED
    BY <2>1, <2>3, <2>4, RefreshUsersEffect
<1>5. CASE ChangeUserPage
  <2>1. userPage' \in Nat /\ inputs' \in Nat
        /\ UNCHANGED <<searchInput, searchTimer, search, usersDb, changes, deleteVars, createVars>>
    BY <1>5, UserListAssumption DEF ChangeUserPage, Input
  <2>2. PICK q : q = Query'
    OBVIOUS
  <2>3. q \in UserQueries
    BY <2>1, <2>2 DEF Query, UserQueries
  <2>4. RefreshUsers(q, FALSE)
    BY <1>5, <2>2 DEF ChangeUserPage
  <2> QED
    BY <2>1, <2>3, <2>4, RefreshUsersEffect
<1>6. CASE DeleteClick
  <2>1. selectedUser' \in Range(Names)
    BY <1>6 DEF DeleteClick, Lists
  <2> QED
    BY <1>6, <2>1 DEF DeleteClick
<1>7. CASE CloseDelete
  BY <1>7 DEF CloseDelete
<1>8. CASE ConfirmDelete
  <2>1. [user |-> selectedUser, query |-> Query, at |-> "sent"] \in UserDeletions
    BY <1>8, QueryType DEF ConfirmDelete, UserDeletions
  <2> QED
    BY <1>8, <2>1 DEF ConfirmDelete
<1>9. CASE ServeDelete
  <2>1. PICK d \in deletions :
           /\ usersDb' \subseteq usersDb
           /\ deletions' \subseteq deletions \cup {[d EXCEPT !.at = "ok"], [d EXCEPT !.at = "error"]}
    BY <1>9 DEF ServeDelete
  <2>2. [d EXCEPT !.at = "ok"] \in UserDeletions /\ [d EXCEPT !.at = "error"] \in UserDeletions
    BY DEF UserDeletions
  <2>3. deletions' \subseteq UserDeletions
    BY <2>1, <2>2
  <2> QED
    BY <1>9, <2>1, <2>3 DEF ServeDelete
<1>10. CASE DeleteReturns
  <2>1. PICK d \in deletions :
           /\ deletions' = deletions \ {d} /\ deleting' = FALSE
           /\ \/ openDelete' = FALSE /\ RefreshUsers(d.query, d.query # Query)
              \/ UNCHANGED openDelete /\ (LoseAnswer \/ UNCHANGED queryVars)
    BY <1>10 DEF DeleteReturns, StillDeleting
  <2>2. PICK q, k : q = d.query /\ k = (d.query # Query)
    OBVIOUS
  <2>3. q \in UserQueries /\ k \in BOOLEAN
    BY <2>2 DEF UserDeletions
  <2>4. UNCHANGED <<selectedUser, usersDb, changes, inputVars, createVars>>
    BY <1>10 DEF DeleteReturns
  <2>5. CASE openDelete' = FALSE /\ RefreshUsers(d.query, d.query # Query)
    <3>1. RefreshUsers(q, k)
      BY <2>2, <2>5
    <3> QED
      BY <2>1, <2>3, <2>4, <2>5, <3>1, RefreshUsersEffect
  <2>6. CASE UNCHANGED openDelete /\ (LoseAnswer \/ UNCHANGED queryVars)
    BY <2>1, <2>4, <2>6 DEF LoseAnswer
  <2> QED
    BY <2>1, <2>5, <2>6
<1>11. CASE OpenCreate \/ CloseCreate
  <2>1. CASE OpenCreate
    <3>1. dialogs' \in Nat /\ createDialog' \in Nat
      BY <2>1 DEF OpenCreate
    <3> QED
      BY <2>1, <3>1 DEF OpenCreate
  <2>2. CASE CloseCreate
    BY <2>2 DEF CloseCreate
  <2> QED
    BY <1>11, <2>1, <2>2
<1>12. CASE SubmitCreate
  <2>1. \A u \in Range(Names) :
           [dialog |-> createDialog, user |-> u, query |-> Query, at |-> "sent"] \in UserCreations
    BY QueryType DEF UserCreations
  <2>2. creations' \subseteq UserCreations
    BY <1>12, <2>1 DEF SubmitCreate
  <2> QED
    BY <1>12, <2>2 DEF SubmitCreate
<1>13. CASE ServeCreate
  <2>1. PICK c \in creations :
           /\ usersDb' \subseteq usersDb \cup {c.user}
           /\ creations' \subseteq creations \cup {[c EXCEPT !.at = "ok"], [c EXCEPT !.at = "error"]}
    BY <1>13 DEF ServeCreate
  <2>2. /\ [c EXCEPT !.at = "ok"] \in UserCreations /\ [c EXCEPT !.at = "error"] \in UserCreations
        /\ c.user \in Range(Names)
    BY DEF UserCreations
  <2>3. creations' \subseteq UserCreations /\ usersDb' \subseteq Range(Names)
    BY <2>1, <2>2
  <2> QED
    BY <1>13, <2>3 DEF ServeCreate
<1>14. CASE CreateReturns
  <2>1. PICK c \in creations :
           /\ creations' = creations \ {c}
           /\ \/ RefreshUsers(c.query, c.query # Query)
              \/ LoseAnswer
              \/ UNCHANGED queryVars
    BY <1>14 DEF CreateReturns
  <2>2. PICK q, k : q = c.query /\ k = (c.query # Query)
    OBVIOUS
  <2>3. q \in UserQueries /\ k \in BOOLEAN
    BY <2>2 DEF UserCreations
  <2>4. UNCHANGED <<dialogs, usersDb, changes, inputVars, deleteVars>>
    BY <1>14 DEF CreateReturns
  <2>5. creating' \in BOOLEAN /\ createDialog' \in Nat
    <3>1. creating' = FALSE \/ creating' = creating
      BY <1>14 DEF CreateReturns
    <3>2. createDialog' \in {0, createDialog}
      BY <1>14 DEF CreateReturns
    <3>3. creating' \in BOOLEAN
      BY <3>1
    <3>4. createDialog' \in Nat
      BY <3>2
    <3> QED
      BY <3>3, <3>4
  <2>6. CASE RefreshUsers(c.query, c.query # Query)
    <3>1. RefreshUsers(q, k)
      BY <2>2, <2>6
    <3> QED
      BY <2>1, <2>3, <2>4, <2>5, <3>1, RefreshUsersEffect
  <2>7. CASE LoseAnswer \/ UNCHANGED queryVars
    BY <2>1, <2>4, <2>5, <2>7 DEF LoseAnswer
  <2> QED
    BY <2>1, <2>6, <2>7
<1>15. CASE OtherChange
  BY <1>15 DEF OtherChange
<1>16. CASE UNCHANGED userListVars
  BY <1>16 DEF userListVars
<1> QED
  BY <1>1, <1>2, <1>3, <1>4, <1>5, <1>6, <1>7, <1>8, <1>9, <1>10, <1>11, <1>12, <1>13,
     <1>14, <1>15, <1>16, <1>17 DEF UserListNext

LEMMA ListFollowsStep ==
    ASSUME UserListShape, ListFollows, [UserListNext]_userListVars PROVE ListFollows'
<1> USE DEF UserListShape
<1>1. ASSUME UNCHANGED <<queries, users, strayed, search, userPage, usersDb>>,
             changes' = 0 => changes = 0,
             \A c \in creations : c.at = "ok" => c \in creations',
             \A d \in deletions : d.at = "ok" => d \in deletions'
      PROVE  ListFollows'
  <2>1. Query' = Query
    BY <1>1 DEF Query
  <2>2. Found(Query)' = Found(Query)
    BY <1>1 DEF Found, Query
  <2> QED
    BY <1>1, <2>1, <2>2 DEF ListFollows, FirstNames
<1>2. ASSUME NEW q \in UserQueries, NEW k \in BOOLEAN, RefreshUsers(q, k), k \/ q = Query'
      PROVE  ListFollows'
  <2>1. PICK r \in ListRequests : queries' = queries \cup {r} /\ r.query = q /\ r.done = FALSE
    BY <1>2, RefreshUsersEffect
  <2>2. ~strayed' => queries' = {r} /\ r.query = Query'
    BY <1>2, <2>1, RefreshUsersEffect
  <2> QED
    BY <2>1, <2>2 DEF ListFollows
<1>3. CASE ServeUsers
  <2>1. PICK r \in queries, h \in ListRequests :
              /\ queries' = (queries \ {r}) \cup {h}
              /\ h.query = r.query /\ h.names = Found(r.query)
    BY <1>3, ServeUsersEffect
  <2>2. UNCHANGED <<users, strayed, search, userPage, usersDb, changes, creations, deletions>>
    BY <1>3 DEF ServeUsers, inputVars, createVars, deleteVars
  <2>3. Query' = Query /\ Found(Query)' = Found(Query)
    BY <2>2 DEF Query, Found
  <2>4. \A k : queries = {k} => queries' = {h} /\ k = r
    BY <2>1
  <2> QED
    BY <2>1, <2>2, <2>3, <2>4 DEF ListFollows
<1>4. CASE UsersArrive
  <2>1. PICK r \in queries : r.done /\ queries' = queries \ {r} /\ users' = FirstNames(r.names)
    BY <1>4 DEF UsersArrive
  <2>2. UNCHANGED <<strayed, search, userPage, usersDb, changes, creations, deletions>>
    BY <1>4 DEF UsersArrive, inputVars, createVars, deleteVars
  <2>3. Query' = Query /\ Found(Query)' = Found(Query)
    BY <2>2 DEF Query, Found
  <2>4. \A k \in queries : queries = {k} => queries' = {} /\ k = r
    BY <2>1
  <2>5. FirstNames(Found(Query))' = FirstNames(Found(Query))
    BY <2>3 DEF FirstNames
  <2> QED
    BY <2>1, <2>2, <2>3, <2>4, <2>5 DEF ListFollows
<1>5. CASE ChangeInput
  BY <1>1, <1>5 DEF ChangeInput, queryVars, deleteVars, createVars
<1>6. CASE SearchTimeout
  <2>1. UNCHANGED <<userPage, usersDb, changes, deletions, creations>>
    BY <1>6 DEF SearchTimeout, deleteVars, createVars
  <2>2. CASE search' = search
    BY <1>1, <1>6, <2>1, <2>2 DEF SearchTimeout, queryVars
  <2>3. CASE search' # search
    <3>1. PICK q : q = Query'
      OBVIOUS
    <3>2. search' \in Searches
      BY <1>6 DEF SearchTimeout
    <3>3. q \in UserQueries
      BY <2>1, <3>1, <3>2 DEF Query, UserQueries
    <3>4. RefreshUsers(q, FALSE)
      BY <1>6, <2>3, <3>1 DEF SearchTimeout
    <3> QED
      BY <1>2, <3>1, <3>3, <3>4
  <2> QED
    BY <2>2, <2>3
<1>7. CASE ChangeUserPage
  <2>1. userPage' \in Nat /\ UNCHANGED search
    BY <1>7, UserListAssumption DEF ChangeUserPage
  <2>2. PICK q : q = Query'
    OBVIOUS
  <2>3. q \in UserQueries
    BY <2>1, <2>2 DEF Query, UserQueries
  <2>4. RefreshUsers(q, FALSE)
    BY <1>7, <2>2 DEF ChangeUserPage
  <2> QED
    BY <1>2, <2>2, <2>3, <2>4
<1>8. CASE DeleteClick \/ CloseDelete \/ ConfirmDelete
  BY <1>1, <1>8 DEF DeleteClick, CloseDelete, ConfirmDelete, queryVars, inputVars, createVars
<1>16. CASE UsersFail
  BY <1>16 DEF UsersFail, ListFollows
<1>9. CASE ServeDelete
  <2>1. PICK d \in deletions, at \in {"ok", "error"} :
           /\ d.at = "sent"
           /\ usersDb' = IF at = "ok" THEN usersDb \ {d.user} ELSE usersDb
           /\ deletions' = (deletions \ {d}) \cup {[d EXCEPT !.at = at]}
    BY <1>9 DEF ServeDelete
  <2>2. UNCHANGED <<queries, users, strayed, search, userPage, changes, creations>>
    BY <1>9 DEF ServeDelete, queryVars, inputVars, createVars
  <2>3. CASE at = "error"
    <3>1. usersDb' = usersDb /\ \A k \in deletions : k.at = "ok" => k \in deletions'
      BY <2>1, <2>3
    <3> QED
      BY <1>1, <2>2, <3>1
  <2>4. CASE at = "ok"
    <3>1. PICK k : k = [d EXCEPT !.at = "ok"]
      OBVIOUS
    <3>2. k.at = "ok"
      BY <3>1 DEF UserDeletions
    <3>3. k \in deletions'
      BY <2>1, <2>4, <3>1
    <3> QED
      BY <3>2, <3>3 DEF ListFollows
  <2> QED
    BY <2>3, <2>4
<1>10. CASE DeleteReturns
  <2>1. PICK d \in deletions :
           /\ deletions' = deletions \ {d}
           /\ \/ d.at = "ok" /\ RefreshUsers(d.query, d.query # Query)
              \/ strayed' = TRUE
              \/ d.at # "ok" /\ UNCHANGED queryVars
    BY <1>10 DEF DeleteReturns, LoseAnswer
  <2>2. UNCHANGED <<search, userPage, usersDb, changes, creations>>
    BY <1>10 DEF DeleteReturns, inputVars, createVars
  <2>3. CASE d.at = "ok" /\ RefreshUsers(d.query, d.query # Query)
    <3>1. PICK q, k : q = d.query /\ k = (d.query # Query)
      OBVIOUS
    <3>2. q \in UserQueries /\ k \in BOOLEAN
      BY <3>1 DEF UserDeletions
    <3>3. RefreshUsers(q, k)
      BY <2>1, <2>3, <3>1
    <3>4. k \/ q = Query'
      BY <2>2, <3>1 DEF Query
    <3> QED
      BY <1>2, <3>2, <3>3, <3>4
  <2>4. CASE d.at # "ok" /\ UNCHANGED queryVars
    BY <1>1, <2>1, <2>2, <2>4 DEF queryVars
  <2>5. CASE strayed' = TRUE
    BY <2>5 DEF ListFollows
  <2> QED
    BY <2>1, <2>3, <2>4, <2>5
<1>11. CASE OpenCreate \/ CloseCreate \/ SubmitCreate
  BY <1>1, <1>11 DEF OpenCreate, CloseCreate, SubmitCreate, queryVars, inputVars, deleteVars
<1>12. CASE ServeCreate
  <2>1. PICK c \in creations, at \in {"ok", "error"} :
           /\ c.at = "sent"
           /\ usersDb' = IF at = "ok" THEN usersDb \cup {c.user} ELSE usersDb
           /\ creations' = (creations \ {c}) \cup {[c EXCEPT !.at = at]}
    BY <1>12 DEF ServeCreate
  <2>2. UNCHANGED <<queries, users, strayed, search, userPage, changes, deletions>>
    BY <1>12 DEF ServeCreate, queryVars, inputVars, deleteVars
  <2>3. CASE at = "error"
    <3>1. usersDb' = usersDb /\ \A k \in creations : k.at = "ok" => k \in creations'
      BY <2>1, <2>3
    <3> QED
      BY <1>1, <2>2, <3>1
  <2>4. CASE at = "ok"
    <3>1. PICK k : k = [c EXCEPT !.at = "ok"]
      OBVIOUS
    <3>2. k.at = "ok"
      BY <3>1 DEF UserCreations
    <3>3. k \in creations'
      BY <2>1, <2>4, <3>1
    <3> QED
      BY <3>2, <3>3 DEF ListFollows
  <2> QED
    BY <2>3, <2>4
<1>13. CASE CreateReturns
  <2>1. PICK c \in creations :
           /\ creations' = creations \ {c}
           /\ \/ c.at = "ok" /\ RefreshUsers(c.query, c.query # Query)
              \/ strayed' = TRUE
              \/ c.at # "ok" /\ UNCHANGED queryVars
    BY <1>13 DEF CreateReturns, LoseAnswer
  <2>2. UNCHANGED <<search, userPage, usersDb, changes, deletions>>
    BY <1>13 DEF CreateReturns, inputVars, deleteVars
  <2>3. CASE c.at = "ok" /\ RefreshUsers(c.query, c.query # Query)
    <3>1. PICK q, k : q = c.query /\ k = (c.query # Query)
      OBVIOUS
    <3>2. q \in UserQueries /\ k \in BOOLEAN
      BY <3>1 DEF UserCreations
    <3>3. RefreshUsers(q, k)
      BY <2>1, <2>3, <3>1
    <3>4. k \/ q = Query'
      BY <2>2, <3>1 DEF Query
    <3> QED
      BY <1>2, <3>2, <3>3, <3>4
  <2>4. CASE c.at # "ok" /\ UNCHANGED queryVars
    BY <1>1, <2>1, <2>2, <2>4 DEF queryVars
  <2>5. CASE strayed' = TRUE
    BY <2>5 DEF ListFollows
  <2> QED
    BY <2>1, <2>3, <2>4, <2>5
<1>14. CASE OtherChange
  BY <1>14 DEF OtherChange, ListFollows
<1>15. CASE UNCHANGED userListVars
  BY <1>1, <1>15 DEF userListVars, queryVars, inputVars, deleteVars, createVars
<1> QED
  BY <1>3, <1>4, <1>5, <1>6, <1>7, <1>8, <1>9, <1>10, <1>11, <1>12, <1>13, <1>14, <1>15, <1>16
  DEF UserListNext

\* The dialogs of the list, and its field.
LEMMA UserDialogsStep ==
    ASSUME UserListShape, DeletionInv, CreationInv, FieldInv, [UserListNext]_userListVars
    PROVE  DeletionInv' /\ CreationInv' /\ FieldInv' /\ [OwnAnswerOnly]_userListVars
<1> USE DEF UserListShape
<1>1. DeletionInv'
  <2>1. CASE ConfirmDelete
    BY <2>1 DEF ConfirmDelete, DeletionInv
  <2>2. CASE ServeDelete
    <3>1. PICK d, k : d \in deletions /\ deletions' = (deletions \ {d}) \cup {k}
      BY <2>2 DEF ServeDelete
    <3>2. \A e : deletions = {e} => deletions' = {k}
      BY <3>1
    <3> QED
      BY <2>2, <3>1, <3>2 DEF ServeDelete, DeletionInv
  <2>3. CASE DeleteReturns
    <3>1. PICK d \in deletions : deletions' = deletions \ {d}
      BY <2>3 DEF DeleteReturns
    <3>2. deletions' = {}
      BY <3>1 DEF DeletionInv
    <3>3. deleting' = FALSE
      BY <2>3 DEF DeleteReturns, StillDeleting
    <3> QED
      BY <3>2, <3>3 DEF DeletionInv
  <2>4. CASE ~(ConfirmDelete \/ ServeDelete \/ DeleteReturns)
    <3>1. UNCHANGED <<deleting, deletions>>
      BY <2>4 DEF UserListNext, ServeUsers, UsersArrive, UsersFail, ChangeInput, SearchTimeout,
         ChangeUserPage, DeleteClick, CloseDelete, OpenCreate, CloseCreate, SubmitCreate, ServeCreate,
         CreateReturns, OtherChange, userListVars, deleteVars
    <3> QED
      BY <3>1 DEF DeletionInv
  <2> QED
    BY <2>1, <2>2, <2>3, <2>4
<1>2. ASSUME UNCHANGED <<createDialog, creating>>, \A c \in creations : \E k \in creations' : k.dialog = c.dialog
      PROVE  CreationInv' /\ [OwnAnswerOnly]_userListVars
  BY <1>2 DEF CreationInv, NoStuckCreate, OwnAnswerOnly
<1>3. CreationInv' /\ [OwnAnswerOnly]_userListVars
  <2>1. CASE OpenCreate
    <3>1. creating = FALSE /\ creating' = FALSE /\ createDialog = 0
      BY <2>1 DEF OpenCreate, Modal, CreationInv
    <3> QED
      BY <3>1 DEF CreationInv, NoStuckCreate, OwnAnswerOnly
  <2>2. CASE CloseCreate
    BY <2>2 DEF CloseCreate, CreationInv, NoStuckCreate, OwnAnswerOnly
  <2>3. CASE SubmitCreate
    <3>1. PICK u, c : /\ creations' = creations \cup {c}
                      /\ c = [dialog |-> createDialog, user |-> u, query |-> Query, at |-> "sent"]
      BY <2>3 DEF SubmitCreate
    <3>2. c.dialog = createDialog
      BY <3>1
    <3> QED
      BY <2>3, <3>1, <3>2 DEF SubmitCreate, CreationInv, NoStuckCreate, OwnAnswerOnly
  <2>4. CASE ServeCreate
    <3>1. PICK c, k : /\ c \in creations /\ creations' = (creations \ {c}) \cup {k}
                      /\ k = [c EXCEPT !.at = "ok"] \/ k = [c EXCEPT !.at = "error"]
      BY <2>4 DEF ServeCreate
    <3>2. k.dialog = c.dialog
      BY <3>1 DEF UserCreations
    <3>3. UNCHANGED <<createDialog, creating>>
      BY <2>4 DEF ServeCreate
    <3> QED
      BY <1>2, <3>1, <3>2, <3>3
  <2>5. CASE CreateReturns
    <3>1. PICK c \in creations, came \in BOOLEAN :
             /\ (came => c.at = "ok") /\ creations' = creations \ {c}
             /\ IF c.dialog = createDialog
                THEN creating' = FALSE /\ createDialog' = IF came THEN 0 ELSE createDialog
                ELSE UNCHANGED <<creating, createDialog>>
      BY <2>5 DEF CreateReturns, SafeAsync
    <3>2. CASE c.dialog = createDialog
      <4>1. creating' = FALSE
        BY <3>1, <3>2
      <4>2. c \in creations \ creations'
        BY <3>1
      <4>3. createDialog' = IF came THEN 0 ELSE createDialog
        BY <3>1, <3>2
      <4>4. creating => createDialog # 0
        BY DEF CreationInv
      <4>5. CreationInv'
        BY <4>1 DEF CreationInv, NoStuckCreate
      <4>6. OwnAnswerOnly
        BY <3>1, <3>2, <4>1, <4>2, <4>3, <4>4 DEF OwnAnswerOnly
      <4> QED
        BY <4>5, <4>6
    <3>3. CASE c.dialog # createDialog
      BY <3>1, <3>3 DEF CreationInv, NoStuckCreate, OwnAnswerOnly
    <3> QED
      BY <3>2, <3>3
  <2>6. CASE ~(OpenCreate \/ CloseCreate \/ SubmitCreate \/ ServeCreate \/ CreateReturns)
    <3>1. UNCHANGED createVars
      BY <2>6 DEF UserListNext, ServeUsers, UsersArrive, UsersFail, ChangeInput, SearchTimeout,
         ChangeUserPage, DeleteClick, CloseDelete, ConfirmDelete, ServeDelete, DeleteReturns, OtherChange,
         userListVars
    <3> QED
      BY <1>2, <3>1 DEF createVars
  <2> QED
    BY <2>1, <2>2, <2>3, <2>4, <2>5, <2>6
<1>4. FieldInv'
  <2>1. CASE ChangeInput
    BY <2>1 DEF ChangeInput, FieldInv
  <2>2. CASE SearchTimeout
    BY <2>2 DEF SearchTimeout, FieldInv
  <2>3. CASE ~(ChangeInput \/ SearchTimeout)
    <3>1. UNCHANGED <<searchInput, searchTimer, search>>
      BY <2>3 DEF UserListNext, ServeUsers, UsersArrive, UsersFail, ChangeUserPage, DeleteClick,
         CloseDelete, ConfirmDelete, ServeDelete, DeleteReturns, OpenCreate, CloseCreate, SubmitCreate,
         ServeCreate, CreateReturns, OtherChange, userListVars, inputVars
    <3> QED
      BY <3>1 DEF FieldInv
  <2> QED
    BY <2>1, <2>2, <2>3
<1> QED
  BY <1>1, <1>3, <1>4

LEMMA UserListStart == UserListInit => UserListInv
<1> SUFFICES ASSUME UserListInit PROVE UserListInv
  OBVIOUS
<1> USE DEF UserListInit
<1>1. UserListShape
  <2>1. "all" \in Searches /\ First \subseteq Range(Names)
    BY UserListAssumption
  <2>2. PICK q, e : q = Query /\ e = <<>>
    OBVIOUS
  <2>3. q \in UserQueries /\ e \in Lists /\ Len(e) = 0
    BY <2>1, <2>2 DEF Query, UserQueries, Lists
  <2>4. [n |-> 1, query |-> q, done |-> FALSE, names |-> e] \in ListRequests
    BY <2>3 DEF ListRequests
  <2>5. queries \subseteq ListRequests
    BY <2>2, <2>4
  <2>6. users \in Lists /\ Len(users) <= ItemsPerPage
    BY <2>2, <2>3, UserListAssumption
  <2> QED
    BY <2>1, <2>5, <2>6 DEF UserListShape
<1>2. ListFollows
  <2>1. PICK q : q = Query
    OBVIOUS
  <2>2. queries = {[n |-> 1, query |-> q, done |-> FALSE, names |-> <<>>]}
    BY <2>1
  <2> QED
    BY <2>1, <2>2 DEF ListFollows
<1>3. FieldInv /\ DeletionInv /\ CreationInv
  BY DEF FieldInv, DeletionInv, CreationInv, NoStuckCreate
<1> QED
  BY <1>1, <1>2, <1>3 DEF UserListInv

\* user-list-card.tsx: the list, its dialogs and their requests, for any users,
\* searches and page size.
THEOREM UserListInvariant == UserListSpec => []UserListInv
<1>1. UserListInv /\ [UserListNext]_userListVars => UserListInv'
  BY UserListShapeStep, ListFollowsStep, UserDialogsStep DEF UserListInv
<1> QED
  BY <1>1, UserListStart, PTL DEF UserListSpec

\* The list settles on what was searched, unless requests overlapped, the last
\* one failed or the answer to a change was lost, users are deleted one at a time,
\* and the dialog that creates a user heeds the answers to its own request only.
THEOREM UserListStaysSound == UserListSpec => UserListIsSound
<1>1. UserListInv => UserListSettles /\ OneDeletion /\ NoStuckCreate
  <2> SUFFICES ASSUME UserListInv PROVE UserListSettles /\ OneDeletion /\ NoStuckCreate
    OBVIOUS
  <2>1. UserListSettles
    BY DEF UserListInv, ListFollows, FieldInv, UserListSettles, Query
  <2>2. OneDeletion
    <3>1. CASE deleting
      <4>1. PICK d : deletions = {d}
        BY <3>1 DEF UserListInv, DeletionInv
      <4> QED
        BY <3>1, <4>1, FS_Singleton DEF OneDeletion
    <3>2. CASE ~deleting
      BY <3>2, FS_EmptySet DEF UserListInv, DeletionInv, OneDeletion
    <3> QED
      BY <3>1, <3>2
  <2> QED
    BY <2>1, <2>2 DEF UserListInv, CreationInv
<1>2. UserListInv /\ [UserListNext]_userListVars => [OwnAnswerOnly]_userListVars
  BY UserDialogsStep DEF UserListInv
<1> QED
  BY <1>1, <1>2, UserListInvariant, PTL DEF UserListSpec, UserListIsSound

-----------------------------------------------------------------------------
(* RoleList.                                                               *)

AnyRole      == RoleNames \cup {NoRole}
Answers      == {"sent", "ok", "error"}
GetsOfRoles  == [n : Nat, done : BOOLEAN, roles : SUBSET RoleNames]
NewRoles     == [dialog : Nat, role : RoleNames, at : Answers]
GoneRoles    == [n : Nat, role : AnyRole, at : Answers]
GetsOfPerms  == [n : Nat, card : Nat, role : AnyRole, at : Answers, perms : SUBSET Perms]
PostsOfPerms == [kind : {"add", "remove"}, perm : Perms, role : AnyRole, card : Nat,
                 dialog : Nat, at : Answers]

RoleShape ==
    /\ RolesDb \subseteq RoleNames /\ permsDb \in [RolesDb -> SUBSET Perms]
    /\ roles \subseteq RoleNames /\ roleGets \subseteq GetsOfRoles /\ roleAsks \in Nat
    /\ roleCreations \subseteq NewRoles /\ roleDeletions \subseteq GoneRoles
    /\ roleDialog \in Nat /\ card \in Nat /\ permDialog \in Nat
    /\ mounts \in Nat /\ roleChanges \in Nat
    /\ selectedDeleteRole \in AnyRole /\ cardRole \in AnyRole
    /\ permissions \subseteq Perms
    /\ permGets \subseteq GetsOfPerms /\ permAsks \in Nat
    /\ permPosts \subseteq PostsOfPerms
    /\ loadingRoles \in BOOLEAN /\ roleAstray \in BOOLEAN /\ permAstray \in BOOLEAN
    /\ creatingRole \in BOOLEAN /\ deletingRole \in BOOLEAN /\ savingPerm \in BOOLEAN

\* The list is that of the server, or will be: a change that is done will be
\* followed by a GET, or one GET is under way, and no answer of it is stale.
ListInv ==
    ~roleAstray =>
        \/ \E c \in roleCreations : c.at = "ok"
        \/ \E d \in roleDeletions : d.at = "ok"
        \/ roleGets = {} /\ roles = RolesDb
        \/ \E g \in roleGets : roleGets = {g} /\ (g.done => g.roles = RolesDb)

\* A card is known by its number, which no request of an earlier card has.
CardIds ==
    /\ card <= mounts
    /\ permDialog # 0 => card # 0
    /\ loadingRoles => card = 0
    /\ \A g \in permGets :
          g.card # 0 /\ g.card <= mounts /\ (g.card = card => g.role = cardRole)
    /\ \A p \in permPosts : p.card # 0
    /\ PermissionsOfRole

OwnGets == {g \in permGets : g.card = card}

\* The role of the card was deleted, which will unmount it.
Doomed == \E d \in roleDeletions : d.role = cardRole /\ d.at = "ok"

\* A change of its permissions is done, and will be followed by a GET.
Changed == \E p \in permPosts : p.role = cardRole /\ p.at = "ok"

\* The card lists what the server has.
Current == OwnGets = {} /\ cardRole \in RolesDb /\ permissions = permsDb[cardRole]

\* One GET is under way, and its answer, if there is one, is not stale.
Asking ==
    \E g \in OwnGets :
        /\ OwnGets = {g}
        /\ g.at = "ok" => cardRole \in RolesDb /\ g.perms = permsDb[cardRole]

\* The card lists what the server has, or will.
CardInv ==
    card # 0 /\ ~permAstray =>
        /\ OwnGets = {} \/ \E g \in OwnGets : OwnGets = {g}
        /\ Doomed \/ Changed \/ Current \/ Asking

RoleListInv ==
    RoleShape /\ ListInv /\ CardIds /\ CardInv /\ NoStuckDeleteRole /\ NoStuckPermission

-----------------------------------------------------------------------------
(* The records of the requests.                                            *)

LEMMA RoleRecords ==
    /\ \A g \in GetsOfRoles, rs \in SUBSET RoleNames :
          /\ [g EXCEPT !.done = TRUE, !.roles = rs] \in GetsOfRoles
          /\ [g EXCEPT !.done = TRUE, !.roles = rs].roles = rs
    /\ \A g \in GetsOfRoles : g.roles \subseteq RoleNames
BY DEF GetsOfRoles

LEMMA FirstRoleGet ==
    ASSUME NEW n \in Nat PROVE [n |-> n, done |-> FALSE, roles |-> {}] \in GetsOfRoles
BY DEF GetsOfRoles

LEMMA FirstPermGet ==
    ASSUME NEW n \in Nat, NEW c \in Nat, NEW r \in AnyRole
    PROVE  [n |-> n, card |-> c, role |-> r, at |-> "sent", perms |-> {}] \in GetsOfPerms
BY DEF GetsOfPerms, Answers

\* The effects that several actions share keep their types.
LEMMA SharedEffects ==
    ASSUME RoleShape
    PROVE  /\ UnmountCard /\ NoRole \in AnyRole =>
                 /\ card' = 0 /\ cardRole' \in AnyRole /\ permissions' \subseteq Perms
                 /\ permDialog' = 0 /\ savingPerm' = FALSE
                 /\ UNCHANGED <<permGets, permAsks, permAstray>>
           /\ \A c \in Nat : RefreshPerms(c) /\ cardRole' \in AnyRole =>
                 /\ permGets' \subseteq GetsOfPerms /\ permAsks' \in Nat
                 /\ permAstray' \in BOOLEAN
<1> USE DEF RoleShape
<1>1. UnmountCard /\ NoRole \in AnyRole =>
                 /\ card' = 0 /\ cardRole' \in AnyRole /\ permissions' \subseteq Perms
                 /\ permDialog' = 0 /\ savingPerm' = FALSE
                 /\ UNCHANGED <<permGets, permAsks, permAstray>>
  BY DEF UnmountCard, getPermVars
<1>2. ASSUME NEW c \in Nat, RefreshPerms(c), cardRole' \in AnyRole
      PROVE  permGets' \subseteq GetsOfPerms /\ permAsks' \in Nat /\ permAstray' \in BOOLEAN
  <2>1. PICK n \in Nat, r \in AnyRole : n = permAsks + 1 /\ r = cardRole'
    BY <1>2
  <2>2. [n |-> n, card |-> c, role |-> r, at |-> "sent", perms |-> {}] \in GetsOfPerms
    BY FirstPermGet
  <2>3. permGets' = permGets \cup {[n |-> n, card |-> c, role |-> r, at |-> "sent", perms |-> {}]}
    BY <1>2, <2>1 DEF RefreshPerms
  <2>4. permGets' \subseteq GetsOfPerms
    BY <2>2, <2>3
  <2>5. permAsks' \in Nat
    BY <1>2 DEF RefreshPerms
  <2>6. permAstray' \in BOOLEAN
    BY <1>2 DEF RefreshPerms
  <2> QED
    BY <2>4, <2>5, <2>6
<1> QED
  BY <1>1, <1>2

\* A refresh of the roles adds a GET, and mounts the list anew.
LEMMA RefreshRolesEffect ==
    ASSUME RoleShape, RefreshRoles
    PROVE  /\ roleGets' \subseteq GetsOfRoles /\ roleAsks' \in Nat
           /\ roleAstray' \in BOOLEAN /\ loadingRoles' = TRUE /\ roles' = roles
           /\ \E g \in GetsOfRoles : roleGets' = roleGets \cup {g} /\ g.done = FALSE
           /\ ~roleAstray' => roleGets = {}
           /\ UNCHANGED cardVars \/ UnmountCard
           /\ ~loadingRoles => UnmountCard
           /\ loadingRoles => UNCHANGED cardVars
<1> USE DEF RoleShape
<1>1. PICK n \in Nat : n = roleAsks + 1
  OBVIOUS
<1>2. PICK g : g = [n |-> n, done |-> FALSE, roles |-> {}]
  OBVIOUS
<1>3. g \in GetsOfRoles
  BY <1>2, FirstRoleGet
<1>4. g.done = FALSE
  BY <1>2
<1>5. roleGets' = roleGets \cup {g}
  BY <1>1, <1>2 DEF RefreshRoles
<1>6. roleAsks' \in Nat /\ roles' = roles
  BY DEF RefreshRoles
<1>7. roleAstray' \in BOOLEAN /\ loadingRoles' = TRUE /\ (~roleAstray' => roleGets = {})
  BY DEF RefreshRoles
<1>8. /\ ~loadingRoles => UnmountCard
      /\ loadingRoles => UNCHANGED cardVars
  BY DEF RefreshRoles
<1>9. roleGets' \subseteq GetsOfRoles
  BY <1>3, <1>5
<1> QED
  BY <1>3, <1>4, <1>5, <1>6, <1>7, <1>8, <1>9

\* A request that changes permissions is about the role of a card.
LEMMA PostPermEffect ==
    ASSUME RoleShape, NEW k \in {"add", "remove"}, NEW p \in Perms, NEW d \in Nat, PostPerm(k, p, d)
    PROVE  \E q \in PostsOfPerms : /\ permPosts' = permPosts \cup {q} /\ q.at = "sent"
                                   /\ q.card = card /\ q.dialog = d
<1> USE DEF RoleShape
<1>1. PICK q : q = [kind |-> k, perm |-> p, role |-> cardRole, card |-> card, dialog |-> d,
                    at |-> "sent"]
  OBVIOUS
<1>2. q \in PostsOfPerms /\ q.at = "sent" /\ q.card = card /\ q.dialog = d
  BY <1>1 DEF PostsOfPerms, Answers
<1>3. permPosts' = permPosts \cup {q}
  BY <1>1 DEF PostPerm
<1> QED
  BY <1>2, <1>3

-----------------------------------------------------------------------------
(* No step leaves the types.                                               *)

LEMMA RoleShapeStep == ASSUME RoleShape, [RoleListNext]_roleListVars PROVE RoleShape'
<1> USE DEF RoleShape, RolesDb
<1>0. NoRole \in AnyRole /\ RoleNames \subseteq AnyRole
  BY DEF AnyRole
<1>1. CASE ServeRoles
  <2>1. roleGets' \subseteq GetsOfRoles
    BY <1>1, RoleRecords DEF ServeRoles
  <2> QED
    BY <1>1, <2>1 DEF ServeRoles,
       roleClicks, getRoleVars, newRoleVars, delRoleVars, shownVars,
       getPermVars, permDlgVars, cardVars
<1>24. CASE RolesFail
  BY <1>24 DEF RolesFail, newRoleVars, roleClicks, delRoleVars, shownVars, getPermVars,
     permDlgVars, cardVars
<1>25. CASE PermsFail
  <2>1. permAstray' \in BOOLEAN
    BY <1>25 DEF PermsFail
  <2>2. permGets' \subseteq GetsOfPerms
    BY <1>25 DEF PermsFail
  <2> QED
    BY <1>25, <2>1, <2>2 DEF PermsFail, newRoleVars, roleClicks, delRoleVars, shownVars,
       getRoleVars, permDlgVars
<1>2. CASE RolesArrive
  <2>1. roleGets' \subseteq GetsOfRoles /\ roles' \subseteq RoleNames /\ loadingRoles' = FALSE
    BY <1>2, RoleRecords DEF RolesArrive
  <2>2. \/ UnmountCard
        \/ UNCHANGED <<card, cardRole, shownVars, permDlgVars>> /\ RefreshPerms(card)
    BY <1>2 DEF RolesArrive
  <2>3. CASE UnmountCard
    <3>1. /\ card' = 0 /\ cardRole' \in AnyRole /\ permissions' \subseteq Perms
          /\ permDialog' = 0 /\ savingPerm' = FALSE
          /\ UNCHANGED <<permGets, permAsks, permAstray>>
      BY <1>0, <2>3, SharedEffects
    <3> QED
      BY <1>2, <2>1, <3>1 DEF RolesArrive, newRoleVars, roleClicks, delRoleVars
  <2>4. CASE UNCHANGED <<card, cardRole, shownVars, permDlgVars>> /\ RefreshPerms(card)
    <3>1. /\ permGets' \subseteq GetsOfPerms /\ permAsks' \in Nat
          /\ permAstray' \in BOOLEAN
      BY <2>4, SharedEffects
    <3> QED
      BY <1>2, <2>1, <2>4, <3>1 DEF RolesArrive, newRoleVars, roleClicks, delRoleVars,
         shownVars, permDlgVars
  <2> QED
    BY <2>2, <2>3, <2>4
<1>3. CASE OpenRoleDialog
  <2>1. mounts' \in Nat /\ roleDialog' \in Nat
    BY <1>3 DEF OpenRoleDialog, Mount
  <2> QED
    BY <1>3, <2>1 DEF OpenRoleDialog, Mount,
       roleClicks, getRoleVars, newRoleVars, delRoleVars, shownVars,
       getPermVars, permDlgVars, cardVars
<1>4. CASE CloseRoleDialog
  BY <1>4 DEF CloseRoleDialog,
     roleClicks, getRoleVars, newRoleVars, delRoleVars, shownVars,
       getPermVars, permDlgVars, cardVars
<1>5. CASE SubmitRole
  <2>1. \A r \in RoleNames : [dialog |-> roleDialog, role |-> r, at |-> "sent"] \in NewRoles
    BY DEF NewRoles, Answers
  <2>2. roleCreations' \subseteq NewRoles
    BY <1>5, <2>1 DEF SubmitRole
  <2> QED
    BY <1>5, <2>2 DEF SubmitRole,
       roleClicks, getRoleVars, newRoleVars, delRoleVars, shownVars,
       getPermVars, permDlgVars, cardVars
<1>6. CASE ServeCreateRole
  <2>1. PICK c \in roleCreations :
           /\ \/ permsDb' = permsDb
              \/ permsDb' = [r \in RolesDb \cup {c.role} |->
                               IF r \in RolesDb THEN permsDb[r] ELSE {}]
           /\ roleCreations' \subseteq roleCreations \cup {[c EXCEPT !.at = "error"], [c EXCEPT !.at = "ok"]}
    BY <1>6 DEF ServeCreateRole
  <2>2. /\ [c EXCEPT !.at = "error"] \in NewRoles /\ [c EXCEPT !.at = "ok"] \in NewRoles
        /\ c.role \in RoleNames
    BY DEF NewRoles, Answers
  <2>3. roleCreations' \subseteq NewRoles
    BY <2>1, <2>2
  <2>4. RolesDb' \subseteq RoleNames /\ permsDb' \in [RolesDb' -> SUBSET Perms]
    BY <2>1, <2>2
  <2> QED
    BY <1>6, <2>3, <2>4 DEF ServeCreateRole,
       roleClicks, getRoleVars, newRoleVars, delRoleVars, shownVars,
       getPermVars, permDlgVars, cardVars
<1>7. CASE RoleCreated
  <2>1. roleCreations' \subseteq NewRoles /\ roleDialog' \in Nat
    BY <1>7 DEF RoleCreated
  <2>2. creatingRole' \in BOOLEAN
    BY <1>7 DEF RoleCreated
  <2>3. CASE RefreshRoles
    <3>1. UNCHANGED cardVars \/ UnmountCard
      BY <2>3, RefreshRolesEffect
    <3>2. CASE UNCHANGED cardVars
      BY <1>7, <2>1, <2>2, <2>3, <3>2, RefreshRolesEffect DEF RoleCreated, roleClicks, delRoleVars,
         cardVars, shownVars, getPermVars, permDlgVars
    <3>3. CASE UnmountCard
      <4>1. /\ card' = 0 /\ cardRole' \in AnyRole /\ permissions' \subseteq Perms
            /\ permDialog' = 0 /\ savingPerm' = FALSE
            /\ UNCHANGED <<permGets, permAsks, permAstray>>
        BY <1>0, <3>3, SharedEffects
      <4> QED
        BY <1>7, <2>1, <2>2, <2>3, <4>1, RefreshRolesEffect DEF RoleCreated, roleClicks, delRoleVars
    <3> QED
      BY <3>1, <3>2, <3>3
  <2>4. CASE UNCHANGED <<getRoleVars, cardVars>>
    BY <1>7, <2>1, <2>2, <2>4 DEF RoleCreated, roleClicks, delRoleVars, getRoleVars,
       cardVars, shownVars, getPermVars, permDlgVars
  <2>5. CASE LoseRoleChange
    BY <1>7, <2>1, <2>2, <2>5 DEF RoleCreated, LoseRoleChange, roleClicks, delRoleVars,
       shownVars, permDlgVars
  <2> QED
    BY <1>7, <2>3, <2>4, <2>5 DEF RoleCreated, AfterRoleChange
<1>8. CASE DeleteRoleClick
  BY <1>8 DEF DeleteRoleClick, NotDeletingRole,
     roleClicks, getRoleVars, newRoleVars, delRoleVars, shownVars,
       getPermVars, permDlgVars, cardVars
<1>9. CASE CloseDeleteRole
  BY <1>0, <1>9 DEF CloseDeleteRole,
     roleClicks, getRoleVars, newRoleVars, delRoleVars, shownVars,
       getPermVars, permDlgVars, cardVars
<1>10. CASE ConfirmDeleteRole
  <2>1. [n |-> roleChanges, role |-> selectedDeleteRole, at |-> "sent"] \in GoneRoles
    BY DEF GoneRoles, Answers
  <2>2. roleDeletions' \subseteq GoneRoles /\ roleChanges' \in Nat /\ mounts' = mounts
    BY <1>10, <2>1 DEF ConfirmDeleteRole, Change
  <2> QED
    BY <1>10, <2>2 DEF ConfirmDeleteRole,
       roleClicks, getRoleVars, newRoleVars, delRoleVars, shownVars,
       getPermVars, permDlgVars, cardVars
<1>11. CASE ServeDeleteRole
  <2>1. PICK d \in roleDeletions :
           /\ permsDb' = permsDb \/ permsDb' = [r \in RolesDb \ {d.role} |-> permsDb[r]]
           /\ roleDeletions' \subseteq roleDeletions \cup {[d EXCEPT !.at = "error"], [d EXCEPT !.at = "ok"]}
    BY <1>11 DEF ServeDeleteRole
  <2>2. /\ [d EXCEPT !.at = "error"] \in GoneRoles /\ [d EXCEPT !.at = "ok"] \in GoneRoles
    BY DEF GoneRoles, Answers
  <2>3. roleDeletions' \subseteq GoneRoles
    BY <2>1, <2>2
  <2>4. RolesDb' \subseteq RoleNames /\ permsDb' \in [RolesDb' -> SUBSET Perms]
    BY <2>1
  <2> QED
    BY <1>11, <2>3, <2>4 DEF ServeDeleteRole,
       roleClicks, getRoleVars, newRoleVars, delRoleVars, shownVars,
       getPermVars, permDlgVars, cardVars
<1>12. CASE RoleDeleted
  <2>1. roleDeletions' \subseteq GoneRoles /\ selectedDeleteRole' \in AnyRole
    BY <1>0, <1>12 DEF RoleDeleted
  <2>3. CASE RefreshRoles
    <3>1. UNCHANGED cardVars \/ UnmountCard
      BY <2>3, RefreshRolesEffect
    <3>2. CASE UNCHANGED cardVars
      BY <1>12, <2>1, <2>3, <3>2, RefreshRolesEffect DEF RoleDeleted, roleClicks, newRoleVars,
         cardVars, shownVars, getPermVars, permDlgVars
    <3>3. CASE UnmountCard
      <4>1. /\ card' = 0 /\ cardRole' \in AnyRole /\ permissions' \subseteq Perms
            /\ permDialog' = 0 /\ savingPerm' = FALSE
            /\ UNCHANGED <<permGets, permAsks, permAstray>>
        BY <1>0, <3>3, SharedEffects
      <4> QED
        BY <1>12, <2>1, <2>3, <4>1, RefreshRolesEffect DEF RoleDeleted, roleClicks, newRoleVars
    <3> QED
      BY <3>1, <3>2, <3>3
  <2>4. CASE UNCHANGED <<getRoleVars, cardVars>>
    BY <1>12, <2>1, <2>4 DEF RoleDeleted, roleClicks, newRoleVars, getRoleVars,
       cardVars, shownVars, getPermVars, permDlgVars
  <2>5. CASE LoseRoleChange
    BY <1>12, <2>1, <2>5 DEF RoleDeleted, LoseRoleChange, roleClicks, newRoleVars,
       shownVars, permDlgVars
  <2> QED
    BY <1>12, <2>3, <2>4, <2>5 DEF RoleDeleted, AfterRoleChange
<1>13. CASE Expand
  <2>1. mounts' \in Nat /\ roleChanges' = roleChanges /\ card' \in Nat
    BY <1>13 DEF Expand, Mount
  <2>2. cardRole' \in AnyRole /\ permissions' = {}
    BY <1>0, <1>13 DEF Expand
  <2>3. PICK c \in Nat : c = card'
    BY <2>1
  <2>4. RefreshPerms(c)
    BY <1>13, <2>3 DEF Expand
  <2>5. permGets' \subseteq GetsOfPerms /\ permAsks' \in Nat /\ permAstray' \in BOOLEAN
    BY <2>2, <2>4, SharedEffects
  <2> QED
    BY <1>13, <2>1, <2>2, <2>5 DEF Expand,
       roleClicks, getRoleVars, newRoleVars, delRoleVars, shownVars,
       getPermVars, permDlgVars, cardVars
<1>14. CASE Collapse
  <2>1. /\ card' = 0 /\ cardRole' \in AnyRole /\ permissions' \subseteq Perms
        /\ permDialog' = 0 /\ savingPerm' = FALSE
        /\ UNCHANGED <<permGets, permAsks, permAstray>>
    BY <1>0, <1>14, SharedEffects DEF Collapse
  <2> QED
    BY <1>14, <2>1 DEF Collapse,
       roleClicks, getRoleVars, newRoleVars, delRoleVars, shownVars,
       getPermVars, permDlgVars, cardVars
<1>15. CASE ServePerms
  <2>1. PICK g \in permGets :
           /\ g.role \in RolesDb
           /\ permGets' \subseteq permGets \cup
                 {[g EXCEPT !.at = "ok", !.perms = permsDb[g.role]]}
    BY <1>15 DEF ServePerms
  <2>3. [g EXCEPT !.at = "ok", !.perms = permsDb[g.role]] \in GetsOfPerms
    BY <2>1 DEF GetsOfPerms, Answers
  <2>4. permGets' \subseteq GetsOfPerms
    BY <2>1, <2>3
  <2> QED
    BY <1>15, <2>4 DEF ServePerms,
       roleClicks, getRoleVars, newRoleVars, delRoleVars, shownVars,
       getPermVars, permDlgVars, cardVars
<1>16. CASE PermsArrive
  <2>1. permGets' \subseteq GetsOfPerms /\ permissions' \subseteq Perms
    BY <1>16 DEF PermsArrive, GetsOfPerms, shownVars
  <2> QED
    BY <1>16, <2>1 DEF PermsArrive,
       roleClicks, getRoleVars, newRoleVars, delRoleVars, shownVars,
       getPermVars, permDlgVars, cardVars
<1>17. CASE RemovePermission
  <2>1. permPosts' \subseteq PostsOfPerms
    BY <1>17, PostPermEffect DEF RemovePermission
  <2>2. roleChanges' \in Nat /\ mounts' = mounts
    BY <1>17 DEF RemovePermission, Change
  <2> QED
    BY <1>17, <2>1, <2>2 DEF RemovePermission,
       roleClicks, getRoleVars, newRoleVars, delRoleVars, shownVars,
       getPermVars, permDlgVars, cardVars
<1>18. CASE OpenPermDialog
  <2>1. mounts' \in Nat /\ permDialog' \in Nat /\ roleChanges' = roleChanges
    BY <1>18 DEF OpenPermDialog, Mount
  <2> QED
    BY <1>18, <2>1 DEF OpenPermDialog,
       roleClicks, getRoleVars, newRoleVars, delRoleVars, shownVars,
       getPermVars, permDlgVars, cardVars
<1>19. CASE ClosePermDialog
  BY <1>19 DEF ClosePermDialog,
     roleClicks, getRoleVars, newRoleVars, delRoleVars, shownVars,
       getPermVars, permDlgVars, cardVars
<1>20. CASE SavePermission
  <2>1. permPosts' \subseteq PostsOfPerms
    BY <1>20, PostPermEffect DEF SavePermission
  <2> QED
    BY <1>20, <2>1 DEF SavePermission,
       roleClicks, getRoleVars, newRoleVars, delRoleVars, shownVars,
       getPermVars, permDlgVars, cardVars
<1>21. CASE ServePermPost
  <2>1. PICK p \in permPosts :
           /\ permPosts' \subseteq permPosts \cup {[p EXCEPT !.at = "ok"], [p EXCEPT !.at = "error"]}
           /\ \/ permsDb' = permsDb
              \/ permsDb' = [permsDb EXCEPT ![p.role] = @ \cup {p.perm}]
              \/ permsDb' = [permsDb EXCEPT ![p.role] = @ \ {p.perm}]
    BY <1>21 DEF ServePermPost
  <2>2. /\ [p EXCEPT !.at = "ok"] \in PostsOfPerms /\ [p EXCEPT !.at = "error"] \in PostsOfPerms
        /\ p.perm \in Perms
    BY DEF PostsOfPerms, Answers
  <2>3. permPosts' \subseteq PostsOfPerms
    BY <2>1, <2>2
  <2>4. RolesDb' = RolesDb
    BY <2>1
  <2>5. permsDb' \in [RolesDb -> SUBSET Perms]
    BY <2>1, <2>2
  <2> QED
    BY <1>21, <2>3, <2>4, <2>5 DEF ServePermPost,
       roleClicks, getRoleVars, newRoleVars, delRoleVars, shownVars,
       getPermVars, permDlgVars, cardVars
<1>22. CASE PermPostReturns
  <2>1. permPosts' \subseteq PostsOfPerms /\ permDialog' \in Nat
    BY <1>22 DEF PermPostReturns
  <2>2. UNCHANGED <<card, cardRole, shownVars>>
    BY <1>22 DEF PermPostReturns
  <2>3. savingPerm' \in BOOLEAN
    BY <1>22 DEF PermPostReturns, PermDialogDone
  <2>4. \/ RefreshPerms(card)
        \/ UNCHANGED <<permGets, permAsks>> /\ permAstray' \in BOOLEAN
    BY <1>22 DEF PermPostReturns
  <2>5. permGets' \subseteq GetsOfPerms /\ permAsks' \in Nat /\ permAstray' \in BOOLEAN
    <3>1. CASE RefreshPerms(card)
      BY <2>2, <3>1, SharedEffects
    <3>2. CASE UNCHANGED <<permGets, permAsks>> /\ permAstray' \in BOOLEAN
      BY <3>2
    <3> QED
      BY <2>4, <3>1, <3>2
  <2> QED
    BY <1>22, <2>1, <2>2, <2>3, <2>5 DEF PermPostReturns,
       roleClicks, getRoleVars, newRoleVars, delRoleVars, shownVars,
       getPermVars, permDlgVars, cardVars
<1>23. CASE UNCHANGED roleListVars
  BY <1>23 DEF roleListVars, roleClicks, getRoleVars, newRoleVars, delRoleVars, shownVars,
       getPermVars, permDlgVars, cardVars
<1> QED
  BY <1>1, <1>2, <1>3, <1>4, <1>5, <1>6, <1>7, <1>8, <1>9, <1>10, <1>11, <1>12, <1>13,
     <1>14, <1>15, <1>16, <1>17, <1>18, <1>19, <1>20, <1>21, <1>22, <1>23, <1>24, <1>25
  DEF RoleListNext

-----------------------------------------------------------------------------
(* The list of the roles.                                                  *)

LEMMA ListStep == ASSUME RoleShape, ListInv, [RoleListNext]_roleListVars PROVE ListInv'
<1> USE DEF RoleShape
<1>1. ASSUME UNCHANGED <<roles, roleGets, roleAstray>>, RolesDb' = RolesDb,
             \A c \in roleCreations : c.at = "ok" => c \in roleCreations',
             \A d \in roleDeletions : d.at = "ok" => d \in roleDeletions'
      PROVE  ListInv'
  BY <1>1 DEF ListInv
<1>2. ASSUME RefreshRoles PROVE ListInv'
  <2>1. PICK g \in GetsOfRoles : roleGets' = roleGets \cup {g} /\ g.done = FALSE
    BY <1>2, RefreshRolesEffect
  <2>2. ~roleAstray' => roleGets = {}
    BY <1>2, RefreshRolesEffect
  <2> QED
    BY <2>1, <2>2 DEF ListInv
<1>3. CASE ServeRoles
  <2>1. PICK g \in roleGets, h \in GetsOfRoles :
           roleGets' = (roleGets \ {g}) \cup {h} /\ h.roles = RolesDb
    <3>1. PICK g \in roleGets :
             roleGets' = (roleGets \ {g}) \cup {[g EXCEPT !.done = TRUE, !.roles = RolesDb]}
      BY <1>3 DEF ServeRoles
    <3>2. /\ [g EXCEPT !.done = TRUE, !.roles = RolesDb] \in GetsOfRoles
          /\ [g EXCEPT !.done = TRUE, !.roles = RolesDb].roles = RolesDb
      BY RoleRecords
    <3> QED
      BY <3>1, <3>2
  <2>2. UNCHANGED <<roles, roleAstray, permsDb, roleCreations, roleDeletions>>
    BY <1>3 DEF ServeRoles, newRoleVars, delRoleVars
  <2>3. \A k : roleGets = {k} => roleGets' = {h}
    BY <2>1
  <2> QED
    BY <2>1, <2>2, <2>3 DEF ListInv, RolesDb
<1>4. CASE RolesArrive
  <2>1. PICK g \in roleGets : roleGets' = roleGets \ {g} /\ roles' = g.roles /\ g.done
    BY <1>4 DEF RolesArrive
  <2>2. UNCHANGED <<roleAstray, permsDb, roleCreations, roleDeletions>>
    BY <1>4 DEF RolesArrive, newRoleVars, delRoleVars
  <2>3. \A k \in roleGets : roleGets = {k} => k = g /\ roleGets' = {}
    BY <2>1
  <2> QED
    BY <2>1, <2>2, <2>3 DEF ListInv, RolesDb
<1>14. ASSUME roleAstray' = TRUE PROVE ListInv'
  BY <1>14 DEF ListInv
<1>15. CASE RolesFail
  BY <1>14, <1>15 DEF RolesFail
<1>5. CASE SubmitRole
  BY <1>1, <1>5 DEF SubmitRole, RolesDb, getRoleVars, delRoleVars
<1>6. CASE ServeCreateRole
  <2>1. PICK c \in roleCreations :
           /\ c.at = "sent"
           /\ \/ /\ roleCreations' = (roleCreations \ {c}) \cup {[c EXCEPT !.at = "ok"]}
                 /\ c.role \notin RolesDb
              \/ /\ roleCreations' = (roleCreations \ {c}) \cup {[c EXCEPT !.at = "error"]}
                 /\ permsDb' = permsDb
    BY <1>6 DEF ServeCreateRole
  <2>2. UNCHANGED <<roles, roleGets, roleAstray, roleDeletions>>
    BY <1>6 DEF ServeCreateRole, getRoleVars, delRoleVars
  <2>3. CASE permsDb' = permsDb
    <3>1. RolesDb' = RolesDb
      BY <2>3 DEF RolesDb
    <3>2. \A k \in roleCreations : k.at = "ok" => k \in roleCreations'
      BY <2>1
    <3> QED
      BY <1>1, <2>2, <3>1, <3>2
  <2>4. CASE permsDb' # permsDb
    <3>1. [c EXCEPT !.at = "ok"].at = "ok"
      BY DEF NewRoles
    <3> QED
      BY <2>1, <2>4, <3>1 DEF ListInv
  <2> QED
    BY <2>3, <2>4
<1>7. CASE RoleCreated
  <2>1. PICK c \in roleCreations :
           /\ roleCreations' = roleCreations \ {c}
           /\ \/ RefreshRoles
              \/ roleAstray' = TRUE
              \/ c.at # "ok" /\ UNCHANGED <<getRoleVars, cardVars>>
    BY <1>7 DEF RoleCreated, AfterRoleChange, LoseRoleChange
  <2>2. UNCHANGED <<permsDb, roleDeletions>>
    BY <1>7 DEF RoleCreated, delRoleVars
  <2> QED
    BY <1>1, <1>2, <1>14, <2>1, <2>2 DEF getRoleVars, RolesDb
<1>8. CASE ConfirmDeleteRole
  BY <1>1, <1>8 DEF ConfirmDeleteRole, RolesDb, getRoleVars, newRoleVars
<1>9. CASE ServeDeleteRole
  <2>1. PICK d \in roleDeletions :
           /\ d.at = "sent"
           /\ \/ roleDeletions' = (roleDeletions \ {d}) \cup {[d EXCEPT !.at = "ok"]}
              \/ /\ roleDeletions' = (roleDeletions \ {d}) \cup {[d EXCEPT !.at = "error"]}
                 /\ permsDb' = permsDb
    BY <1>9 DEF ServeDeleteRole
  <2>2. UNCHANGED <<roles, roleGets, roleAstray, roleCreations>>
    BY <1>9 DEF ServeDeleteRole, getRoleVars, newRoleVars
  <2>3. CASE permsDb' = permsDb
    <3>1. RolesDb' = RolesDb
      BY <2>3 DEF RolesDb
    <3>2. \A k \in roleDeletions : k.at = "ok" => k \in roleDeletions'
      BY <2>1
    <3> QED
      BY <1>1, <2>2, <3>1, <3>2
  <2>4. CASE permsDb' # permsDb
    <3>1. [d EXCEPT !.at = "ok"].at = "ok"
      BY DEF GoneRoles
    <3> QED
      BY <2>1, <2>4, <3>1 DEF ListInv
  <2> QED
    BY <2>3, <2>4
<1>10. CASE RoleDeleted
  <2>1. PICK d \in roleDeletions :
           /\ roleDeletions' = roleDeletions \ {d}
           /\ \/ RefreshRoles
              \/ roleAstray' = TRUE
              \/ d.at # "ok" /\ UNCHANGED <<getRoleVars, cardVars>>
    BY <1>10 DEF RoleDeleted, AfterRoleChange, LoseRoleChange
  <2>2. UNCHANGED <<permsDb, roleCreations>>
    BY <1>10 DEF RoleDeleted, newRoleVars
  <2> QED
    BY <1>1, <1>2, <1>14, <2>1, <2>2 DEF getRoleVars, RolesDb
<1>11. CASE ServePermPost
  <2>1. RolesDb' = RolesDb
    BY <1>11 DEF ServePermPost, RolesDb
  <2> QED
    BY <1>1, <1>11, <2>1 DEF ServePermPost, getRoleVars, newRoleVars, delRoleVars
<1>12. CASE \/ OpenRoleDialog \/ CloseRoleDialog \/ DeleteRoleClick \/ CloseDeleteRole
            \/ UNCHANGED roleListVars
  BY <1>1, <1>12 DEF OpenRoleDialog, CloseRoleDialog, DeleteRoleClick, CloseDeleteRole, roleListVars,
     RolesDb, getRoleVars, newRoleVars, delRoleVars
<1>13. CASE \/ Expand \/ Collapse \/ ServePerms \/ PermsArrive \/ PermsFail \/ RemovePermission
            \/ OpenPermDialog \/ ClosePermDialog \/ SavePermission \/ PermPostReturns
  BY <1>1, <1>13 DEF Expand, Collapse, ServePerms, PermsArrive, PermsFail, RemovePermission,
     OpenPermDialog, ClosePermDialog, SavePermission, PermPostReturns, RolesDb, getRoleVars,
     newRoleVars, delRoleVars
<1> QED
  BY <1>3, <1>4, <1>5, <1>6, <1>7, <1>8, <1>9, <1>10, <1>11, <1>12, <1>13, <1>15 DEF RoleListNext

-----------------------------------------------------------------------------
(* The two dialogs that lock themselves.                                   *)

LEMMA RoleDialogsStep ==
    ASSUME RoleShape, NoStuckDeleteRole, NoStuckPermission, [RoleListNext]_roleListVars
    PROVE  NoStuckDeleteRole' /\ NoStuckPermission'
<1> USE DEF RoleShape
<1>1. NoStuckDeleteRole'
  <2>1. ASSUME selectedDeleteRole' = selectedDeleteRole, deletingRole' = deletingRole,
               roleDeletions # {} => roleDeletions' # {}
        PROVE  NoStuckDeleteRole'
    BY <2>1 DEF NoStuckDeleteRole
  <2>2. CASE DeleteRoleClick
    BY <2>2 DEF DeleteRoleClick, NotDeletingRole, NoStuckDeleteRole
  <2>3. CASE CloseDeleteRole \/ RoleDeleted
    BY <2>3 DEF CloseDeleteRole, RoleDeleted, NoStuckDeleteRole
  <2>4. CASE ConfirmDeleteRole
    BY <2>4 DEF ConfirmDeleteRole, NoStuckDeleteRole
  <2>5. CASE ServeDeleteRole
    BY <2>1, <2>5 DEF ServeDeleteRole
  <2>6. CASE \/ ServeRoles \/ RolesArrive \/ RolesFail \/ OpenRoleDialog \/ CloseRoleDialog
             \/ SubmitRole \/ ServeCreateRole \/ RoleCreated \/ UNCHANGED roleListVars
    BY <2>1, <2>6 DEF ServeRoles, RolesArrive, RolesFail, OpenRoleDialog, CloseRoleDialog, SubmitRole,
       ServeCreateRole, RoleCreated, roleListVars, delRoleVars
  <2>7. CASE \/ Expand \/ Collapse \/ ServePerms \/ PermsArrive \/ PermsFail
             \/ RemovePermission \/ OpenPermDialog \/ ClosePermDialog \/ SavePermission \/ ServePermPost
             \/ PermPostReturns
    BY <2>1, <2>7 DEF Expand, Collapse, ServePerms, PermsArrive, PermsFail, RemovePermission,
       OpenPermDialog, ClosePermDialog, SavePermission, ServePermPost, PermPostReturns, delRoleVars
  <2> QED
    BY <2>2, <2>3, <2>4, <2>5, <2>6, <2>7 DEF RoleListNext
<1>2. NoStuckPermission'
  <2>1. ASSUME savingPerm' = savingPerm, permDialog' = permDialog,
               \A p \in permPosts : \E q \in permPosts' : q.dialog = p.dialog
        PROVE  NoStuckPermission'
    BY <2>1 DEF NoStuckPermission
  <2>2. ASSUME savingPerm' = FALSE PROVE NoStuckPermission'
    BY <2>2 DEF NoStuckPermission
  <2>3. ASSUME UnmountCard \/ UNCHANGED permDlgVars, UNCHANGED permPosts PROVE NoStuckPermission'
    BY <2>1, <2>2, <2>3 DEF UnmountCard, permDlgVars
  <2>4. ASSUME RefreshRoles, UNCHANGED permPosts PROVE NoStuckPermission'
    BY <2>3, <2>4, RefreshRolesEffect DEF cardVars
  <2>5. CASE RoleCreated \/ RoleDeleted
    <3>1. RefreshRoles \/ UNCHANGED permDlgVars
      BY <2>5 DEF RoleCreated, RoleDeleted, AfterRoleChange, LoseRoleChange, cardVars
    <3> QED
      BY <2>3, <2>4, <2>5, <3>1 DEF RoleCreated, RoleDeleted
  <2>6. CASE \/ ServeRoles \/ RolesArrive \/ RolesFail \/ OpenRoleDialog \/ CloseRoleDialog
             \/ SubmitRole \/ ServeCreateRole
    BY <2>3, <2>6 DEF ServeRoles, RolesArrive, RolesFail, OpenRoleDialog, CloseRoleDialog, SubmitRole,
       ServeCreateRole, cardVars
  <2>7. CASE DeleteRoleClick \/ CloseDeleteRole \/ ConfirmDeleteRole \/ ServeDeleteRole
    BY <2>3, <2>7 DEF DeleteRoleClick, CloseDeleteRole, ConfirmDeleteRole, ServeDeleteRole, cardVars
  <2>8. CASE Expand \/ Collapse \/ ServePerms \/ PermsArrive \/ PermsFail \/ UNCHANGED roleListVars
    BY <2>3, <2>8 DEF Expand, Collapse, ServePerms, PermsArrive, PermsFail, roleListVars, cardVars
  <2>9. CASE OpenPermDialog \/ ClosePermDialog
    BY <2>2, <2>9 DEF OpenPermDialog, ClosePermDialog
  <2>10. CASE RemovePermission
    <3>1. permPosts \subseteq permPosts'
      BY <2>10 DEF RemovePermission, PostPerm
    <3>2. UNCHANGED permDlgVars
      BY <2>10 DEF RemovePermission, cardVars
    <3> QED
      BY <2>1, <3>1, <3>2 DEF permDlgVars
  <2>11. CASE SavePermission
    <3>1. PICK p \in Perms : PostPerm("add", p, permDialog)
      BY <2>11 DEF SavePermission
    <3>2. \E q \in permPosts' : q.dialog = permDialog
      BY <3>1, PostPermEffect
    <3>3. permDialog' = permDialog
      BY <2>11 DEF SavePermission
    <3> QED
      BY <3>2, <3>3 DEF NoStuckPermission
  <2>12. CASE ServePermPost
    <3>1. PICK p, q :
             /\ p \in permPosts /\ permPosts' = (permPosts \ {p}) \cup {q}
             /\ q = [p EXCEPT !.at = "ok"] \/ q = [p EXCEPT !.at = "error"]
      BY <2>12 DEF ServePermPost
    <3>2. q.dialog = p.dialog
      BY <3>1 DEF PostsOfPerms
    <3> QED
      BY <2>1, <2>12, <3>1, <3>2 DEF ServePermPost, cardVars, permDlgVars
  <2>13. CASE PermPostReturns
    <3>1. PICK p \in permPosts :
             /\ permPosts' = permPosts \ {p}
             /\ savingPerm' = (savingPerm /\ p.dialog # permDialog)
             /\ \/ permDialog' = permDialog
                \/ p.dialog = permDialog
      BY <2>13 DEF PermPostReturns, PermDialogDone
    <3>2. CASE p.dialog = permDialog
      <4>1. savingPerm' = FALSE
        BY <3>1, <3>2
      <4> QED
        BY <2>2, <4>1
    <3>3. CASE p.dialog # permDialog
      <4>1. permDialog' = permDialog /\ (savingPerm' => savingPerm)
        BY <3>1, <3>3
      <4> QED
        BY <3>1, <3>3, <4>1 DEF NoStuckPermission
    <3> QED
      BY <3>2, <3>3
  <2> QED
    BY <2>5, <2>6, <2>7, <2>8, <2>9, <2>10, <2>11, <2>12, <2>13 DEF RoleListNext
<1> QED
  BY <1>1, <1>2

-----------------------------------------------------------------------------
(* The card of the permissions.                                            *)

LEMMA RefreshPermsEffect ==
    ASSUME RoleShape, NEW c \in Nat, RefreshPerms(c), cardRole' \in AnyRole
    PROVE  /\ \E g \in GetsOfPerms : /\ permGets' = permGets \cup {g} /\ g.at = "sent"
                                     /\ g.card = c /\ g.role = cardRole'
           /\ ~permAstray' => \A g \in permGets : g.card # c
<1> USE DEF RoleShape
<1>1. PICK n \in Nat, r \in AnyRole : n = permAsks + 1 /\ r = cardRole'
  OBVIOUS
<1>2. PICK g : g = [n |-> n, card |-> c, role |-> r, at |-> "sent", perms |-> {}]
  OBVIOUS
<1>3. g \in GetsOfPerms /\ g.at = "sent" /\ g.card = c /\ g.role = r
  BY <1>2 DEF GetsOfPerms, Answers
<1>4. permGets' = permGets \cup {g}
  BY <1>1, <1>2 DEF RefreshPerms
<1>5. ~permAstray' => \A h \in permGets : h.card # c
  BY DEF RefreshPerms
<1> QED
  BY <1>1, <1>3, <1>4, <1>5

\* An answer of the server belongs to the request it answers.
LEMMA ServePermsEffect ==
    ASSUME RoleShape, ServePerms
    PROVE  \E g \in permGets, h \in GetsOfPerms :
              /\ permGets' = (permGets \ {g}) \cup {h} /\ g.at = "sent"
              /\ h.card = g.card /\ h.role = g.role
              /\ h.at = "ok" /\ g.role \in RolesDb /\ h.perms = permsDb[g.role]
<1> USE DEF RoleShape
<1>1. PICK g \in permGets :
         /\ g.at = "sent" /\ g.role \in RolesDb
         /\ permGets' = (permGets \ {g}) \cup {[g EXCEPT !.at = "ok", !.perms = permsDb[g.role]]}
  BY DEF ServePerms
<1>2. PICK h : h = [g EXCEPT !.at = "ok", !.perms = permsDb[g.role]]
  OBVIOUS
<1>3. /\ h \in GetsOfPerms /\ h.card = g.card /\ h.role = g.role
      /\ h.at = "ok" /\ h.perms = permsDb[g.role]
  BY <1>1, <1>2 DEF GetsOfPerms, Answers
<1>4. permGets' = (permGets \ {g}) \cup {h}
  BY <1>1, <1>2
<1> QED
  BY <1>1, <1>3, <1>4

LEMMA CardIdsStep == ASSUME RoleShape, CardIds, [RoleListNext]_roleListVars PROVE CardIds'
<1> USE DEF RoleShape
<1>1. ASSUME UNCHANGED <<card, cardRole, loadingRoles, permGets, permissionsOf>>,
             permDialog' # 0 => card # 0,
             mounts' \in Nat, mounts <= mounts', \A p \in permPosts' : p.card # 0
      PROVE  CardIds'
  <2>1. card' <= mounts'
    BY <1>1 DEF CardIds
  <2>2. \A g \in permGets : g.card <= mounts'
    BY <1>1 DEF CardIds, GetsOfPerms
  <2> QED
    BY <1>1, <2>1, <2>2 DEF CardIds, PermissionsOfRole
<1>2. ASSUME UnmountCard, UNCHANGED <<mounts, permPosts>> PROVE CardIds'
  BY <1>2 DEF CardIds, PermissionsOfRole, UnmountCard, getPermVars
<1>3. ASSUME UNCHANGED <<card, cardRole, permissionsOf, mounts>>, RefreshPerms(card), card # 0,
             permDialog' \in {0, permDialog}, ~loadingRoles', permPosts' \subseteq permPosts
      PROVE  CardIds'
  <2>1. PICK g \in GetsOfPerms : /\ permGets' = permGets \cup {g}
                                 /\ g.card = card /\ g.role = cardRole'
    BY <1>3, RefreshPermsEffect
  <2> QED
    BY <1>3, <2>1 DEF CardIds, PermissionsOfRole
<1>4. ASSUME RefreshRoles, UNCHANGED <<mounts, permPosts>> PROVE CardIds'
  <2>1. CASE ~loadingRoles
    BY <1>2, <1>4, <2>1, RefreshRolesEffect
  <2>2. CASE loadingRoles
    <3>1. UNCHANGED cardVars /\ card = 0
      BY <1>4, <2>2, RefreshRolesEffect DEF CardIds
    <3> QED
      BY <1>4, <3>1 DEF CardIds, PermissionsOfRole, cardVars, shownVars, getPermVars, permDlgVars
  <2> QED
    BY <2>1, <2>2
<1>5. CASE \/ ServeRoles \/ CloseRoleDialog \/ SubmitRole \/ ServeCreateRole
           \/ UNCHANGED roleListVars
  <2>1. UNCHANGED <<cardVars, mounts, permPosts, loadingRoles>>
    BY <1>5 DEF ServeRoles, CloseRoleDialog, SubmitRole, ServeCreateRole, roleListVars,
       roleClicks, getRoleVars
  <2> QED
    BY <1>1, <2>1 DEF CardIds, cardVars, shownVars, getPermVars, permDlgVars
<1>6. CASE DeleteRoleClick \/ CloseDeleteRole \/ ConfirmDeleteRole \/ ServeDeleteRole
  BY <1>1, <1>6 DEF CardIds, DeleteRoleClick, CloseDeleteRole, ConfirmDeleteRole, ServeDeleteRole,
     cardVars, shownVars, getPermVars, permDlgVars, roleClicks, getRoleVars, Change
<1>7. CASE OpenRoleDialog
  BY <1>1, <1>7 DEF CardIds, OpenRoleDialog, Mount, cardVars, shownVars, getPermVars, permDlgVars,
     getRoleVars
<1>8. CASE RolesArrive
  <2>1. loadingRoles' = FALSE /\ UNCHANGED <<mounts, permPosts>>
    BY <1>8 DEF RolesArrive, roleClicks
  <2>2. \/ UnmountCard
        \/ /\ UNCHANGED <<card, cardRole, shownVars, permDlgVars>>
           /\ RefreshPerms(card) /\ card # 0
    BY <1>8 DEF RolesArrive
  <2> QED
    BY <1>2, <1>3, <2>1, <2>2 DEF shownVars, permDlgVars
<1>21. CASE RolesFail
  <2>1. UNCHANGED <<cardVars, mounts, permPosts>> /\ loadingRoles' = FALSE
    BY <1>21 DEF RolesFail, roleClicks
  <2> QED
    BY <2>1 DEF CardIds, PermissionsOfRole, cardVars, shownVars, getPermVars, permDlgVars
<1>22. CASE PermsFail
  <2>1. permGets' \subseteq permGets
    BY <1>22 DEF PermsFail
  <2> QED
    BY <1>22, <2>1 DEF PermsFail, CardIds, PermissionsOfRole, shownVars, permDlgVars, getRoleVars,
       roleClicks
<1>9. CASE RoleCreated
  BY <1>1, <1>4, <1>9 DEF CardIds, RoleCreated, AfterRoleChange, LoseRoleChange, getRoleVars, cardVars, shownVars, getPermVars, permDlgVars,
     roleClicks
<1>10. CASE RoleDeleted
  BY <1>1, <1>4, <1>10 DEF CardIds, RoleDeleted, AfterRoleChange, LoseRoleChange, getRoleVars, cardVars, shownVars, getPermVars, permDlgVars,
     roleClicks
<1>11. CASE Expand
  <2>1. mounts' = mounts + 1 /\ card' = mounts + 1 /\ cardRole' \in AnyRole
    BY <1>11 DEF Expand, Mount, AnyRole
  <2>2. PICK c \in Nat : c = card'
    BY <2>1
  <2>3. PICK g \in GetsOfPerms : permGets' = permGets \cup {g} /\ g.card = c /\ g.role = cardRole'
    BY <1>11, <2>1, <2>2, RefreshPermsEffect DEF Expand
  <2>4. /\ ~loadingRoles' /\ permissionsOf' = NoRole /\ UNCHANGED <<permDialog, permPosts>>
    BY <1>11 DEF Expand, getRoleVars, permDlgVars
  <2>5. \A h \in permGets : h.card # card' /\ h.card <= mounts' /\ h.card # 0
    BY <2>1 DEF CardIds, GetsOfPerms
  <2>6. card' # 0 /\ card' <= mounts'
    BY <2>1
  <2>7. \A h \in permGets' : h.card # 0 /\ h.card <= mounts' /\ (h.card = card' => h.role = cardRole')
    BY <2>2, <2>3, <2>5, <2>6
  <2> QED
    BY <2>4, <2>6, <2>7 DEF CardIds, PermissionsOfRole
<1>12. CASE Collapse
  BY <1>2, <1>12 DEF Collapse, roleClicks
<1>13. CASE ServePerms
  <2>1. PICK g \in permGets, h \in GetsOfPerms :
           permGets' = (permGets \ {g}) \cup {h} /\ h.card = g.card /\ h.role = g.role
    BY <1>13, ServePermsEffect
  <2>2. UNCHANGED <<card, cardRole, permDialog, loadingRoles, permissionsOf, mounts, permPosts>>
    BY <1>13 DEF ServePerms, shownVars, permDlgVars, getRoleVars, roleClicks
  <2> QED
    BY <2>1, <2>2 DEF CardIds, PermissionsOfRole
<1>14. CASE PermsArrive
  <2>1. PICK g \in permGets : /\ permGets' = permGets \ {g}
                              /\ permissionsOf' # permissionsOf => permissionsOf' = g.role /\ g.card = card
    BY <1>14 DEF PermsArrive, SameCard, shownVars
  <2>2. UNCHANGED <<card, cardRole, permDialog, loadingRoles, mounts, permPosts>>
    BY <1>14 DEF PermsArrive, permDlgVars, getRoleVars, roleClicks
  <2> QED
    BY <2>1, <2>2 DEF CardIds, PermissionsOfRole
<1>15. CASE RemovePermission
  <2>1. \A p \in permPosts' : p.card # 0
    BY <1>15, PostPermEffect DEF RemovePermission, CardIds
  <2> QED
    BY <1>1, <1>15, <2>1 DEF RemovePermission, Change, getRoleVars, cardVars, shownVars, getPermVars,
       permDlgVars
<1>16. CASE OpenPermDialog
  <2>1. card # 0 /\ mounts' \in Nat /\ mounts <= mounts'
    BY <1>16 DEF OpenPermDialog, Mount
  <2>2. UNCHANGED <<card, cardRole, loadingRoles, permGets, permissionsOf, permPosts>>
    BY <1>16 DEF OpenPermDialog, shownVars, getPermVars, getRoleVars
  <2> QED
    BY <1>1, <2>1, <2>2 DEF CardIds
<1>17. CASE ClosePermDialog
  BY <1>17 DEF ClosePermDialog, CardIds, PermissionsOfRole, shownVars, getPermVars, getRoleVars, roleClicks
<1>18. CASE SavePermission
  <2>1. \A p \in permPosts' : p.card # 0
    BY <1>18, PostPermEffect DEF SavePermission, CardIds
  <2> QED
    BY <1>1, <1>18, <2>1 DEF CardIds, SavePermission, getRoleVars, shownVars, getPermVars, roleClicks
<1>19. CASE ServePermPost
  <2>1. \A p \in permPosts' : p.card # 0
    <3>1. PICK p, q :
             /\ p \in permPosts /\ permPosts' = (permPosts \ {p}) \cup {q}
             /\ q = [p EXCEPT !.at = "ok"] \/ q = [p EXCEPT !.at = "error"]
      BY <1>19 DEF ServePermPost
    <3>2. q.card = p.card
      BY <3>1 DEF PostsOfPerms
    <3> QED
      BY <3>1, <3>2 DEF CardIds
  <2> QED
    BY <1>1, <1>19, <2>1 DEF CardIds, ServePermPost, getRoleVars, cardVars, shownVars, getPermVars,
       permDlgVars, roleClicks
<1>20. CASE PermPostReturns
  <2>1. PICK p \in permPosts :
           /\ permPosts' = permPosts \ {p}
           /\ \/ p.card = card /\ RefreshPerms(p.card)
              \/ UNCHANGED permGets
    BY <1>20 DEF PermPostReturns
  <2>2. permDialog' \in {0, permDialog}
    BY <1>20 DEF PermPostReturns
  <2>3. UNCHANGED <<card, cardRole, permissionsOf, loadingRoles, mounts>>
    BY <1>20 DEF PermPostReturns, shownVars, getRoleVars, roleClicks
  <2>4. CASE p.card = card /\ RefreshPerms(p.card)
    <3>1. card # 0 /\ ~loadingRoles'
      BY <2>3, <2>4 DEF CardIds
    <3> QED
      BY <1>3, <2>1, <2>2, <2>3, <2>4, <3>1
  <2>5. CASE UNCHANGED permGets
    BY <2>1, <2>2, <2>3, <2>5 DEF CardIds, PermissionsOfRole
  <2> QED
    BY <2>1, <2>4, <2>5
<1> QED
  BY <1>5, <1>6, <1>7, <1>8, <1>9, <1>10, <1>11, <1>12, <1>13, <1>14, <1>15, <1>16, <1>17, <1>18,
     <1>19, <1>20, <1>21, <1>22 DEF RoleListNext

\* What a card lists follows its role, through every answer and every change.
LEMMA CardStep == ASSUME RoleShape, CardIds, CardInv, [RoleListNext]_roleListVars PROVE CardInv'
<1> USE DEF RoleShape
<1>1. ASSUME UNCHANGED <<card, cardRole, permissions, permGets, permAstray>>,
             \A p \in permPosts : p.at = "ok" => p \in permPosts',
             \A d \in roleDeletions : d.at = "ok" => d \in roleDeletions',
             cardRole \in RolesDb <=> cardRole \in RolesDb',
             cardRole \in RolesDb => permsDb'[cardRole] = permsDb[cardRole]
      PROVE  CardInv'
  <2>1. OwnGets' = OwnGets
    BY <1>1 DEF OwnGets
  <2>2. Doomed => Doomed'
    BY <1>1 DEF Doomed
  <2>3. Changed => Changed'
    BY <1>1 DEF Changed
  <2>4. (Current => Current') /\ (Asking => Asking')
    BY <1>1, <2>1 DEF Current, Asking
  <2> QED
    BY <1>1, <2>1, <2>2, <2>3, <2>4 DEF CardInv
<1>2. ASSUME UNCHANGED <<cardVars, permsDb, permPosts>>,
             \A d \in roleDeletions : d.at = "ok" => d \in roleDeletions'
      PROVE  CardInv'
  BY <1>1, <1>2 DEF cardVars, shownVars, getPermVars, RolesDb
<1>3. ASSUME UNCHANGED <<card, cardRole, permissions, permsDb, roleDeletions>>, RefreshPerms(card)
      PROVE  CardInv'
  <2>1. PICK g \in GetsOfPerms : permGets' = permGets \cup {g} /\ g.at = "sent" /\ g.card = card
    BY <1>3, RefreshPermsEffect
  <2>2. ~permAstray' => OwnGets = {}
    BY <1>3, RefreshPermsEffect DEF OwnGets
  <2>3. OwnGets' = OwnGets \cup {g}
    BY <1>3, <2>1 DEF OwnGets
  <2>4. ~permAstray' => OwnGets' = {g}
    BY <2>2, <2>3
  <2> QED
    BY <2>1, <2>4 DEF CardInv, Asking
<1>4. ASSUME card' = 0 \/ permAstray' PROVE CardInv'
  BY <1>4 DEF CardInv
<1>5. ASSUME RefreshRoles PROVE CardInv'
  <2>1. card' = 0
    <3>1. CASE loadingRoles
      BY <1>5, <3>1, RefreshRolesEffect DEF CardIds, cardVars
    <3>2. CASE ~loadingRoles
      BY <1>5, <3>2, RefreshRolesEffect DEF UnmountCard
    <3> QED
      BY <3>1, <3>2
  <2> QED
    BY <1>4, <2>1
<1>6. CASE \/ ServeRoles \/ RolesFail \/ OpenRoleDialog \/ CloseRoleDialog \/ SubmitRole
           \/ UNCHANGED roleListVars
  BY <1>2, <1>6 DEF ServeRoles, RolesFail, OpenRoleDialog, CloseRoleDialog, SubmitRole, roleListVars,
     delRoleVars
<1>7. CASE DeleteRoleClick \/ CloseDeleteRole \/ ConfirmDeleteRole
  BY <1>2, <1>7 DEF DeleteRoleClick, CloseDeleteRole, ConfirmDeleteRole
<1>8. CASE RolesArrive
  <2>1. UNCHANGED <<permsDb, roleDeletions>>
    BY <1>8 DEF RolesArrive, delRoleVars
  <2>2. \/ UnmountCard
        \/ UNCHANGED <<card, cardRole, shownVars>> /\ RefreshPerms(card)
    BY <1>8 DEF RolesArrive
  <2> QED
    BY <1>3, <1>4, <2>1, <2>2 DEF UnmountCard, shownVars
<1>9. CASE RoleCreated
  BY <1>2, <1>4, <1>5, <1>9 DEF RoleCreated, AfterRoleChange, LoseRoleChange, delRoleVars
<1>10. CASE RoleDeleted
  <2>1. PICK d \in roleDeletions :
           /\ roleDeletions' = roleDeletions \ {d}
           /\ \/ RefreshRoles
              \/ permAstray' = TRUE
              \/ d.at # "ok" /\ UNCHANGED <<getRoleVars, cardVars>>
    BY <1>10 DEF RoleDeleted, AfterRoleChange, LoseRoleChange
  <2>2. UNCHANGED <<permsDb, permPosts>>
    BY <1>10 DEF RoleDeleted
  <2> QED
    BY <1>2, <1>4, <1>5, <2>1, <2>2
<1>11. CASE ServeCreateRole
  <2>1. PICK c \in roleCreations :
           \/ permsDb' = permsDb
           \/ permsDb' = [r \in RolesDb \cup {c.role} |-> IF r \in RolesDb THEN permsDb[r] ELSE {}]
    BY <1>11 DEF ServeCreateRole
  <2>2. UNCHANGED <<card, cardRole, permissions, permGets, permAstray, permPosts, roleDeletions>>
    BY <1>11 DEF ServeCreateRole, delRoleVars, cardVars, shownVars, getPermVars
  <2>3. cardRole \in RolesDb => cardRole \in RolesDb' /\ permsDb'[cardRole] = permsDb[cardRole]
    BY <2>1 DEF RolesDb
  <2>4. OwnGets' = OwnGets
    BY <2>2 DEF OwnGets
  <2>5. (Doomed => Doomed') /\ (Changed => Changed')
    BY <2>2 DEF Doomed, Changed
  <2>6. (Current => Current') /\ (Asking => Asking')
    BY <2>2, <2>3, <2>4 DEF Current, Asking
  <2> QED
    BY <2>2, <2>4, <2>5, <2>6 DEF CardInv
<1>12. CASE ServeDeleteRole
  <2>1. PICK d \in roleDeletions :
           /\ d.at = "sent"
           /\ \/ /\ permsDb' = [r \in RolesDb \ {d.role} |-> permsDb[r]]
                 /\ roleDeletions' = (roleDeletions \ {d}) \cup {[d EXCEPT !.at = "ok"]}
              \/ /\ permsDb' = permsDb
                 /\ roleDeletions' = (roleDeletions \ {d}) \cup {[d EXCEPT !.at = "error"]}
    BY <1>12 DEF ServeDeleteRole
  <2>2. UNCHANGED <<cardVars, permPosts>>
    BY <1>12 DEF ServeDeleteRole
  <2>3. UNCHANGED <<card, cardRole, permissions, permGets, permAstray>>
    BY <2>2 DEF cardVars, shownVars, getPermVars
  <2>4. CASE permsDb' = permsDb \/ cardRole # d.role
    <3>1. /\ cardRole \in RolesDb <=> cardRole \in RolesDb'
          /\ cardRole \in RolesDb => permsDb'[cardRole] = permsDb[cardRole]
      BY <2>1, <2>4 DEF RolesDb
    <3>2. \A k \in roleDeletions : k.at = "ok" => k \in roleDeletions'
      BY <2>1
    <3> QED
      BY <1>1, <2>2, <2>3, <3>1, <3>2
  <2>5. CASE permsDb' # permsDb /\ cardRole = d.role
    <3>1. PICK k : k = [d EXCEPT !.at = "ok"]
      OBVIOUS
    <3>2. k.at = "ok" /\ k.role = d.role
      BY <3>1 DEF GoneRoles
    <3>3. k \in roleDeletions'
      BY <2>1, <2>5, <3>1
    <3>4. Doomed'
      BY <2>3, <2>5, <3>2, <3>3 DEF Doomed
    <3> QED
      BY <2>3, <3>4 DEF CardInv, OwnGets
  <2> QED
    BY <2>4, <2>5
<1>13. CASE Expand
  <2>1. /\ card' = mounts + 1 /\ cardRole' \in AnyRole /\ permissions' = {} /\ permsDb' = permsDb
    BY <1>13 DEF Expand, AnyRole
  <2>2. PICK c \in Nat : c = card'
    BY <2>1
  <2>3. PICK g \in GetsOfPerms : permGets' = permGets \cup {g} /\ g.at = "sent" /\ g.card = c
    BY <1>13, <2>1, <2>2, RefreshPermsEffect DEF Expand
  <2>4. \A h \in permGets : h.card # card'
    BY <2>1 DEF CardIds, GetsOfPerms
  <2>5. OwnGets' = {g}
    BY <2>2, <2>3, <2>4 DEF OwnGets
  <2>6. Asking'
    BY <2>3, <2>5 DEF Asking
  <2> QED
    BY <2>5, <2>6 DEF CardInv
<1>14. CASE Collapse
  BY <1>4, <1>14 DEF Collapse, UnmountCard
<1>15. CASE ServePerms
  <2>1. PICK g \in permGets, h \in GetsOfPerms :
              /\ permGets' = (permGets \ {g}) \cup {h} /\ g.at = "sent"
              /\ h.card = g.card /\ h.role = g.role
              /\ h.at = "ok" /\ g.role \in RolesDb /\ h.perms = permsDb[g.role]
    BY <1>15, ServePermsEffect
  <2>2. UNCHANGED <<card, cardRole, permissions, permAstray, permsDb, permPosts, roleDeletions>>
    BY <1>15 DEF ServePerms, shownVars, getPermVars, delRoleVars
  <2>3. (Doomed => Doomed') /\ (Changed => Changed')
    BY <2>2 DEF Doomed, Changed
  <2>4. CASE g.card # card
    <3>1. OwnGets' = OwnGets
      BY <2>1, <2>2, <2>4 DEF OwnGets
    <3> QED
      BY <2>2, <2>3, <3>1 DEF CardInv, Current, Asking, RolesDb
  <2>5. CASE g.card = card
    <3>1. OwnGets' = (OwnGets \ {g}) \cup {h} /\ g \in OwnGets /\ g.role = cardRole
      BY <2>1, <2>2, <2>5 DEF OwnGets, CardIds
    <3>2. \A k : OwnGets = {k} => OwnGets' = {h}
      BY <3>1
    <3>3. card' # 0 /\ ~permAstray' => OwnGets' = {h}
      BY <2>2, <3>1, <3>2 DEF CardInv
    <3>4. cardRole' \in RolesDb' /\ h.perms = permsDb'[cardRole']
      BY <2>1, <2>2, <3>1 DEF RolesDb
    <3> QED
      BY <3>3, <3>4 DEF CardInv, Asking
  <2> QED
    BY <2>4, <2>5
<1>16. CASE PermsArrive
  <2>1. PICK g \in permGets :
           /\ g.at = "ok" /\ permGets' = permGets \ {g}
           /\ IF g.card = card THEN permissions' = g.perms ELSE permissions' = permissions
    BY <1>16 DEF PermsArrive, SameCard, shownVars
  <2>2. UNCHANGED <<card, cardRole, permAstray, permsDb, permPosts, roleDeletions>>
    BY <1>16 DEF PermsArrive, delRoleVars
  <2>3. (Doomed => Doomed') /\ (Changed => Changed')
    BY <2>2 DEF Doomed, Changed
  <2>4. CASE g.card # card
    <3>1. OwnGets' = OwnGets
      BY <2>1, <2>2, <2>4 DEF OwnGets
    <3> QED
      BY <2>1, <2>2, <2>3, <2>4, <3>1 DEF CardInv, Current, Asking, RolesDb
  <2>5. CASE g.card = card
    <3>1. OwnGets' = OwnGets \ {g} /\ g \in OwnGets
      BY <2>1, <2>2, <2>5 DEF OwnGets
    <3>2. \A k : OwnGets = {k} => OwnGets' = {} /\ k = g
      BY <3>1
    <3>3. ~Current
      BY <3>1 DEF Current
    <3>4. Asking => Current'
      BY <2>1, <2>2, <2>5, <3>1, <3>2 DEF Asking, Current, RolesDb
    <3>5. card # 0 /\ ~permAstray => OwnGets' = {}
      BY <3>1, <3>2 DEF CardInv
    <3> QED
      BY <2>2, <2>3, <3>3, <3>4, <3>5 DEF CardInv
  <2> QED
    BY <2>4, <2>5
<1>21. CASE PermsFail
  <2>1. PICK g \in permGets :
           /\ permGets' = permGets \ {g} /\ permAstray' = (permAstray \/ g.card = card)
    BY <1>21 DEF PermsFail
  <2>2. UNCHANGED <<card, cardRole, permissions, permsDb, permPosts, roleDeletions>>
    BY <1>21 DEF PermsFail, shownVars, delRoleVars
  <2>3. CASE g.card # card
    <3>1. OwnGets' = OwnGets
      BY <2>1, <2>2, <2>3 DEF OwnGets
    <3>2. (Doomed => Doomed') /\ (Changed => Changed')
      BY <2>2 DEF Doomed, Changed
    <3>3. (Current => Current') /\ (Asking => Asking')
      BY <2>2, <3>1 DEF Current, Asking, RolesDb
    <3>4. permAstray' = permAstray
      BY <2>1, <2>3
    <3> QED
      BY <2>2, <3>1, <3>2, <3>3, <3>4 DEF CardInv
  <2>4. CASE g.card = card
    <3>1. permAstray'
      BY <2>1, <2>4
    <3> QED
      BY <1>4, <3>1
  <2> QED
    BY <2>3, <2>4
<1>17. CASE RemovePermission \/ SavePermission
  <2>1. permPosts \subseteq permPosts'
    BY <1>17 DEF RemovePermission, SavePermission, PostPerm
  <2> QED
    BY <1>1, <1>17, <2>1 DEF RemovePermission, SavePermission, cardVars, shownVars, getPermVars,
       delRoleVars, RolesDb
<1>18. CASE OpenPermDialog \/ ClosePermDialog
  BY <1>1, <1>18 DEF OpenPermDialog, ClosePermDialog, shownVars, getPermVars, delRoleVars, RolesDb
<1>19. CASE ServePermPost
  <2>1. PICK p \in permPosts :
           /\ p.at = "sent"
           /\ \/ /\ p.role \in RolesDb
                 /\ permPosts' = (permPosts \ {p}) \cup {[p EXCEPT !.at = "ok"]}
                 /\ \/ permsDb' = [permsDb EXCEPT ![p.role] = @ \cup {p.perm}]
                    \/ permsDb' = [permsDb EXCEPT ![p.role] = @ \ {p.perm}]
              \/ /\ permPosts' = (permPosts \ {p}) \cup {[p EXCEPT !.at = "error"]}
                 /\ UNCHANGED permsDb
    BY <1>19 DEF ServePermPost
  <2>2. UNCHANGED <<card, cardRole, permissions, permGets, permAstray, roleDeletions>>
    BY <1>19 DEF ServePermPost, cardVars, shownVars, getPermVars, delRoleVars
  <2>3. RolesDb' = RolesDb
    BY <2>1 DEF RolesDb
  <2>4. CASE permsDb' = permsDb \/ p.role # cardRole
    <3>1. cardRole \in RolesDb => permsDb'[cardRole] = permsDb[cardRole]
      BY <2>1, <2>4
    <3>2. \A k \in permPosts : k.at = "ok" => k \in permPosts'
      BY <2>1
    <3> QED
      BY <1>1, <2>2, <2>3, <3>1, <3>2
  <2>5. CASE permsDb' # permsDb /\ p.role = cardRole
    <3>1. PICK k : k = [p EXCEPT !.at = "ok"]
      OBVIOUS
    <3>2. k.at = "ok" /\ k.role = p.role
      BY <3>1 DEF PostsOfPerms
    <3>3. k \in permPosts' /\ p.role \in RolesDb
      BY <2>1, <2>5, <3>1
    <3>4. Changed' /\ OwnGets' = OwnGets
      BY <2>2, <2>5, <3>2, <3>3 DEF Changed, OwnGets
    <3> QED
      BY <2>2, <3>4 DEF CardInv
  <2> QED
    BY <2>4, <2>5
<1>20. CASE PermPostReturns
  <2>1. PICK p \in permPosts :
           /\ permPosts' = permPosts \ {p}
           /\ \/ p.card = card /\ RefreshPerms(p.card)
              \/ /\ UNCHANGED permGets
                 /\ permAstray' = (permAstray \/ (p.at = "ok" /\ p.role = cardRole))
    BY <1>20 DEF PermPostReturns
  <2>2. UNCHANGED <<card, cardRole, permissions, permsDb, roleDeletions>>
    BY <1>20 DEF PermPostReturns, shownVars, delRoleVars
  <2>3. CASE p.card = card /\ RefreshPerms(p.card)
    BY <1>3, <2>2, <2>3
  <2>4. CASE /\ UNCHANGED permGets
             /\ permAstray' = (permAstray \/ (p.at = "ok" /\ p.role = cardRole))
    <3>1. OwnGets' = OwnGets
      BY <2>2, <2>4 DEF OwnGets
    <3>2. ~permAstray' => ~permAstray /\ ~(p.at = "ok" /\ p.role = cardRole)
      BY <2>4
    <3>3. (Current => Current') /\ (Asking => Asking')
      BY <2>2, <3>1 DEF Current, Asking, RolesDb
    <3>4. (Doomed => Doomed') /\ (~permAstray' /\ Changed => Changed')
      BY <2>1, <2>2, <3>2 DEF Doomed, Changed
    <3> QED
      BY <2>2, <3>1, <3>2, <3>3, <3>4 DEF CardInv
  <2> QED
    BY <2>1, <2>3, <2>4
<1> QED
  BY <1>6, <1>7, <1>8, <1>9, <1>10, <1>11, <1>12, <1>13, <1>14, <1>15, <1>16, <1>17, <1>18,
     <1>19, <1>20, <1>21 DEF RoleListNext

LEMMA RoleListStart == RoleListInit => RoleListInv
<1> SUFFICES ASSUME RoleListInit PROVE RoleListInv
  OBVIOUS
<1>1. RoleShape
  <2>1. RolesDb \subseteq RoleNames /\ permsDb \in [RolesDb -> SUBSET Perms]
    BY DEF RoleListInit, RolesDb
  <2>2. roleGets \subseteq GetsOfRoles
    BY FirstRoleGet DEF RoleListInit
  <2> QED
    BY <2>1, <2>2 DEF RoleListInit, RoleShape, AnyRole
<1>2. ListInv
  BY DEF RoleListInit, ListInv
<1>3. CardIds /\ CardInv
  BY DEF RoleListInit, CardIds, CardInv, PermissionsOfRole
<1>4. NoStuckDeleteRole /\ NoStuckPermission
  BY DEF RoleListInit, NoStuckDeleteRole, NoStuckPermission
<1> QED
  BY <1>1, <1>2, <1>3, <1>4 DEF RoleListInv

\* role-list-card.tsx and permissions-card.tsx: the list, the card that is open
\* and their requests, for any roles and permissions.
THEOREM RoleListInvariant == RoleListSpec => []RoleListInv
<1>1. RoleListInv /\ [RoleListNext]_roleListVars => RoleListInv'
  BY RoleShapeStep, ListStep, CardIdsStep, CardStep, RoleDialogsStep DEF RoleListInv
<1> QED
  BY <1>1, RoleListStart, PTL DEF RoleListSpec

\* The roles, and the permissions of the role that is open, settle on those of
\* the server, unless requests overlapped, the last one failed or the answer to a
\* change was lost, and no dialog is locked without an answer to wait for.
THEOREM RoleListStaysSound == RoleListSpec => []RoleListIsSound
<1>1. RoleListInv => RoleListIsSound
  <2> SUFFICES ASSUME RoleListInv PROVE RoleListIsSound
    OBVIOUS
  <2> USE DEF RoleListInv
  <2>1. RoleListSettles
    BY DEF ListInv, RoleListSettles
  <2>2. PermissionsSettle
    <3>1. SUFFICES ASSUME card # 0, cardRole \in RolesDb, ~permAstray,
                          ~\E g \in permGets : g.card = card,
                          \A r \in permPosts \cup roleDeletions : r.role # cardRole
                   PROVE  permissions = permsDb[cardRole]
      BY DEF PermissionsSettle
    <3>2. OwnGets = {} /\ ~Doomed /\ ~Changed /\ ~Asking
      BY <3>1 DEF OwnGets, Doomed, Changed, Asking
    <3> QED
      BY <3>1, <3>2 DEF CardInv, Current
  <2> QED
    BY <2>1, <2>2 DEF CardIds, RoleListIsSound
<1> QED
  BY <1>1, RoleListInvariant, PTL

-----------------------------------------------------------------------------
(* The types of the pages, beyond their shapes.                            *)

\* A role is in the two lists of the dialog twice at most: a load lists it once
\* at most, and marks that are left of the lists before it add one at most.
TwiceInv ==
    /\ others \in 0 .. MaxOthers
    /\ \A r \in Roles :
          /\ available[r] + assigned[r] <= 2
          /\ r \in leftChecked /\ available[r] = 0 => assigned[r] <= 1
          /\ r \in rightChecked /\ assigned[r] = 0 => available[r] <= 1

LEMMA TwiceStart == UserInit => TwiceInv
BY UserAssumption DEF UserInit, TwiceInv, Once

LEMMA TwiceStep == ASSUME UserShape, TwiceInv, [UserNext]_userVars PROVE TwiceInv'
<1> USE DEF UserShape
<1>0. others' \in 0 .. MaxOthers
  <2>1. others' = others \/ (others < MaxOthers /\ others' = others + 1)
    BY DEF UserNext, GetUser, ChangeUser, OtherAdmin, GetRoles, RefreshReturns, RefreshFails,
           MakeAdmin, MakeAdminReturns, OpenDialog, CloseDialog, LoadReturns, Check, MoveRight, MoveLeft,
           Save, SaveReturns, userVars, accountVars, aroundLists
  <2> QED
    BY <2>1, UserAssumption DEF TwiceInv
<1>1. ASSUME UNCHANGED <<available, assigned>>,
             leftChecked' \subseteq leftChecked \cup Listed(available),
             rightChecked' \subseteq rightChecked \cup Listed(assigned)
      PROVE  TwiceInv'
  <2> SUFFICES ASSUME NEW r \in Roles
               PROVE  /\ available[r] + assigned[r] <= 2
                      /\ r \in leftChecked' /\ available[r] = 0 => assigned[r] <= 1
                      /\ r \in rightChecked' /\ assigned[r] = 0 => available[r] <= 1
    BY <1>0, <1>1 DEF TwiceInv
  <2>1. available[r] = 0 => r \notin Listed(available)
    BY DEF Listed
  <2>2. assigned[r] = 0 => r \notin Listed(assigned)
    BY DEF Listed
  <2> QED
    BY <1>1, <2>1, <2>2 DEF TwiceInv
<1>2. CASE \/ GetUser \/ ChangeUser \/ OtherAdmin \/ GetRoles \/ RefreshReturns
           \/ RefreshFails \/ MakeAdmin \/ MakeAdminReturns
  BY <1>1, <1>2 DEF GetUser, ChangeUser, OtherAdmin, GetRoles, RefreshReturns, RefreshFails,
     MakeAdmin, MakeAdminReturns, dialogVars, moveVars, checkVars, Uncheck
<1>3. CASE OpenDialog \/ CloseDialog \/ Save \/ SaveReturns \/ UNCHANGED userVars
  BY <1>1, <1>3 DEF OpenDialog, CloseDialog, Save, SaveReturns, userVars, dialogVars, moveVars,
     checkVars, Uncheck
<1>4. CASE Check
  <2>1. UNCHANGED <<available, assigned>>
    BY <1>4 DEF Check, moveVars
  <2>2. leftChecked' \subseteq leftChecked \cup Listed(available)
    BY <1>4 DEF Check, Toggle, ToggleAll
  <2>3. rightChecked' \subseteq rightChecked \cup Listed(assigned)
    BY <1>4 DEF Check, Toggle, ToggleAll
  <2> QED
    BY <1>1, <2>1, <2>2, <2>3
<1>5. CASE LoadReturns
  <2>1. PICK l \in loads :
           \/ available' = Available(l) /\ assigned' = Once(l.defaults)
           \/ UNCHANGED moveVars
    BY <1>5 DEF LoadReturns
  <2>2. leftChecked' \subseteq leftChecked /\ rightChecked' \subseteq rightChecked
    BY <1>5 DEF LoadReturns, Uncheck, checkVars
  <2>3. CASE UNCHANGED moveVars
    BY <1>1, <2>2, <2>3 DEF moveVars
  <2>4. CASE available' = Available(l) /\ assigned' = Once(l.defaults)
    <3> SUFFICES ASSUME NEW r \in Roles
                 PROVE  /\ available'[r] + assigned'[r] <= 2
                        /\ assigned'[r] <= 1 /\ available'[r] <= 1
      BY <1>0 DEF TwiceInv
    <3>1. available'[r] \in {0, 1} /\ assigned'[r] \in {0, 1}
      BY <2>4 DEF Available, Once
    <3> QED
      BY <3>1
  <2> QED
    BY <2>1, <2>3, <2>4
<1>6. CASE MoveRight
  <2>1. /\ available' = Without(available, leftChecked) /\ assigned' = With(assigned, leftChecked)
        /\ leftChecked' = {} /\ rightChecked' = rightChecked
    BY <1>6 DEF MoveRight
  <2> SUFFICES ASSUME NEW r \in Roles
               PROVE  /\ available'[r] + assigned'[r] <= 2
                      /\ r \in rightChecked /\ assigned'[r] = 0 => available'[r] <= 1
    BY <1>0, <2>1 DEF TwiceInv
  <2>2. available[r] \in Nat /\ assigned[r] \in Nat
    OBVIOUS
  <2>3. CASE r \in leftChecked
    <3>1. available'[r] = 0 /\ assigned'[r] = assigned[r] + 1
      BY <2>1, <2>3 DEF Without, With
    <3> QED
      BY <2>2, <2>3, <3>1 DEF TwiceInv
  <2>4. CASE r \notin leftChecked
    <3>1. available'[r] = available[r] /\ assigned'[r] = assigned[r]
      BY <2>1, <2>4 DEF Without, With
    <3> QED
      BY <2>2, <3>1 DEF TwiceInv
  <2> QED
    BY <2>3, <2>4
<1>7. CASE MoveLeft
  <2>1. /\ assigned' = Without(assigned, rightChecked) /\ available' = With(available, rightChecked)
        /\ rightChecked' = {} /\ leftChecked' = leftChecked
    BY <1>7 DEF MoveLeft
  <2> SUFFICES ASSUME NEW r \in Roles
               PROVE  /\ available'[r] + assigned'[r] <= 2
                      /\ r \in leftChecked /\ available'[r] = 0 => assigned'[r] <= 1
    BY <1>0, <2>1 DEF TwiceInv
  <2>2. available[r] \in Nat /\ assigned[r] \in Nat
    OBVIOUS
  <2>3. CASE r \in rightChecked
    <3>1. assigned'[r] = 0 /\ available'[r] = available[r] + 1
      BY <2>1, <2>3 DEF Without, With
    <3> QED
      BY <2>2, <2>3, <3>1 DEF TwiceInv
  <2>4. CASE r \notin rightChecked
    <3>1. available'[r] = available[r] /\ assigned'[r] = assigned[r]
      BY <2>1, <2>4 DEF Without, With
    <3> QED
      BY <2>2, <3>1 DEF TwiceInv
  <2> QED
    BY <2>3, <2>4
<1> QED
  BY <1>2, <1>3, <1>4, <1>5, <1>6, <1>7 DEF UserNext

LEMMA UserTypes == UserShape /\ TwiceInv => UserTypeOK
<1> SUFFICES ASSUME UserShape, TwiceInv PROVE UserTypeOK
  OBVIOUS
<1>1. ASSUME NEW r \in Roles PROVE available[r] \in 0 .. 2 /\ assigned[r] \in 0 .. 2
  <2>1. available[r] \in Nat /\ assigned[r] \in Nat /\ available[r] + assigned[r] <= 2
    BY DEF UserShape, TwiceInv
  <2> QED
    BY <2>1
<1>2. available \in [Roles -> 0 .. 2] /\ assigned \in [Roles -> 0 .. 2]
  BY <1>1 DEF UserShape
<1>3. {account, user} \subseteq {Nobody} \cup [admin : BOOLEAN, roles : SUBSET Roles]
  BY DEF UserShape, Accounts
<1> QED
  BY <1>2, <1>3 DEF UserShape, TwiceInv, UserTypeOK

-----------------------------------------------------------------------------
\* No name is listed twice, nor in an answer.
NamesInv ==
    /\ changes \in 0 .. MaxChanges /\ userPage \in 0 .. MaxUserPage /\ createDialog <= dialogs
    /\ IsInjective(users) /\ \A r \in queries : IsInjective(r.names)

LEMMA SliceInjective ==
    ASSUME NEW s \in Lists, NEW m \in Nat \ {0}, NEW n \in Nat, n <= Len(s), IsInjective(s)
    PROVE  IsInjective(SubSeq(s, m, n))
<1> DEFINE t == SubSeq(s, m, n)
<1>1. \A i \in m .. n : s[i] \in Range(Names)
  BY DEF Lists
<1>2. /\ t \in Seq(Range(Names)) /\ Len(t) = IF m <= n THEN n - m + 1 ELSE 0
      /\ \A i \in 1 .. n - m + 1 : t[i] = s[m + i - 1]
  BY <1>1, SubSeqProperties
<1> HIDE DEF t
<1>3. DOMAIN s = 1 .. Len(s) /\ Len(s) \in Nat
  BY DEF Lists
<1>4. ASSUME NEW i \in DOMAIN t, NEW j \in DOMAIN t, t[i] = t[j] PROVE i = j
  <2>1. i \in 1 .. n - m + 1 /\ j \in 1 .. n - m + 1
    BY <1>2
  <2>2. t[i] = s[m + i - 1] /\ t[j] = s[m + j - 1]
    BY <1>2, <2>1
  <2>3. m + i - 1 \in DOMAIN s /\ m + j - 1 \in DOMAIN s
    BY <1>3, <2>1
  <2>4. m + i - 1 = m + j - 1
    BY <1>4, <2>2, <2>3 DEF IsInjective
  <2> QED
    BY <2>1, <2>4
<1> QED
  BY <1>4 DEF IsInjective, t

LEMMA DistinctIsInjective ==
    ASSUME NEW A, NEW s \in Seq(A) PROVE Distinct(s) <=> IsInjective(s)
BY DEF Distinct, IsInjective

LEMMA FoundInjective ==
    ASSUME UserListShape, NEW q \in UserQueries PROVE IsInjective(Found(q))
<1> DEFINE found == Kept(Names, usersDb \cap Matches[q.search])
           from == q.page * ItemsPerPage + 1
           to == IF Len(found) < from + ItemsPerPage THEN Len(found) ELSE from + ItemsPerPage
<1>1. found \in Lists /\ IsInjective(found)
  <2>1. found \in Seq(Range(Names) \cap (usersDb \cap Matches[q.search]))
    BY UserListAssumption, KeptInSeq
  <2>2. Range(Names) \cap (usersDb \cap Matches[q.search]) \subseteq Range(Names)
    OBVIOUS
  <2>3. Distinct(Names)
    BY UserListAssumption, DistinctIsInjective
  <2>4. Distinct(found)
    BY <2>3, UserListAssumption, KeptDistinct
  <2>5. found \in Lists
    BY <2>1, <2>2, SeqOfMore DEF Lists
  <2> QED
    BY <2>4, <2>5, DistinctIsInjective DEF Lists
<1>2. q.page \in Nat /\ ItemsPerPage \in Nat
  BY UserListAssumption DEF UserQueries
<1>3. from \in Nat \ {0} /\ to \in Nat /\ to <= Len(found)
  <2>1. q.page * ItemsPerPage \in Nat
    BY <1>2
  <2>2. Len(found) \in Nat
    BY <1>1 DEF Lists
  <2> QED
    BY <1>2, <2>1, <2>2
<1>4. Found(q) = SubSeq(found, from, to)
  BY DEF Found
<1> HIDE DEF found, from, to
<1> QED
  BY <1>1, <1>3, <1>4, SliceInjective

LEMMA FirstNamesInjective ==
    ASSUME NEW names \in Lists, IsInjective(names) PROVE IsInjective(FirstNames(names))
<1> DEFINE to == IF Len(names) < ItemsPerPage THEN Len(names) ELSE ItemsPerPage
<1>1. to \in Nat /\ to <= Len(names)
  BY UserListAssumption DEF Lists
<1>2. FirstNames(names) = SubSeq(names, 1, to)
  BY DEF FirstNames
<1> HIDE DEF to
<1> QED
  BY <1>1, <1>2, SliceInjective

LEMMA NamesStart == UserListInit => NamesInv
<1> SUFFICES ASSUME UserListInit PROVE NamesInv
  OBVIOUS
<1>1. /\ changes = 0 /\ userPage = 0 /\ createDialog = 0 /\ dialogs = 0 /\ users = <<>>
      /\ \A r \in queries : r.names = <<>>
  BY DEF UserListInit
<1>2. IsInjective(<<>>)
  BY DEF IsInjective
<1> QED
  BY <1>1, <1>2, UserListAssumption DEF NamesInv

\* What a refresh asks for has no names yet.
LEMMA RefreshHasNoNames ==
    ASSUME NamesInv, NEW q, NEW k, RefreshUsers(q, k)
    PROVE  users' = users /\ \A r \in queries' : IsInjective(r.names)
<1>1. PICK e : e = [n |-> queried + 1, query |-> q, done |-> FALSE, names |-> <<>>]
  OBVIOUS
<1>2. e.names = <<>> /\ IsInjective(<<>>)
  BY <1>1 DEF IsInjective
<1>3. queries' = queries \cup {e} /\ users' = users
  BY <1>1 DEF RefreshUsers
<1> QED
  BY <1>2, <1>3 DEF NamesInv

LEMMA NamesStep ==
    ASSUME UserListShape, NamesInv, [UserListNext]_userListVars PROVE NamesInv'
<1> USE DEF UserListShape
<1>1. changes' \in 0 .. MaxChanges
  <2>1. changes' = changes \/ (changes < MaxChanges /\ changes' = changes + 1)
    BY DEF UserListNext, ServeUsers, UsersArrive, UsersFail, ChangeInput, SearchTimeout,
       ChangeUserPage, DeleteClick, CloseDelete, ConfirmDelete, ServeDelete, DeleteReturns, OpenCreate,
       CloseCreate, SubmitCreate, ServeCreate, CreateReturns, OtherChange, userListVars
  <2> QED
    BY <2>1, UserListAssumption DEF NamesInv
<1>2. userPage' \in 0 .. MaxUserPage
  <2>1. userPage' = userPage \/ userPage' \in 0 .. MaxUserPage
    BY DEF UserListNext, ServeUsers, UsersArrive, UsersFail, ChangeInput, SearchTimeout,
       ChangeUserPage, DeleteClick, CloseDelete, ConfirmDelete, ServeDelete, DeleteReturns, OpenCreate,
       CloseCreate, SubmitCreate, ServeCreate, CreateReturns, OtherChange, userListVars, inputVars
  <2> QED
    BY <2>1 DEF NamesInv
<1>3. createDialog' <= dialogs'
  <2>1. \/ createDialog' \in {0, createDialog} /\ dialogs' = dialogs
        \/ createDialog' = dialogs + 1 /\ dialogs' = dialogs + 1
    BY DEF UserListNext, ServeUsers, UsersArrive, UsersFail, ChangeInput, SearchTimeout,
       ChangeUserPage, DeleteClick, CloseDelete, ConfirmDelete, ServeDelete, DeleteReturns, OpenCreate,
       CloseCreate, SubmitCreate, ServeCreate, CreateReturns, OtherChange, userListVars, createVars
  <2> QED
    BY <2>1 DEF NamesInv
<1>4. IsInjective(users') /\ \A r \in queries' : IsInjective(r.names)
  <2>1. CASE ServeUsers
    <3>1. PICK r \in queries, h \in ListRequests :
             queries' = (queries \ {r}) \cup {h} /\ h.names = Found(r.query)
      BY <2>1, ServeUsersEffect
    <3>2. r.query \in UserQueries
      BY DEF ListRequests
    <3>3. IsInjective(h.names)
      BY <3>1, <3>2, FoundInjective
    <3> QED
      BY <2>1, <3>1, <3>3 DEF ServeUsers, NamesInv
  <2>2. CASE UsersArrive
    <3>1. PICK r \in queries : queries' = queries \ {r} /\ users' = FirstNames(r.names)
      BY <2>2 DEF UsersArrive
    <3>2. r.names \in Lists /\ IsInjective(r.names)
      BY DEF ListRequests, NamesInv
    <3> QED
      BY <3>1, <3>2, FirstNamesInjective DEF NamesInv
  <2>3. CASE UNCHANGED <<queries, users>>
    BY <2>3 DEF NamesInv
  <2>4. CASE \E q, k : RefreshUsers(q, k)
    BY <2>4, RefreshHasNoNames DEF NamesInv
  <2>5. CASE SearchTimeout \/ ChangeUserPage \/ DeleteReturns \/ CreateReturns
    <3>1. UNCHANGED <<queries, users>> \/ \E q, k : RefreshUsers(q, k)
      BY <2>5 DEF SearchTimeout, ChangeUserPage, DeleteReturns, CreateReturns, LoseAnswer, queryVars
    <3> QED
      BY <2>3, <2>4, <3>1
  <2>7. CASE UsersFail
    BY <2>7 DEF UsersFail, NamesInv
  <2>6. CASE \/ ChangeInput \/ DeleteClick \/ CloseDelete \/ ConfirmDelete \/ ServeDelete
             \/ OpenCreate \/ CloseCreate \/ SubmitCreate \/ ServeCreate \/ OtherChange
             \/ UNCHANGED userListVars
    BY <2>3, <2>6 DEF ChangeInput, DeleteClick, CloseDelete, ConfirmDelete, ServeDelete,
       OpenCreate, CloseCreate, SubmitCreate, ServeCreate, OtherChange, userListVars, queryVars
  <2> QED
    BY <2>1, <2>2, <2>5, <2>6, <2>7 DEF UserListNext
<1> QED
  BY <1>1, <1>2, <1>3, <1>4 DEF NamesInv

LEMMA UserListTypes == UserListShape /\ NamesInv => UserListTypeOK
<1> SUFFICES ASSUME UserListShape, NamesInv PROVE UserListTypeOK
  OBVIOUS
<1>1. Len(users) \in 0 .. ItemsPerPage
  BY UserListAssumption DEF UserListShape, Lists
<1>2. createDialog \in 0 .. dialogs
  BY DEF UserListShape, NamesInv
<1> QED
  BY <1>1, <1>2 DEF UserListShape, NamesInv, UserListTypeOK

-----------------------------------------------------------------------------
\* A dialog has a number of its own; a card is that of a role.
MountInv ==
    /\ roleDialog <= mounts /\ permDialog <= mounts
    /\ permissionsOf \in AnyRole
    /\ card = 0 <=> cardRole = NoRole

LEMMA MountStart == RoleListInit => MountInv
BY DEF RoleListInit, MountInv, AnyRole

LEMMA MountStep == ASSUME RoleShape, MountInv, [RoleListNext]_roleListVars PROVE MountInv'
<1> USE DEF RoleShape
<1>1. \/ mounts' = mounts /\ roleDialog' \in {0, roleDialog} /\ permDialog' \in {0, permDialog}
      \/ mounts' = mounts + 1 /\ roleDialog' \in {roleDialog, mounts + 1}
         /\ permDialog' \in {permDialog, mounts + 1}
  BY DEF RoleListNext, ServeRoles, RolesArrive, RolesFail, OpenRoleDialog, CloseRoleDialog, SubmitRole,
     ServeCreateRole, RoleCreated, DeleteRoleClick, CloseDeleteRole, ConfirmDeleteRole,
     ServeDeleteRole, RoleDeleted, Expand, Collapse, ServePerms, PermsArrive, PermsFail,
     RemovePermission, OpenPermDialog, ClosePermDialog, SavePermission, ServePermPost, PermPostReturns,
     roleListVars, cardVars, permDlgVars, newRoleVars, roleClicks, RefreshRoles,
     AfterRoleChange, LoseRoleChange, UnmountCard,
     Mount, Change
<1>2. \/ UNCHANGED <<card, cardRole, permissionsOf>>
      \/ card' = 0 /\ cardRole' = NoRole /\ permissionsOf' = NoRole
      \/ card' = mounts + 1 /\ cardRole' \in roles /\ permissionsOf' = NoRole
      \/ UNCHANGED <<card, cardRole>> /\ \E g \in permGets : permissionsOf' = g.role
  BY DEF RoleListNext, ServeRoles, RolesArrive, RolesFail, OpenRoleDialog, CloseRoleDialog, SubmitRole,
     ServeCreateRole, RoleCreated, DeleteRoleClick, CloseDeleteRole, ConfirmDeleteRole,
     ServeDeleteRole, RoleDeleted, Expand, Collapse, ServePerms, PermsArrive, PermsFail,
     RemovePermission, OpenPermDialog, ClosePermDialog, SavePermission, ServePermPost, PermPostReturns,
     roleListVars, cardVars, shownVars, RefreshRoles,
     AfterRoleChange, LoseRoleChange, UnmountCard
<1>3. roleDialog' <= mounts' /\ permDialog' <= mounts'
  BY <1>1 DEF MountInv
<1>4. permissionsOf' \in AnyRole /\ (card' = 0 <=> cardRole' = NoRole)
  <2>1. \A g \in permGets : g.role \in AnyRole
    BY DEF GetsOfPerms
  <2>2. mounts + 1 # 0 /\ NoRole \notin roles /\ NoRole \in AnyRole
    BY RoleListAssumption DEF AnyRole
  <2> QED
    BY <1>2, <2>1, <2>2 DEF MountInv
<1> QED
  BY <1>3, <1>4 DEF MountInv

LEMMA RoleListTypes == RoleShape /\ MountInv /\ card <= mounts => RoleListTypeOK
<1> SUFFICES ASSUME RoleShape, MountInv, card <= mounts PROVE RoleListTypeOK
  OBVIOUS
<1>1. {roleDialog, card, permDialog} \subseteq 0 .. mounts
  BY DEF RoleShape, MountInv
<1>2. (card = 0) = (cardRole = NoRole)
  BY DEF MountInv
<1>3. {selectedDeleteRole, cardRole, permissionsOf} \subseteq RoleNames \cup {NoRole}
  BY DEF RoleShape, MountInv, AnyRole
<1>4. \A r \in RolesDb : permsDb[r] \subseteq Perms
  BY DEF RoleShape
<1> QED
  BY <1>1, <1>2, <1>3, <1>4 DEF RoleShape, RoleListTypeOK

-----------------------------------------------------------------------------
(* The types of the reports and of the intake, beyond their shapes.        *)

\* The page of the table is one it has, and the rows of the server are those
\* between two that were added.
RangeInv ==
    /\ oldest \in FirstRow .. MaxRow + 1 /\ newest \in oldest - 1 .. MaxRow
    /\ report \in ReportKinds /\ pageSize \in PageSizes
    /\ tablePage \in Nat /\ (logs # <<>> => tablePage * pageSize < Len(logs))

\* A page that is not after the last one has a row.
LEMMA PageHasRow ==
    ASSUME NEW count \in Nat \ {0}, NEW size \in Nat \ {0}, NEW p \in Nat,
           p <= (count - 1) \div size
    PROVE  p * size < count /\ (count - 1) \div size \in Nat
<1>1. count - 1 \in Nat
  OBVIOUS
<1>2. PICK a \in Nat, b \in 0 .. size - 1 : count - 1 = a * size + b /\ a = (count - 1) \div size
  <2>1. \A n \in Nat : \E a \in Nat, b \in 0 .. size - 1 : n = a * size + b /\ a = n \div size
    OBVIOUS
  <2> QED
    BY <1>1, <2>1
<1>3. PICK d \in Nat : a = p + d
  <2>1. a - p \in Nat /\ a = p + (a - p)
    BY <1>2
  <2> QED
    BY <2>1
<1>4. a * size = p * size + d * size
  BY <1>3
<1>5. d * size \in Nat /\ p * size \in Nat /\ a * size \in Nat
  OBVIOUS
<1> QED
  BY <1>2, <1>4, <1>5

LEMMA RangeStart == ReportsInit => RangeInv
BY ReportsAssumption DEF ReportsInit, RangeInv

LEMMA RangeStep ==
    ASSUME ReportsInv, RangeInv, [ReportsNext]_reportVars PROVE RangeInv'
<1>1. logs \in Seq(ShownRows) /\ logs' \in Seq(ShownRows)
  BY ReportsStep DEF ReportsInv, ReportsShape
<1>2. DefaultSize \in PageSizes /\ PageSizes \subseteq Nat \ {0} /\ pageSize \in Nat \ {0}
  BY ReportsAssumption DEF RangeInv
<1>3. oldest' \in FirstRow .. MaxRow + 1 /\ newest' \in oldest' - 1 .. MaxRow
  <2>1. \/ oldest' = oldest /\ newest' = newest
        \/ oldest' = oldest /\ newest' = newest + 1 /\ newest < MaxRow
        \/ oldest' = oldest + 1 /\ newest' = newest /\ oldest < newest
    BY DEF ReportsNext, AddRow, CleanLogs, PickDates, SearchLogs, ChangeTablePage, ChangePageSize,
           ServeReport, ReportReturns, ShowReport, reportVars, serverRows
  <2> QED
    BY <2>1, ReportsAssumption DEF RangeInv
<1>4. report' \in ReportKinds
  <2>1. report' = report \/ report' \in ReportKinds
    BY DEF ReportsNext, AddRow, CleanLogs, PickDates, SearchLogs, ChangeTablePage, ChangePageSize,
           ServeReport, ReportReturns, ShowReport, reportVars
  <2> QED
    BY <2>1 DEF RangeInv
<1>5. /\ pageSize' \in PageSizes /\ tablePage' \in Nat
      /\ logs' # <<>> => tablePage' * pageSize' < Len(logs')
  <2>1. CASE UNCHANGED <<logs, tableVars>>
    BY <2>1 DEF RangeInv, tableVars
  <2>2. CASE ChangeTablePage
    <3>1. PICK p \in 0 .. (Len(logs) - 1) \div pageSize : tablePage' = p
      BY <2>2 DEF ChangeTablePage
    <3>2. logs # <<>> /\ logs' = logs /\ pageSize' = pageSize
      BY <2>2 DEF ChangeTablePage
    <3>3. Len(logs) \in Nat \ {0}
      BY <1>1, <3>2
    <3>4. p \in Nat /\ p <= (Len(logs) - 1) \div pageSize
      <4>1. (Len(logs) - 1) \div pageSize \in Int
        BY <1>2, <3>3
      <4> QED
        BY <3>1, <4>1
    <3>5. p * pageSize < Len(logs)
      BY <1>2, <3>3, <3>4, PageHasRow
    <3> QED
      BY <3>1, <3>2, <3>4, <3>5 DEF RangeInv
  <2>3. CASE ChangePageSize \/ ShowReport
    <3>1. pageSize' \in PageSizes /\ tablePage' = 0 /\ logs' \in {logs, <<>>}
      BY <2>3, <1>2 DEF ChangePageSize, ShowReport, ClearRows
    <3>2. logs' # <<>> => Len(logs') > 0
      BY <1>1
    <3>3. 0 * pageSize' = 0
      <4>1. \A s \in Nat : 0 * s = 0
        OBVIOUS
      <4>2. pageSize' \in Nat
        BY <1>2, <3>1
      <4> QED
        BY <4>1, <4>2
    <3> QED
      BY <3>1, <3>2, <3>3
  <2>4. CASE ReportReturns
    <3>1. TableOf(Len(logs'))
      BY <2>4 DEF ReportReturns
    <3>2. PICK count : count = Len(logs')
      OBVIOUS
    <3>3. count \in Nat /\ (logs' # <<>> <=> count # 0) /\ TableOf(count)
      BY <1>1, <3>1, <3>2
    <3>4. CASE count = 0
      BY <1>2, <3>3, <3>4 DEF TableOf
    <3>5. CASE count # 0 /\ tablePage * pageSize < count
      <4>1. tablePage' = tablePage /\ pageSize' = pageSize
        BY <3>3, <3>5 DEF TableOf
      <4> QED
        BY <3>2, <3>5, <4>1 DEF RangeInv
    <3>6. CASE count # 0 /\ ~(tablePage * pageSize < count)
      <4>1. tablePage' = (count - 1) \div pageSize /\ pageSize' = pageSize
        BY <3>3, <3>6 DEF TableOf
      <4>2. (count - 1) \div pageSize \in Nat
        BY <1>2, <3>3, <3>6
      <4>3. ((count - 1) \div pageSize) * pageSize < count
        BY <1>2, <3>3, <3>6, <4>2, PageHasRow
      <4> QED
        BY <3>2, <4>1, <4>2, <4>3 DEF RangeInv
    <3> QED
      BY <3>4, <3>5, <3>6
  <2>5. CASE AddRow \/ CleanLogs \/ PickDates \/ SearchLogs \/ ServeReport \/ UNCHANGED reportVars
    BY <2>1, <2>5 DEF AddRow, CleanLogs, PickDates, SearchLogs, ServeReport, reportVars, tableVars
  <2> QED
    BY <2>2, <2>3, <2>4, <2>5 DEF ReportsNext
<1> QED
  BY <1>3, <1>4, <1>5 DEF RangeInv

\* The table of a report never goes to a page it has not.
THEOREM ReportsTypeCorrect == ReportsSpec => []ReportsTypeOK
<1>1. RangeInv => ReportsTypeOK
  BY DEF RangeInv, ReportsTypeOK
<1> QED
  BY <1>1, ReportsStart, ReportsStep, RangeStart, RangeStep, PTL DEF ReportsSpec

-----------------------------------------------------------------------------
\* A chunk that waits has a try left, unless it is the one that is posted.
TriesInv ==
    /\ tries \in Seq(Nat) /\ Len(tries) = Len(chunks)
    /\ \A c \in DOMAIN chunks :
          /\ tries[c] <= MaxTries
          /\ outcome[c] = "waiting" /\ posted # c => tries[c] < MaxTries

LEMMA TriesStart == IntakeInit => TriesInv
<1> SUFFICES ASSUME IntakeInit PROVE TriesInv
  OBVIOUS
<1>1. tries = <<>> /\ chunks = <<>>
  BY DEF IntakeInit
<1>2. tries \in Seq(Nat) /\ Len(tries) = 0 /\ Len(chunks) = 0 /\ DOMAIN chunks = {}
  BY <1>1
<1> QED
  BY <1>1, <1>2 DEF TriesInv

LEMMA TriesStep == ASSUME IntakeInv, TriesInv, [IntakeNext]_intakeVars PROVE TriesInv'
<1> USE IntakeAssumption DEF TriesInv
<1>0. /\ DOMAIN tries = DOMAIN chunks /\ DOMAIN outcome = DOMAIN chunks
      /\ DOMAIN chunks = 1 .. Len(chunks) /\ Len(chunks) \in Nat
      /\ outcome \in Seq(Outcomes) /\ posted \in 0 .. Len(chunks)
  BY DEF IntakeInv, IntakeShape
<1>1. CASE LogLine \/ UNCHANGED intakeVars
  <2>1. UNCHANGED <<tries, chunks, outcome, posted>>
    BY <1>1 DEF LogLine, intakeVars
  <2> QED
    BY <2>1
<1>2. CASE CutChunk
  <2>1. /\ UNCHANGED posted /\ tries' = Append(tries, 0)
        /\ outcome' = Append(outcome, "waiting")
        /\ \E x \in Nat \X Nat : chunks' = Append(chunks, x)
    <3>1. LastOf(chunks) + 1 \in Nat /\ Len(lines) \in Nat
      BY DEF IntakeInv, IntakeShape, ChunksApart
    <3> QED
      BY <1>2, <3>1 DEF CutChunk
  <2>2. chunks \in Seq(Nat \X Nat)
    BY DEF IntakeInv, IntakeShape
  <2>3. /\ Len(chunks') = Len(chunks) + 1 /\ DOMAIN chunks' = 1 .. Len(chunks) + 1
    BY <2>1, <2>2
  <2>4. /\ tries' \in Seq(Nat) /\ Len(tries') = Len(chunks) + 1 /\ tries'[Len(chunks) + 1] = 0
        /\ \A c \in 1 .. Len(chunks) : tries'[c] = tries[c]
    BY <1>0, <2>1
  <2>5. \A c \in 1 .. Len(chunks) : outcome'[c] = outcome[c]
    BY <1>0, <2>1
  <2>6. ASSUME NEW c \in DOMAIN chunks'
        PROVE  /\ tries'[c] <= MaxTries
               /\ outcome'[c] = "waiting" /\ posted' # c => tries'[c] < MaxTries
    <3>1. CASE c = Len(chunks) + 1
      BY <2>4, <3>1
    <3>2. CASE c \in 1 .. Len(chunks)
      BY <1>0, <2>1, <2>4, <2>5, <3>2
    <3> QED
      BY <1>0, <2>3, <3>1, <3>2
  <2> QED
    BY <2>1, <2>3, <2>4, <2>6
<1>3. CASE PostChunk
  <2>1. PICK c \in DOMAIN chunks :
           /\ outcome[c] = "waiting" /\ posted' = c /\ tries' = [tries EXCEPT ![c] = @ + 1]
    BY <1>3 DEF PostChunk
  <2>2. posted = 0 /\ UNCHANGED <<chunks, outcome>>
    BY <1>3 DEF PostChunk
  <2>3. tries[c] \in Nat /\ tries[c] < MaxTries
    BY <1>0, <2>1, <2>2
  <2>4. /\ tries' \in Seq(Nat) /\ Len(tries') = Len(chunks) /\ tries'[c] = tries[c] + 1
        /\ \A d \in DOMAIN chunks : d # c => tries'[d] = tries[d]
    BY <1>0, <2>1, <2>3
  <2>5. ASSUME NEW d \in DOMAIN chunks
        PROVE  /\ tries'[d] <= MaxTries
               /\ outcome[d] = "waiting" /\ c # d => tries'[d] < MaxTries
    <3>1. CASE d = c
      BY <2>3, <2>4, <3>1
    <3>2. CASE d # c
      <4>1. posted # d
        BY <1>0, <2>2
      <4> QED
        BY <2>4, <3>2, <4>1
    <3> QED
      BY <3>1, <3>2
  <2> QED
    BY <2>1, <2>2, <2>4, <2>5
<1>4. CASE HandleLine
  <2>1. UNCHANGED <<tries, chunks, outcome, posted>>
    BY <1>4 DEF HandleLine
  <2> QED
    BY <2>1
<1>5. CASE RaiseAtLine \/ AnswerPost \/ LosePost
  <2>1. /\ UNCHANGED <<tries, chunks>> /\ posted # 0 /\ posted' = 0
        /\ outcome' = [outcome EXCEPT ![posted] = "accepted"] \/ outcome' = Refused(posted)
    BY <1>5 DEF RaiseAtLine, AnswerPost, LosePost
  <2>2. posted \in DOMAIN chunks
    BY <1>0, <2>1
  <2>3. /\ \A c \in DOMAIN chunks : c # posted => outcome'[c] = outcome[c]
        /\ outcome'[posted] = "waiting" => tries[posted] < MaxTries
    BY <1>0, <2>1, <2>2 DEF Refused
  <2> QED
    BY <2>1, <2>3
<1> QED
  BY <1>1, <1>2, <1>3, <1>4, <1>5 DEF IntakeNext

\* No chunk is posted more often than its retry timeout allows, and the lines in
\* error are lines of the chunk that is posted.
THEOREM IntakeTypeCorrect == IntakeSpec => []IntakeTypeOK
<1>1. IntakeInv /\ TriesInv => IntakeTypeOK
  <2> SUFFICES ASSUME IntakeInv, TriesInv PROVE IntakeTypeOK
    OBVIOUS
  <2>1. posted # 0 => outcome[posted] = "waiting" /\ errorLogs \subseteq LinesOf(posted)
    BY DEF IntakeInv, PostInv
  <2> QED
    BY <2>1 DEF IntakeInv, IntakeShape, RobotInv, TriesInv, IntakeTypeOK
<1> QED
  BY <1>1, IntakeStart, IntakeStep, TriesStart, TriesStep, PTL DEF IntakeSpec

-----------------------------------------------------------------------------
(* The back office.                                                        *)

LEMMA BackOfficeStart ==
    BackOfficeInit => /\ UserInit /\ UserListInit /\ RoleListInit /\ ReportsInit /\ IntakeInit
                      /\ WatchdogInit
BY DEF BackOfficeInit

\* A step of the back office is a step of one part; the others stutter.
LEMMA BackOfficeStep ==
    [BackOfficeNext]_backOfficeVars =>
        /\ [UserNext]_userVars /\ [UserListNext]_userListVars /\ [RoleListNext]_roleListVars
        /\ [ReportsNext]_reportVars /\ [IntakeNext]_intakeVars /\ [WatchdogNext]_watchdogVars
<1>1. CASE UNCHANGED backOfficeVars
  BY <1>1 DEF backOfficeVars
<1>2. CASE BackOfficeNext
  BY <1>2 DEF BackOfficeNext
<1> QED
  BY <1>1, <1>2

\* MCBackOffice runs every part as it is specified, one at a time: what is proved
\* of a part holds of what the run checks.
THEOREM BackOfficeRunsItsParts ==
    BackOfficeSpec => /\ UserSpec /\ UserListSpec /\ RoleListSpec /\ ReportsSpec /\ IntakeSpec
                      /\ WatchdogSpec
BY BackOfficeStart, BackOfficeStep, PTL
   DEF BackOfficeSpec, UserSpec, UserListSpec, RoleListSpec, ReportsSpec, IntakeSpec, WatchdogSpec

\* Every part of the back office keeps its types, for any values of its constants.
THEOREM BackOfficeTypeCorrect == BackOfficeSpec => []BackOfficeTypeOK
<1>1. UserSpec => []UserTypeOK
  <2>1. UserInv => UserShape
    BY DEF UserInv
  <2> QED
    BY <2>1, UserPageInvariant, TwiceStart, TwiceStep, UserTypes, PTL DEF UserSpec
<1>2. UserListSpec => []UserListTypeOK
  <2>1. UserListInv => UserListShape
    BY DEF UserListInv
  <2> QED
    BY <2>1, UserListInvariant, NamesStart, NamesStep, UserListTypes, PTL DEF UserListSpec
<1>3. RoleListSpec => []RoleListTypeOK
  <2>1. RoleListInv => RoleShape /\ card <= mounts
    BY DEF RoleListInv, CardIds
  <2> QED
    BY <2>1, RoleListInvariant, MountStart, MountStep, RoleListTypes, PTL DEF RoleListSpec
<1> QED
  BY <1>1, <1>2, <1>3, BackOfficeRunsItsParts, ReportsTypeCorrect, IntakeTypeCorrect, TypeCorrect,
     PTL DEF BackOfficeTypeOK

\* Everything the run BackOffice checks but its liveness.
THEOREM BackOfficeStaysSound ==
    BackOfficeSpec =>
        /\ [](/\ BackOfficeTypeOK /\ UserPageIsSound /\ RoleListIsSound /\ ReportsAreSound
              /\ IntakeIsSound /\ AlarmIsTrue /\ HealthIsCurrent /\ ModeIsCurrent)
        /\ UserListIsSound
BY BackOfficeRunsItsParts, BackOfficeTypeCorrect, UserPageStaysSound, RoleListStaysSound,
   ReportsStaySound, IntakeStaysSound, AlarmStaysTrue, HealthStaysCurrent, ModeStaysCurrent,
   UserListStaysSound, PTL
=============================================================================
