------------------------------ MODULE Reports ------------------------------
(***************************************************************************)
(* The reporting pages: ReportDashboard (reporting/src/components) shows   *)
(* one report at a time, and a report (react-components/lib/reports, ten   *)
(* of one shape and the one of all logs) searches the rows of a range of   *)
(* dates and gets more of them when its table is at the end.               *)
(*                                                                         *)
(* A row is the time it was created at.  The server adds rows, deletes old *)
(* ones, and answers a query with the newest rows first.  A date is that   *)
(* of a row: one before the first row, and a lower end that was cleared,   *)
(* is as FirstRow; one after the last row, and an upper end that was       *)
(* cleared, is as MaxRow + 1.  The pages of the table are not modelled     *)
(* where they do not decide what is asked for.                             *)
(***************************************************************************)
EXTENDS Integers, Sequences, SequencesExt

CONSTANTS
    ReportKinds,    \* the reports of the menu
    FirstReport,    \* the one shown first (queryAllLogs)
    ReportLimit,    \* rows of an answer (LIMIT, 500)
    PageSizes,      \* the pageSizeOptions of the table
    DefaultSize,
    FirstRow,       \* bounds: the rows there are at first are FirstRow .. 0,
    MaxRow,         \* and those added later are 1 .. MaxRow;
    FromDates,      \* lower ends that are picked;
    MaxReportAsks,  \* requests;
    MaxSwitches     \* changes of the report

ASSUME ReportsAssumption ==
    /\ FirstReport \in ReportKinds /\ DefaultSize \in PageSizes
    /\ ReportLimit \in Nat \ {0} /\ PageSizes \subseteq Nat \ {0}
    /\ FirstRow \in Int /\ FirstRow <= 1 /\ MaxRow \in Nat /\ FromDates \subseteq Int
    /\ MaxReportAsks \in Nat /\ MaxSwitches \in Nat

VARIABLES
    oldest, newest,  \* the rows of the server are oldest .. newest
    report,          \* currentReport
    switches,        \* changes of it so far: they mount another component
    fromDate, toDate,
    logs,            \* the rows, each with the query and the report it is of
    lastSearch,      \* lastSearchParams
    reportAsks,      \* requests without an answer, as a set of records
    reportSent,      \* requests so far
    tablePage, pageSize,
    overlapped       \* history: a request was sent while another had no answer,
                     \* and no search alone since

reportVars == <<oldest, newest, report, switches, fromDate, toDate, logs, lastSearch,
                reportAsks, reportSent, tablePage, pageSize, overlapped>>
serverRows == <<oldest, newest>>
datesVars  == <<fromDate, toDate>>
tableVars  == <<tablePage, pageSize>>

Now == newest + 1

\* open is history: the range went on after the rows there were.
RangeOf(from, to) == [from |-> from, to |-> to, open |-> to > Now]
NoSearch == [from |-> 0, to |-> 0, open |-> FALSE]

ReportsInit ==
    /\ oldest = FirstRow /\ newest = 0
    /\ report = FirstReport /\ switches = 0
    /\ fromDate = Now /\ toDate = Now
    /\ logs = <<>> /\ lastSearch = NoSearch
    /\ reportAsks = {} /\ reportSent = 0
    /\ tablePage = 0 /\ pageSize = DefaultSize
    /\ overlapped = FALSE

AddRow ==
    /\ newest < MaxRow /\ newest' = newest + 1
    /\ UNCHANGED <<oldest, report, switches, datesVars, logs, lastSearch, reportAsks,
                   reportSent, tableVars, overlapped>>

\* The cron job of the server, at any time.
CleanLogs ==
    /\ oldest < newest /\ oldest' = oldest + 1
    /\ UNCHANGED <<newest, report, switches, datesVars, logs, lastSearch, reportAsks,
                   reportSent, tableVars, overlapped>>

\* created__gte, created__lt, order_by("-created"), offset and limit.
RowsOf(q, offset) ==
    LET first == IF q.from > oldest THEN q.from ELSE oldest
        end   == IF q.to < Now THEN q.to ELSE Now
        count == end - first - offset
    IN [i \in 1 .. (IF count < 0 THEN 0 ELSE IF count < ReportLimit THEN count ELSE ReportLimit)
            |-> end - offset - i]

\* A date that is typed may be after now, in spite of maxDate, and a field may be
\* cleared.
PickDates ==
    /\ fromDate' \in FromDates /\ toDate' \in Now .. MaxRow + 1
    /\ <<fromDate, toDate>>' # <<fromDate, toDate>>
    /\ UNCHANGED <<serverRows, report, switches, logs, lastSearch, reportAsks, reportSent,
                   tableVars, overlapped>>

\* The requests of the report that is shown.
OwnAsks == {a \in reportAsks : a.of = switches}

AskReport(q, base, search) ==
    /\ reportSent < MaxReportAsks /\ reportSent' = reportSent + 1
    /\ reportAsks' = reportAsks \cup
          {[id |-> reportSent, of |-> switches, q |-> q, base |-> base, rows |-> <<>>,
            served |-> FALSE]}
    /\ overlapped' = ((OwnAsks # {}) \/ (overlapped /\ ~search))

\* searchLogs: the rows shown stay until the answer.
SearchLogs ==
    /\ lastSearch' = RangeOf(fromDate, toDate)
    /\ AskReport(lastSearch', <<>>, TRUE)
    /\ UNCHANGED <<serverRows, report, switches, datesVars, logs, tableVars>>

\* Mutant: the dates of the form are used.
MoreQueryOfForm == RangeOf(fromDate, toDate)

\* { ...lastSearchParams, offset: logs.length }
MoreQuery == lastSearch

\* onChangePage: at the last page, if it is full, getMoreLogs.
ChangeTablePage ==
    /\ logs # <<>>
    /\ \E p \in 0 .. (Len(logs) - 1) \div pageSize :
          /\ p # tablePage /\ tablePage' = p
          /\ IF Len(logs) = (p + 1) * pageSize
             THEN AskReport(MoreQuery, logs, FALSE)
             ELSE UNCHANGED <<reportAsks, reportSent, overlapped>>
    /\ UNCHANGED <<serverRows, report, switches, datesVars, logs, lastSearch, pageSize>>

\* The table goes back to its first page.
ChangePageSize ==
    /\ logs # <<>>
    /\ pageSize' \in PageSizes \ {pageSize} /\ tablePage' = 0
    /\ UNCHANGED <<serverRows, report, switches, datesVars, logs, lastSearch, reportAsks,
                   reportSent, overlapped>>

ServeReport ==
    /\ \E a \in reportAsks :
          /\ ~a.served
          /\ reportAsks' = (reportAsks \ {a}) \cup
                {[a EXCEPT !.served = TRUE, !.rows = RowsOf(a.q, Len(a.base))]}
    /\ UNCHANGED <<serverRows, report, switches, datesVars, logs, lastSearch, reportSent,
                   tableVars, overlapped>>

\* A component that is unmounted draws nothing.
Mine(a) == a.of = switches

\* Mutant: the page is kept.
TableKeepsPage(count) == UNCHANGED tableVars

\* The table is unmounted when there are no rows; it goes back to a page it has.
TableOf(count) ==
    IF count = 0 THEN tablePage' = 0 /\ pageSize' = DefaultSize
    ELSE /\ tablePage' = IF tablePage * pageSize < count THEN tablePage
                         ELSE (count - 1) \div pageSize
         /\ UNCHANGED pageSize

\* The answers come in any order; a request that fails is answered with no rows.
ReportReturns ==
    /\ \E a \in reportAsks, failed \in BOOLEAN :
          /\ failed \/ a.served
          /\ reportAsks' = reportAsks \ {a}
          /\ logs' = IF ~Mine(a) THEN logs ELSE
                     a.base \o (IF failed THEN <<>> ELSE
                        [i \in 1 .. Len(a.rows) |->
                            [row |-> a.rows[i], q |-> a.q, of |-> a.of]])
          /\ TableOf(Len(logs'))
    /\ UNCHANGED <<serverRows, report, switches, datesVars, lastSearch, reportSent, overlapped>>

\* The state of the component that is unmounted is gone.
ClearRows ==
    /\ logs' = <<>> /\ lastSearch' = NoSearch
    /\ tablePage' = 0 /\ pageSize' = DefaultSize

\* The menu: another report is mounted; the dates are of ReportDashboard.
ShowReport ==
    /\ switches < MaxSwitches /\ switches' = switches + 1
    /\ report' \in ReportKinds \ {report}
    /\ ClearRows
    /\ overlapped' = FALSE
    /\ UNCHANGED <<serverRows, datesVars, reportAsks, reportSent>>

ReportsNext ==
    \/ AddRow \/ CleanLogs \/ PickDates
    \/ SearchLogs \/ ChangeTablePage \/ ChangePageSize
    \/ ServeReport \/ ReportReturns \/ ShowReport

ReportsSpec == ReportsInit /\ [][ReportsNext]_reportVars

-----------------------------------------------------------------------------
\* The page of the table is one it has.
ReportsTypeOK ==
    /\ oldest \in FirstRow .. MaxRow + 1 /\ newest \in oldest - 1 .. MaxRow
    /\ report \in ReportKinds /\ pageSize \in PageSizes
    /\ tablePage \in Nat /\ (logs # <<>> => tablePage * pageSize < Len(logs))

\* The i-th row shown is the i-th row of the query it was asked with, although
\* rows are added and deleted between two requests, and however searches and
\* requests for more of them overlap: none is shown twice and none left out.  Not
\* so if the range went on after the rows there were: those added meanwhile move
\* the others, of which some are shown twice.
RowAtItsOffset == \A i \in 1 .. Len(logs) : ~logs[i].q.open => logs[i].row = logs[i].q.to - i

\* But no row of a search is left out between two that are shown, in any case.
NoneLeftOut ==
    \A i \in 2 .. Len(logs) :
        logs[i].q = logs[i - 1].q => logs[i].row >= logs[i - 1].row - 1

\* When requests do not overlap, every row is of the last search, whatever is
\* picked in the form after it.  When they do, the answer to an earlier one may
\* replace the rows of the last search, or be put before them.
OneSearch ==
    OwnAsks = {} /\ ~overlapped => \A i \in 1 .. Len(logs) : logs[i].q = lastSearch

\* A report shows its own rows only, also when the answer of another one comes
\* after the menu was used.
RowsOfTheReport == \A i \in 1 .. Len(logs) : logs[i].of = switches

\* A table holds the rows of its own report and, unless requests overlapped, of
\* one search, each at its place if none could be added.
ReportsAreSound ==
    /\ RowAtItsOffset
    /\ NoneLeftOut
    /\ OneSearch
    /\ RowsOfTheReport
=============================================================================
