-------------------------- MODULE NegotiationStatus --------------------------
(***************************************************************************)
(* The table of conflicts that is built from the messages of the           *)
(* trajectory server (dashboard/src/managers/negotiation-status-           *)
(* manager.ts).  A participant's status is the length of its sequence and  *)
(* one flag, which is told apart in roots only.  The versions of conflicts *)
(* are sorted as the strings that are the keys of the table.               *)
(***************************************************************************)
EXTENDS Integers, FiniteSets

CONSTANTS
    Versions,      \* versions of conflicts, of up to six digits
    Participants,
    RetainCount    \* resolved conflicts that are kept (50)

Million == 1000 * 1000

ASSUME NegotiationAssumption ==
    /\ IsFiniteSet(Versions) /\ \A v \in Versions : v \in Nat /\ v < Million
    /\ IsFiniteSet(Participants)
    /\ RetainCount \in Nat

VARIABLES
    socket,       \* connecting or open
    subscribing,  \* startSubscription waits for onopen
    subscribed,   \* the server pushes its messages
    conflicts,    \* conflicts[v]: the conflict, for the versions in the table
    roots,        \* history: roots[v][p]: the flag of the last root status
    concluded     \* history: concluded[v]: the last conclusion that came for it

negoVars == <<socket, subscribing, subscribed, conflicts, roots, concluded>>

NoStatus == [length |-> 0, flag |-> "clear"]
Unheard  == [hasTerminal |-> FALSE, base |-> NoStatus, terminal |-> NoStatus]
NewConflict == [status |-> [p \in Participants |-> Unheard], resolved |-> "UNKNOWN"]

Known == DOMAIN conflicts

NegoInit ==
    /\ socket = "connecting" /\ subscribing = FALSE /\ subscribed = FALSE
    /\ conflicts = [v \in {} |-> NewConflict]
    /\ roots = [v \in Versions |-> [p \in Participants |-> "none"]]
    /\ concluded = [v \in Versions |-> "UNKNOWN"]

\* startSubscription: at once, or from onopen.
StartSubscription ==
    /\ IF socket = "open" THEN subscribed' = TRUE /\ UNCHANGED subscribing
                          ELSE subscribing' = TRUE /\ UNCHANGED subscribed
    /\ UNCHANGED <<socket, conflicts, roots, concluded>>

OnOpen ==
    /\ socket = "connecting" /\ socket' = "open"
    /\ subscribed' = subscribing /\ subscribing' = FALSE
    /\ UNCHANGED <<conflicts, roots, concluded>>

\* The first status of a participant is its base, and so is every root.
Updated(data, status) ==
    IF data = Unheard \/ status.length = 1 THEN [data EXCEPT !.base = status]
    ELSE [data EXCEPT !.hasTerminal = TRUE, !.terminal = status]

\* A negotiation_status: a conflict that is not in the table is put there.
StatusMessage(v, p) ==
    /\ subscribed
    /\ \E length \in 1 .. 2, flag \in {"clear", "set"} :
          LET status == [length |-> length, flag |-> flag]
              known  == IF v \in Known THEN conflicts[v] ELSE NewConflict
          IN
          /\ length = 2 => flag = "clear"
          /\ conflicts' = [w \in Known \cup {v} |->
                 IF w = v THEN [known EXCEPT !.status[p] = Updated(@, status)] ELSE conflicts[w]]
          /\ roots' = [roots EXCEPT ![v] = [q \in Participants |->
                 IF q = p /\ length = 1 THEN flag ELSE IF v \in Known THEN @[q] ELSE "none"]]
    /\ concluded' = [concluded EXCEPT ![v] = IF v \in Known THEN @ ELSE "UNKNOWN"]
    /\ UNCHANGED <<socket, subscribing, subscribed>>

\* The order of the keys: as strings, that is as the numbers are when all are
\* filled up with zeros on the right; of two that differ in such zeros only, the
\* shorter is first.
Digits(v) == IF v < 10 THEN 1 ELSE IF v < 100 THEN 2 ELSE IF v < 1000 THEN 3
             ELSE IF v < 10 * 1000 THEN 4 ELSE IF v < 100 * 1000 THEN 5 ELSE 6
Padded(v) == <<100 * 1000, 10 * 1000, 1000, 100, 10, 1>>[Digits(v)] * v
Before(v, w) == Padded(v) < Padded(w) \/ (Padded(v) = Padded(w) /\ v < w)

\* Mutant: the last ones are removed.
TooManyLast(resolved) ==
    {v \in resolved : Cardinality({w \in resolved : Before(w, v)}) >= RetainCount}

\* Mutant: one less is kept.
TooManyOffByOne(resolved) ==
    {v \in resolved : Cardinality({w \in resolved : Before(v, w)}) > RetainCount}

\* removeOldConflicts: those at the front, until RetainCount are left.
TooMany(resolved) ==
    {v \in resolved : Cardinality({w \in resolved : Before(v, w)}) >= RetainCount}

\* status.resolved & RESOLVED: not those that failed.
ResolvedOf(table) == {v \in DOMAIN table : table[v].resolved = "RESOLVED"}

\* A negotiation_conclusion, which nobody is told of.
ConclusionMessage(v) ==
    /\ subscribed /\ v \in Known
    /\ \E how \in {"RESOLVED", "FAILED"} :
          LET table == [conflicts EXCEPT ![v].resolved = how]
              old   == TooMany(ResolvedOf(table))
          IN /\ conflicts' = [w \in Known \ old |-> table[w]]
             /\ concluded' = [concluded EXCEPT ![v] = how]
    /\ UNCHANGED <<socket, subscribing, subscribed, roots>>

NegoNext ==
    \/ StartSubscription \/ OnOpen
    \/ \E v \in Versions : ConclusionMessage(v) \/ \E p \in Participants : StatusMessage(v, p)

NegoSpec == NegoInit /\ [][NegoNext]_negoVars

-----------------------------------------------------------------------------
\* No more than RetainCount resolved conflicts are in the table.
NegoTypeOK ==
    /\ Known \subseteq Versions /\ Cardinality(ResolvedOf(conflicts)) <= RetainCount
    /\ \A v \in Known : conflicts[v].resolved \in {"UNKNOWN", "RESOLVED", "FAILED"}
    /\ socket \in {"connecting", "open"} /\ {subscribing, subscribed} \subseteq BOOLEAN
    /\ subscribed => socket = "open"

\* The base of a participant is the last root status that came for it, however
\* roots and longer sequences are mixed, and after the conflict was removed and
\* came back.
RootIsBase ==
    \A v \in Known, p \in Participants :
        roots[v][p] # "none" => conflicts[v].status[p].base = [length |-> 1, flag |-> roots[v][p]]

\* In whatever order they were concluded, what is removed is older than every
\* resolved conflict that stays, unless its version has more digits: sorted as
\* strings, 10 goes and 9 stays.
NewestStay ==
    \A v \in Known \ DOMAIN conflicts', w \in ResolvedOf(conflicts') :
        v < w \/ Digits(v) > Digits(w)

\* A conflict that was never concluded, or that failed last, is not removed.
OnlyResolvedVanish ==
    \A v \in Known \ DOMAIN conflicts' : concluded'[v] = "RESOLVED"

\* The table keeps what is worth keeping: unresolved conflicts, the newest of the
\* resolved of as many digits, and in each the last root status as the base.
NegotiationsAreKept == []RootIsBase /\ [][NewestStay /\ OnlyResolvedVanish]_negoVars
=============================================================================
