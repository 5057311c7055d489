----------------------------- MODULE LogIntake -----------------------------
(***************************************************************************)
(* How the log lines of the API server become rows of the reporting        *)
(* server: the route /log/rmfserver/ (rest_server/routers/log.py) with     *)
(* create_rmf_server_log and log_model_dispatcher.                         *)
(*                                                                         *)
(* External: fluentd tails the log, posts it in chunks, one at a time, and *)
(* posts a chunk again until it is accepted or its retry timeout is over   *)
(* (example-deployment/k8s/example-full/fluentd-configmap.yaml).  The      *)
(* lines are what RmfBookKeeper logs; those about robots of one name are   *)
(* enough to show how rows of robots are shared: the states of a fleet     *)
(* give a model with the name, those of two fleets, or of a robot that was *)
(* replaced, may give two, and no fleet is looked at.                      *)
(***************************************************************************)
EXTENDS Integers, Sequences

CONSTANTS
    RobotModels,  \* the models of the robots of that name
    MaxLines,     \* bound: lines that are logged
    MaxTries,     \* bound: posts of a chunk within the retry timeout
    MaxFaults     \* bound: connections that break and errors of the database

OtherKinds == {"door", "summary", "health", "noise"}

ASSUME IntakeAssumption ==
    /\ MaxLines \in Nat /\ MaxTries \in Nat \ {0} /\ MaxFaults \in Nat
    /\ RobotModels \cap (OtherKinds \cup {"null"}) = {}

\* A fleet state is the model it gives for the robot.  noise: a line without
\* "INFO:app.BookKeeper.", as a health that is not good; health: a good health.
LineKinds == OtherKinds \cup RobotModels

VARIABLES
    lines,      \* what was logged so far
    chunks,     \* chunks[c] = <<first, last>>, the lines of the c-th chunk
    posted,     \* the chunk that is being posted, 0: none
    line,       \* the line that is handled next
    errorLogs,  \* lines of this post that were in error
    tries,      \* tries[c]: how often the chunk was posted
    outcome,    \* outcome[c]: "waiting", "accepted" or "dropped"
    saved,      \* saved[i]: rows of line i
    robotModels, \* models of the Robot rows of that name, "null" without one
    faults,
    cut,        \* history: the chunks that were being posted at a fault
    firstTold   \* history: what the first line told of the robot was

intakeVars == <<lines, chunks, posted, line, errorLogs, tries, outcome, saved,
                robotModels, faults, cut, firstTold>>
faultVars  == <<faults, cut>>

IntakeInit ==
    /\ lines = <<>> /\ chunks = <<>> /\ posted = 0 /\ line = 1 /\ errorLogs = {}
    /\ tries = <<>> /\ outcome = <<>> /\ saved = <<>>
    /\ robotModels = {} /\ faults = 0 /\ cut = {} /\ firstTold = "nothing"

-----------------------------------------------------------------------------
LastOf(cs) == IF cs = <<>> THEN 0 ELSE cs[Len(cs)][2]

\* The API server logs a line.
LogLine ==
    /\ Len(lines) < MaxLines
    /\ \E k \in LineKinds : lines' = Append(lines, k)
    /\ saved' = Append(saved, 0)
    /\ UNCHANGED <<chunks, posted, line, errorLogs, tries, outcome, robotModels, faultVars,
                   firstTold>>

\* The flush interval ends.
CutChunk ==
    /\ LastOf(chunks) < Len(lines)
    /\ chunks' = Append(chunks, <<LastOf(chunks) + 1, Len(lines)>>)
    /\ tries' = Append(tries, 0) /\ outcome' = Append(outcome, "waiting")
    /\ UNCHANGED <<lines, posted, line, errorLogs, saved, robotModels, faultVars, firstTold>>

\* error_logs = []
FreshErrors == {}

\* The first chunk that waits is posted, for the first time or again.
PostChunk ==
    /\ posted = 0
    /\ \E c \in DOMAIN chunks :
          /\ outcome[c] = "waiting" /\ \A d \in 1 .. c - 1 : outcome[d] # "waiting"
          /\ posted' = c /\ line' = chunks[c][1]
          /\ tries' = [tries EXCEPT ![c] = @ + 1]
    /\ errorLogs' = FreshErrors
    /\ UNCHANGED <<lines, chunks, outcome, saved, robotModels, faultVars, firstTold>>

\* fluentd: a chunk that is not accepted waits, or its time is over.
Refused(c) == [outcome EXCEPT ![c] = IF tries[c] < MaxTries THEN "waiting" ELSE "dropped"]

\* Mutant: Robot.get_or_create(name, model=None).
RobotOfSummaryNull == robotModels \cup {"null"}

\* Robot.get_or_create(name): any row of that name will do, and with two of
\* them it raises MultipleObjectsReturned.
RobotOfSummary == IF robotModels = {} THEN {"null"} ELSE robotModels
Ambiguous == \E r, s \in robotModels : r # s

\* Robot.get_or_create(name, model)
RobotOfState(m) == robotModels \cup {m}

RobotsAfter(k) ==
    CASE k = "summary"        -> RobotOfSummary
      [] k \in RobotModels    -> RobotOfState(k)
      [] OTHER                -> robotModels

IsState(k) == k \in {"door", "summary"} \cup RobotModels

Told(k) ==
    IF firstTold # "nothing" THEN firstTold
    ELSE CASE k = "summary"     -> "summary"
           [] k \in RobotModels -> "state"
           [] OTHER             -> "nothing"

\* Mutant: a line that is in error is tried again.
LineOrAgain == IF lines[line] = "health" THEN line ELSE line + 1

\* for log in logs
LineAfter == line + 1

\* log_model_dispatcher; the logger writes "id_" for what health_status_parser
\* reads as "id", a KeyError that is caught.
HandleLine ==
    /\ posted # 0 /\ line <= chunks[posted][2]
    /\ LET k == lines[line]
       IN /\ ~(k = "summary" /\ Ambiguous)
          /\ robotModels' = RobotsAfter(k)
          /\ saved' = IF IsState(k) THEN [saved EXCEPT ![line] = @ + 1] ELSE saved
          /\ errorLogs' = IF k = "health" THEN errorLogs \cup {line} ELSE errorLogs
          /\ firstTold' = Told(k)
    /\ line' = LineAfter
    /\ UNCHANGED <<lines, chunks, posted, tries, outcome, faultVars>>

Fault == faults < MaxFaults /\ faults' = faults + 1 /\ cut' = cut \cup {posted}

\* An error of the database at a line that is written to it, before or after the
\* robot is looked up; a fleet state may have been saved for others of its robots.
DatabaseRaises(k) ==
    /\ IsState(k) /\ Fault
    /\ \/ UNCHANGED <<robotModels, firstTold>>
       \/ robotModels' = RobotsAfter(k) /\ firstTold' = Told(k)
    /\ \/ UNCHANGED saved
       \/ k \in RobotModels /\ saved' = [saved EXCEPT ![line] = @ + 1]

\* Neither is caught per line: the post ends here.
RaiseAtLine ==
    /\ posted # 0 /\ line <= chunks[posted][2]
    /\ \/ /\ lines[line] = "summary" /\ Ambiguous
          /\ UNCHANGED <<saved, robotModels, firstTold, faultVars>>
       \/ DatabaseRaises(lines[line])
    /\ posted' = 0 /\ outcome' = Refused(posted)
    /\ UNCHANGED <<lines, chunks, line, errorLogs, tries>>

Accepts == errorLogs = {}

\* 201, or 503 when a line was in error.
AnswerPost ==
    /\ posted # 0 /\ line > chunks[posted][2]
    /\ posted' = 0
    /\ outcome' = IF Accepts THEN [outcome EXCEPT ![posted] = "accepted"] ELSE Refused(posted)
    /\ UNCHANGED <<lines, chunks, line, errorLogs, tries, saved, robotModels, faultVars, firstTold>>

\* The connection breaks or the server stops: fluentd has no answer.  (What a
\* server that lives on does with the rest of the chunk is not modelled.)
LosePost ==
    /\ posted # 0 /\ Fault
    /\ posted' = 0 /\ outcome' = Refused(posted)
    /\ UNCHANGED <<lines, chunks, line, errorLogs, tries, saved, robotModels, firstTold>>

IntakeNext ==
    \/ LogLine \/ CutChunk \/ PostChunk
    \/ HandleLine \/ RaiseAtLine \/ AnswerPost \/ LosePost

IntakeSpec == IntakeInit /\ [][IntakeNext]_intakeVars

\* fluentd flushes, posts and retries; the server handles what it is sent.
IntakeFairness ==
    /\ WF_intakeVars(CutChunk) /\ WF_intakeVars(PostChunk)
    /\ WF_intakeVars(HandleLine \/ RaiseAtLine) /\ WF_intakeVars(AnswerPost)

-----------------------------------------------------------------------------
LinesOf(c) == chunks[c][1] .. chunks[c][2]
HasKind(c, k) == \E i \in LinesOf(c) : lines[i] = k

\* Every logged line is in one chunk at most; a chunk is posted in its turn.
IntakeTypeOK ==
    /\ Len(saved) = Len(lines) /\ Len(tries) = Len(chunks) /\ Len(outcome) = Len(chunks)
    /\ posted \in 0 .. Len(chunks) /\ robotModels \subseteq RobotModels \cup {"null"}
    /\ \A c \in DOMAIN chunks : tries[c] <= MaxTries
    /\ posted # 0 => outcome[posted] = "waiting" /\ errorLogs \subseteq LinesOf(posted)

\* What was accepted is in the database, the good health included.
AcceptedIsSaved ==
    \A c \in DOMAIN chunks : outcome[c] = "accepted" =>
        \A i \in LinesOf(c) : (IsState(lines[i]) => saved[i] >= 1) /\ lines[i] # "health"

\* A state is saved more than once only when its chunk holds a health or a
\* summary of an ambiguous robot, or when the connection or the database failed
\* while this chunk was posted.
TwiceOnlyWithCause ==
    \A c \in DOMAIN chunks : \A i \in LinesOf(c) :
        saved[i] > 1 => \/ HasKind(c, "health") \/ c \in cut
                        \/ HasKind(c, "summary") /\ Ambiguous

TwoModelsLogged ==
    \E i, j \in DOMAIN lines :
        lines[i] \in RobotModels /\ lines[j] \in RobotModels /\ lines[i] # lines[j]

\* A name has two rows only if a summary came before every state of it, or if the
\* states gave two models with it: else it has one row for good, and none of its
\* summaries raises.
AmbiguousOnlyWithCause == Ambiguous => firstTold = "summary" \/ TwoModelsLogged

\* Every line that is logged is accepted or given up: a chunk with a line that
\* is always in error does not stop those behind it for good.
EveryLineEnds ==
    []<>(\A i \in DOMAIN lines : \E c \in DOMAIN chunks :
            i \in LinesOf(c) /\ outcome[c] \in {"accepted", "dropped"})

\* What is accepted is saved, and what is saved twice, or raises for good, has one
\* of the causes named.
IntakeIsSound ==
    /\ AcceptedIsSaved
    /\ TwiceOnlyWithCause
    /\ AmbiguousOnlyWithCause
=============================================================================
