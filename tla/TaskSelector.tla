---------------------------- MODULE TaskSelector ----------------------------
(***************************************************************************)
(* Which task /next proposes: the dates of a task, its sort key and the    *)
(* choice, as the code computes them, and the documented v0 policy.        *)
(*                                                                         *)
(* An instant is a natural number, and so is a task id, numbered in the    *)
(* order in which ids compare.                                             *)
(***************************************************************************)
EXTENDS Integers, SequencesExt

CONSTANTS Times,          \* instants, and readings of the user's clock
          LocalToUtc,     \* the user's timezone
          NoDate,
          NoTask

ASSUME DatesAssumption ==
    /\ Times \subseteq Nat
    /\ LocalToUtc \in [Times -> Times]
    /\ NoDate \notin Times

\* A date of Singularity, with an offset from UTC or without; what a mapped
\* task keeps of it.
Date == [local : BOOLEAN, at : Times]
OptionalDate == Date \cup {NoDate}
OptionalInstant == Times \cup {NoDate}

Priorities == {"high", "normal", "low"}

TaskResponse == [ id : Nat, start : OptionalDate, deadline : OptionalDate,
                  priority : 0 .. 2 ]

Task == [ id : Nat, start : OptionalInstant, deadline : OptionalInstant,
          priority : Priorities ]

ASSUME NoTaskAssumption == NoTask \notin Task

-----------------------------------------------------------------------------

\* A date without offset is one of the user's timezone.
NormalizeOptional(date) ==
    IF date = NoDate THEN NoDate
    ELSE IF date.local THEN LocalToUtc[date.at] ELSE date.at

TaskPriorities == [p \in 0 .. 2 |-> <<"high", "normal", "low">>[p + 1]]

MapTask(response) ==
    [ id |-> response.id,
      start |-> NormalizeOptional(response.start),
      deadline |-> NormalizeOptional(response.deadline),
      priority |-> TaskPriorities[response.priority] ]

-----------------------------------------------------------------------------

PriorityOrder == [high |-> 0, normal |-> 1, low |-> 2]

Bit(b) == IF b THEN 1 ELSE 0

Distance(a, b) == IF a >= b THEN a - b ELSE b - a

\* Mutant: distance from the deadline before presence of a deadline.
KeyByDistance(task, now) ==
    << Bit(task.deadline = NoDate \/ task.deadline >= now),
       PriorityOrder[task.priority],
       IF task.deadline # NoDate THEN Distance(task.deadline, now) ELSE 0,
       Bit(task.deadline = NoDate),
       Bit(task.start = NoDate),
       IF task.start # NoDate THEN task.start ELSE now,
       task.id >>

SelectionKey(task, now) ==
    << Bit(task.deadline = NoDate \/ task.deadline >= now),
       PriorityOrder[task.priority],
       Bit(task.deadline = NoDate),
       IF task.deadline # NoDate THEN Distance(task.deadline, now) ELSE 0,
       Bit(task.start = NoDate),
       IF task.start # NoDate THEN task.start ELSE now,
       task.id >>

\* The order of tuples.
KeyLess(a, b) ==
    \E i \in 1 .. 7 : a[i] < b[i] /\ \A j \in 1 .. i - 1 : a[j] = b[j]

Startable(task, now) == task.start = NoDate \/ task.start <= now

Candidates(tasks, now) == {i \in DOMAIN tasks : Startable(tasks[i], now)}

\* min() keeps the first of equal ones.
IsFirst(i, tasks, now) ==
    \A j \in Candidates(tasks, now) :
        LET a == SelectionKey(tasks[i], now)
            b == SelectionKey(tasks[j], now)
        IN  KeyLess(a, b) \/ (a = b /\ i <= j)

SelectNextTask(tasks, now) ==
    IF Candidates(tasks, now) = {} THEN NoTask
    ELSE tasks[CHOOSE i \in Candidates(tasks, now) : IsFirst(i, tasks, now)]

-----------------------------------------------------------------------------
(***************************************************************************)
(* The temporary v0 policy of docs/architecture.md, in its own words:      *)
(* overdue first; then priority, nearest deadline, earlier start, id; a    *)
(* present date before a missing one.                                      *)
(***************************************************************************)

Overdue(task, now) == task.deadline # NoDate /\ task.deadline < now

Urgency(a, b) == <<a, b>> \in {<<"high", "normal">>, <<"high", "low">>, <<"normal", "low">>}

NearerDeadline(a, b, now) ==
    /\ a.deadline # NoDate
    /\ \/ b.deadline = NoDate
       \/ Distance(a.deadline, now) < Distance(b.deadline, now)

EarlierStart(a, b) ==
    /\ a.start # NoDate
    /\ b.start = NoDate \/ a.start < b.start

RanksBefore(a, b, now) ==
    \/ Overdue(a, now) /\ ~Overdue(b, now)
    \/ /\ Overdue(a, now) = Overdue(b, now)
       /\ \/ Urgency(a.priority, b.priority)
          \/ /\ a.priority = b.priority
             /\ \/ NearerDeadline(a, b, now)
                \/ /\ ~NearerDeadline(b, a, now)
                   /\ \/ EarlierStart(a, b)
                      \/ ~EarlierStart(b, a) /\ a.id < b.id
=============================================================================
