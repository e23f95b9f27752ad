----------------------------- MODULE NextAction -----------------------------
(***************************************************************************)
(* /next: the active tasks are read from Singularity page by page, while   *)
(* the user goes on working there, and the best of what was read is the    *)
(* answer.  The reference time is taken before the read, which takes time. *)
(***************************************************************************)
EXTENDS TaskSelector

CONSTANTS Ids,            \* the tasks of the user
          Catalogs,       \* what Singularity may know of them
          PageSize,
          MaxChanges      \* bounds the changes made in Singularity

VARIABLES catalog,        \* dates and priority of each task
          remote,         \* the active tasks, in the order of the API
          stage,
          now,
          offset,
          tasks,          \* what has been read
          answer,
          changes,
          throughout,     \* observer: active since the read began
          disturbed,      \* observer: how many were removed or moved since
          answeredAt      \* observer: the clock when the answer was ready

nvars == <<catalog, remote, stage, now, offset, tasks, answer, changes,
           throughout, disturbed, answeredAt>>

Content == [start : OptionalDate, deadline : OptionalDate, priority : 0 .. 2]

ASSUME NextActionAssumption ==
    /\ Ids \subseteq Nat
    /\ IsFiniteSet(Ids)
    /\ Catalogs \subseteq [Ids -> Content]
    /\ PageSize \in Nat \ {0}
    /\ MaxChanges \in Nat

\* retryable, failed   the read ended with a TaskReadError that is or is not
\* retryable; unexpected   with an exception nobody classifies
Stages == {"idle", "reading", "answered", "retryable", "failed", "unexpected"}

Response(id) ==
    [ id |-> id, start |-> catalog[id].start,
      deadline |-> catalog[id].deadline, priority |-> catalog[id].priority ]

\* The API returns each active task once.
Active(ids) == IsInjective(ids)

NextActionInit ==
    /\ catalog \in Catalogs
    /\ remote \in {ids \in SeqOf(Ids, Cardinality(Ids)) : Active(ids)}
    /\ stage = "idle"
    /\ now = 0
    /\ offset = 0
    /\ tasks = <<>>
    /\ answer = NoTask
    /\ changes = 0
    /\ throughout = {}
    /\ disturbed = 0
    /\ answeredAt = 0

-----------------------------------------------------------------------------

BeginRead ==
    /\ stage # "reading"
    /\ stage' = "reading"
    /\ now' \in Times
    /\ offset' = 0
    /\ tasks' = <<>>
    /\ answer' = NoTask
    /\ throughout' = ToSet(remote)
    /\ disturbed' = 0
    /\ answeredAt' = 0
    /\ UNCHANGED <<catalog, remote, changes>>

\* What the API returns from an offset on: less than it was asked for, or
\* nothing, at the end of the list.
Page(from) ==
    LET ids == SubSeq(remote, from + 1,
                      IF from + PageSize <= Len(remote) THEN from + PageSize
                      ELSE Len(remote))
    IN  [i \in DOMAIN ids |-> MapTask(Response(ids[i]))]

\* Mutants: a full page is the last one; no page is.
IsLastIfNotEmpty(page) == Len(page) <= PageSize
IsNeverLast(page) == Len(page) > PageSize

IsLast(page) == Len(page) < PageSize

\* Mutant: off by one.
NextOffsetTooFar == offset + PageSize + 1

NextOffset == offset + PageSize

ReadPage ==
    /\ stage = "reading"
    /\ ~IsLast(Page(offset))
    /\ tasks' = tasks \o Page(offset)
    /\ offset' = NextOffset
    /\ UNCHANGED <<catalog, remote, stage, now, answer, changes, throughout,
                   disturbed, answeredAt>>

\* The last page: the use case selects by the time the handler took before
\* the first page, and the handler answers, whatever the time is by then.
ReadLastPage ==
    /\ stage = "reading"
    /\ IsLast(Page(offset))
    /\ tasks' = tasks \o Page(offset)
    /\ stage' = "answered"
    /\ answer' = SelectNextTask(tasks', now)
    /\ answeredAt' \in {t \in Times : t >= now}
    /\ UNCHANGED <<catalog, remote, now, offset, changes, throughout, disturbed>>

\* Mutant: what was read before the failure is answered.
ReadFailsAnswering ==
    /\ stage = "reading"
    /\ stage' \in {"retryable", "failed", "unexpected"}
    /\ answer' = SelectNextTask(tasks, now)
    /\ UNCHANGED <<catalog, remote, now, offset, tasks, changes, throughout,
                   disturbed, answeredAt>>

\* A 5xx, or no response: retryable.  A 4xx, or a body the schema rejects:
\* not.  A date at the end of the calendar: an OverflowError that is neither.
\* What was read before is dropped.
ReadFails ==
    /\ stage = "reading"
    /\ stage' \in {"retryable", "failed", "unexpected"}
    /\ tasks' = <<>>
    /\ UNCHANGED <<catalog, remote, now, offset, answer, changes, throughout,
                   disturbed, answeredAt>>

-----------------------------------------------------------------------------
\* Meanwhile, in Singularity.

Change == changes < MaxChanges /\ changes' = changes + 1

\* A task is created or becomes active again, anywhere in the order.
AddTask(id) ==
    /\ Change
    /\ id \notin ToSet(remote)
    /\ \E i \in 1 .. Len(remote) + 1 : remote' = InsertAt(remote, i, id)
    /\ UNCHANGED <<catalog, stage, now, offset, tasks, answer, throughout,
                   disturbed, answeredAt>>

\* It is completed, archived or deleted.
RemoveTask(i) ==
    /\ Change
    /\ remote' = RemoveAt(remote, i)
    /\ throughout' = throughout \ {remote[i]}
    /\ disturbed' = disturbed + 1
    /\ UNCHANGED <<catalog, stage, now, offset, tasks, answer, answeredAt>>

\* It gets another place in the order.
MoveTask(i) ==
    /\ Change
    /\ \E j \in DOMAIN remote : remote' = InsertAt(RemoveAt(remote, i), j, remote[i])
    /\ disturbed' = disturbed + 1
    /\ UNCHANGED <<catalog, stage, now, offset, tasks, answer, throughout,
                   answeredAt>>

NextActionNext ==
    \/ BeginRead \/ ReadPage \/ ReadLastPage \/ ReadFails
    \/ \E id \in Ids : AddTask(id)
    \/ \E i \in DOMAIN remote : RemoveTask(i) \/ MoveTask(i)

NextActionSpec == NextActionInit /\ [][NextActionNext]_nvars

-----------------------------------------------------------------------------

\* Type invariant.  A read that failed is not answered from the pages it got.
NextActionTypeOK ==
    /\ catalog \in [Ids -> Content]
    /\ remote \in Seq(Ids)
    /\ stage \in Stages
    /\ now \in Times \cup {0}
    /\ offset \in Nat
    /\ tasks \in Seq(Task)
    /\ answer \in Task \cup {NoTask}
    /\ changes \in 0 .. MaxChanges
    /\ throughout \subseteq ToSet(remote)
    /\ disturbed \in 0 .. changes
    /\ answeredAt \in Times \cup {0}
    /\ stage # "answered" => answer = NoTask

Read == {tasks[i].id : i \in DOMAIN tasks}

\* list_active_tasks: "Return all incomplete, non-note, non-removed, and
\* non-archived tasks": what was active from the first request to the last is
\* among them, whatever happens to other tasks meanwhile.
AllActiveAreRead == stage = "answered" => throughout \subseteq Read

\* What the pagination does promise: a task that is removed or moved while it
\* runs hides at most one of those that were active throughout, and a task that
\* appears, also in front of the offset, hides none.
EachDisturbanceHidesOne ==
    stage = "answered" => Cardinality(throughout \ Read) <= disturbed

\* A read ends: it makes no more requests than the tasks fill pages, and one,
\* however the list changes under it.
ReadIsBounded == offset <= Cardinality(Ids)

\* The answer is what the documented policy says of the tasks read, also of
\* those that were read twice.
AnswerFollowsPolicy ==
    stage = "answered" =>
        LET candidates == {t \in ToSet(tasks) : Startable(t, now)}
        IN  IF candidates = {} THEN answer = NoTask
            ELSE /\ answer \in candidates
                 /\ \A t \in candidates : ~RanksBefore(t, answer, now)

\* A task starts, or becomes overdue, between two instants.
ComesDue(task, from, to) ==
    \/ task.start # NoDate /\ from < task.start /\ task.start <= to
    \/ task.deadline # NoDate /\ from <= task.deadline /\ task.deadline < to

\* What the early reference time may cost: by the clock at which the answer is
\* given, only a task that started or became overdue during the read may rank
\* before it.  The answer itself may be proposed, and nothing that could be
\* when the read began still ranks before it because time has passed.
AnswerIsTimely ==
    stage = "answered" =>
        /\ answer # NoTask =>
              answer \in ToSet(tasks) /\ Startable(answer, answeredAt)
        /\ \A t \in ToSet(tasks) :
              Startable(t, answeredAt) /\ ~ComesDue(t, now, answeredAt) =>
                  answer # NoTask /\ ~RanksBefore(t, answer, answeredAt)

\* No task of Singularity that could have been proposed all the time ranks
\* before the answer.
NothingBetterWasActive ==
    stage = "answered" /\ disturbed = 0 =>
        \A id \in throughout :
            LET t == MapTask(Response(id))
            IN  Startable(t, now) =>
                    answer # NoTask /\ ~RanksBefore(t, answer, now)
=============================================================================
