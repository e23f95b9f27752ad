------------------------------- MODULE Inbox -------------------------------
(***************************************************************************)
(* The telegram_update_inbox table and the operations of its PostgreSQL    *)
(* repository.  One row per Telegram update; each operation is one         *)
(* transaction.                                                            *)
(*                                                                         *)
(* Timestamps are reduced to the two comparisons the statements make:      *)
(*   due      available_at <= now(), read while the row is pending;        *)
(*   expired  claimed_at <= claimed_before, read while it is processing.   *)
(* Either can become true at any moment, so every timing and every skew    *)
(* between the clocks of the workers and of the database is covered.       *)
(***************************************************************************)
EXTENDS Naturals

CONSTANT Updates          \* Telegram update ids

VARIABLE inbox

\* What the payload of an update asks for, as the worker will find it:
\* a capture message, /next, a message no handler takes, or a payload the
\* worker's own validation rejects (stored by another release).
Kinds == {"capture", "next_action", "ignored", "invalid"}

TerminalStatuses == {"succeeded", "failed", "uncertain"}
Statuses == {"absent", "pending", "processing"} \cup TerminalStatuses

Row == [ status  : Statuses,
         kind    : Kinds,
         attempt : Nat,         \* attempt_count
         marked  : BOOLEAN,     \* external_mutation_started_at IS NOT NULL
         due     : BOOLEAN,
         expired : BOOLEAN ]

\* What a worker keeps of a row it claimed; it also names the request the
\* attempt may send.
Claim == [update : Updates, attempt : Nat]

InboxTypeOK == inbox \in [Updates -> Row]

NoRow(k) == [ status |-> "absent", kind |-> k, attempt |-> 0,
              marked |-> FALSE, due |-> FALSE, expired |-> FALSE ]

InboxInit == inbox \in [Updates -> {NoRow(k) : k \in Kinds}]

-----------------------------------------------------------------------------

\* INSERT ... ON CONFLICT DO NOTHING: a redelivered update changes nothing.
InsertUpdate(u) ==
    /\ inbox[u].status = "absent"
    /\ inbox' = [inbox EXCEPT ![u] =
                   [@ EXCEPT !.status = "pending", !.due = TRUE]]

Claimable(u) == inbox[u].status = "pending" /\ inbox[u].due

\* Mutants: the attempt is not counted; the old marker stays.
ClaimedSameAttempt(row) ==
    [ status |-> "processing", kind |-> row.kind, attempt |-> row.attempt,
      marked |-> FALSE, due |-> FALSE, expired |-> FALSE ]

ClaimedWithMarker(row) ==
    [ status |-> "processing", kind |-> row.kind, attempt |-> row.attempt + 1,
      marked |-> row.marked, due |-> FALSE, expired |-> FALSE ]

\* A fresh attempt, without marker.
Claimed(row) ==
    [ status |-> "processing", kind |-> row.kind, attempt |-> row.attempt + 1,
      marked |-> FALSE, due |-> FALSE, expired |-> FALSE ]

\* SELECT ... FOR UPDATE SKIP LOCKED LIMIT 1: rows that other transactions
\* hold are passed over, so any due row may be the first one left.
ClaimPendingUpdate(u) ==
    /\ Claimable(u)
    /\ inbox' = [inbox EXCEPT ![u] = Claimed(@)]

\* Mutants: a fence without the attempt, a fence without the status.
IsProcessing(c) == inbox[c.update].status = "processing"
IsSameAttempt(c) == inbox[c.update].attempt = c.attempt

\* The fence in the WHERE clause of every transition of a claimed update.
IsCurrent(c) == /\ inbox[c.update].status = "processing"
                /\ inbox[c.update].attempt = c.attempt

CanMark(c) == IsCurrent(c) /\ ~inbox[c.update].marked

MarkExternalMutationStarted(c) ==
    /\ CanMark(c)
    /\ inbox' = [inbox EXCEPT ![c.update] = [@ EXCEPT !.marked = TRUE]]

\* Leaves the marker as it is: the next claim clears it.
Reschedule(c) ==
    /\ IsCurrent(c)
    /\ inbox' = [inbox EXCEPT ![c.update] =
                   [@ EXCEPT !.status = "pending", !.due = FALSE,
                             !.expired = FALSE]]

MarkTerminal(c, status) ==
    /\ IsCurrent(c)
    /\ inbox' = [inbox EXCEPT ![c.update] =
                   [@ EXCEPT !.status = status, !.expired = FALSE]]

\* Mutant: a claim is recovered without regard to its age.
AnyClaim(row) == row.status = "processing"

Abandoned(row) == row.status = "processing" /\ row.expired

\* Mutants: recovery does not look at the marker; it only closes marked rows.
RecoveredBlindly(row) ==
    IF Abandoned(row)
    THEN [row EXCEPT !.status = "pending", !.due = TRUE, !.expired = FALSE]
    ELSE row

RecoveredIfMarked(row) ==
    IF Abandoned(row) /\ row.marked
    THEN [row EXCEPT !.status = "uncertain", !.expired = FALSE]
    ELSE row

Recovered(row) ==
    IF ~Abandoned(row) THEN row
    ELSE IF row.marked
         THEN [row EXCEPT !.status = "uncertain", !.expired = FALSE]
         ELSE [row EXCEPT !.status = "pending", !.due = TRUE, !.expired = FALSE]

RecoverAbandonedUpdates == inbox' = [u \in Updates |-> Recovered(inbox[u])]

-----------------------------------------------------------------------------

\* The clocks reach available_at.
BecomeDue(u) ==
    /\ inbox[u].status = "pending"
    /\ ~inbox[u].due
    /\ inbox' = [inbox EXCEPT ![u] = [@ EXCEPT !.due = TRUE]]

\* The clocks reach claimed_at + claim_timeout.
ClaimExpires(u) ==
    /\ inbox[u].status = "processing"
    /\ ~inbox[u].expired
    /\ inbox' = [inbox EXCEPT ![u] = [@ EXCEPT !.expired = TRUE]]

-----------------------------------------------------------------------------
(***************************************************************************)
(* The table by itself: what the repository lets anybody make of it.  The  *)
(* models of the workers and of the webhook are written with these         *)
(* operations; the repository's transactions implement InboxSpec statement *)
(* by statement.                                                           *)
(***************************************************************************)

\* Recovery of some of the abandoned rows: those whose claim is older than
\* its claimed_before.
RecoverSome ==
    \E S \in SUBSET Updates :
        inbox' = [u \in Updates |-> IF u \in S THEN Recovered(inbox[u])
                                               ELSE inbox[u]]

\* A transition is asked for by claims that were handed out, current or not.
InboxOperation ==
    \/ \E u \in Updates : InsertUpdate(u) \/ ClaimPendingUpdate(u)
                          \/ BecomeDue(u) \/ ClaimExpires(u)
    \/ \E u \in Updates : \E n \in 1 .. inbox[u].attempt :
          LET c == [update |-> u, attempt |-> n] IN
          \/ MarkExternalMutationStarted(c) \/ Reschedule(c)
          \/ \E status \in TerminalStatuses : MarkTerminal(c, status)
    \/ RecoverSome

InboxSpec == InboxInit /\ [][InboxOperation]_inbox

\* The attempt number is a fence for good: an attempt that is not current is
\* never current again, so what a worker was once refused (update_worker.py:376,
\* UpdateTransitionError) it may drop, and what it was refused because of a
\* successor it can never overwrite later.
LostStaysLost ==
    [][\A u \in Updates : \A n \in 0 .. inbox[u].attempt :
          LET c == [update |-> u, attempt |-> n]
          IN  ~IsCurrent(c) => ~IsCurrent(c)']_inbox

\* A marker stays with its attempt: only a new claim takes it away.  Recovery
\* relies on it between its two statements, and so does whoever reviews an
\* uncertain update.
MarkersOutlast ==
    [][\A u \in Updates :
          inbox[u].marked /\ inbox'[u].attempt = inbox[u].attempt
              => inbox'[u].marked]_inbox
=============================================================================
