------------------------- MODULE InboxTransactions -------------------------
(***************************************************************************)
(* The repository's transactions as PostgreSQL runs them at READ COMMITTED *)
(* (the default isolation level, which nothing overrides): a statement     *)
(* takes a snapshot, comes to the rows it matched one after the other,     *)
(* waits for or skips those another transaction has written, looks at the  *)
(* latest version again, writes it and keeps it locked to the end.         *)
(*                                                                         *)
(* inbox holds the committed rows.  Inbox and the modules that use it take *)
(* each operation as one step; here that is shown.  What the insert waits  *)
(* for is in Webhook; a committed insert is one step here.                 *)
(***************************************************************************)
EXTENDS Inbox

CONSTANTS Txns,           \* the connections that run transactions
          MaxAttempts     \* bounds the claims of an update

VARIABLE tx

tvars == <<inbox, tx>>

ASSUME MaxAttemptsAssumption == MaxAttempts \in Nat

\* The updates of one claimed row: one statement, named for what it records.
Transitions == {"mark", "reschedule"} \cup TerminalStatuses
Operations == Transitions \cup {"claim", "recover"}

\* claims   the claims a statement is about: that of a transition, or for
\*          recovery those older than its claimed_before
\* second   recovery is at its second statement
\* matched  the rows of the statement's snapshot it has not come to yet
\* at       the row it has come to, waiting for it if need be
\* wrote    the rows it has written and not committed: it holds their locks
\* doubted  those of them that the second statement wrote
\* read     attempt_count as the claim loaded it
Transaction ==
    [ op : Operations \cup {"none"}, claims : SUBSET Claim,
      second : BOOLEAN, matched : SUBSET Updates, at : SUBSET Updates,
      wrote : SUBSET Updates, doubted : SUBSET Updates, read : Nat ]

NoTransaction ==
    [ op |-> "none", claims |-> {}, second |-> FALSE, matched |-> {},
      at |-> {}, wrote |-> {}, doubted |-> {}, read |-> 0 ]

\* What the payload asks for plays no part here.
TxInit ==
    /\ inbox = [u \in Updates |-> NoRow("capture")]
    /\ tx = [t \in Txns |-> NoTransaction]

-----------------------------------------------------------------------------

ClaimOf(u) == [update |-> u, attempt |-> inbox[u].attempt]

IsClaimed(x, u) == inbox[u].status = "processing" /\ ClaimOf(u) \in x.claims

\* Mutant: the second statement of recovery runs first.
WhereSwapped(x, u) ==
    \/ x.op = "claim" /\ Claimable(u) /\ inbox[u].attempt < MaxAttempts
    \/ x.op = "recover" /\ IsClaimed(x, u) /\ inbox[u].marked # x.second
    \/ x.op = "mark" /\ IsClaimed(x, u) /\ ~inbox[u].marked
    \/ x.op \in Transitions \ {"mark"} /\ IsClaimed(x, u)

\* The WHERE clause of the statement a transaction is at.
Where(x, u) ==
    \/ x.op = "claim" /\ Claimable(u) /\ inbox[u].attempt < MaxAttempts
    \/ x.op = "recover" /\ IsClaimed(x, u) /\ inbox[u].marked = x.second
    \/ x.op = "mark" /\ IsClaimed(x, u) /\ ~inbox[u].marked
    \/ x.op \in Transitions \ {"mark"} /\ IsClaimed(x, u)

\* A statement sees what was committed when it began, and its own writes:
\* those no longer match it.
Snapshot(x) == {u \in Updates \ x.wrote : Where(x, u)}

Execute(x) == [x EXCEPT !.matched = Snapshot(x)]

Opened(op, claims) == [NoTransaction EXCEPT !.op = op, !.claims = claims]

Begin(t, op, claims) ==
    /\ tx[t].op = "none"
    /\ tx' = [tx EXCEPT ![t] = Execute(Opened(op, claims))]
    /\ UNCHANGED inbox

\* claim_pending_update.
BeginClaim(t) == Begin(t, "claim", {})

\* Only a claim that was handed out is written back.
HandedOut(c) == 1 <= c.attempt /\ c.attempt <= inbox[c.update].attempt

\* Mutant: one transaction records the results of several updates.
BeginTransitions(t) ==
    \E op \in Transitions, u, v \in Updates :
        /\ HandedOut(ClaimOf(u)) /\ HandedOut(ClaimOf(v))
        /\ Begin(t, op, {ClaimOf(u), ClaimOf(v)})

BeginTransition(t) ==
    \E op \in Transitions, u \in Updates :
        \E n \in 1 .. inbox[u].attempt :
            Begin(t, op, {[update |-> u, attempt |-> n]})

\* claimed_before is fixed before the first statement.  The code compares it
\* with claimed_at; here the claims it matches are fixed with it, in one step
\* with the first snapshot: clocks that differ by less than the claim timeout,
\* under which no claim made later is as old as claimed_before.
BeginRecovery(t) ==
    Begin(t, "recover", {ClaimOf(u) : u \in {v \in Updates : inbox[v].expired}})

-----------------------------------------------------------------------------

ComeTo(t, u) ==
    /\ tx[t].at = {}
    /\ u \in tx[t].matched
    /\ LET x == tx[t] IN
       tx' = [tx EXCEPT ![t] = [x EXCEPT !.matched = @ \ {u}, !.at = {u}]]
    /\ UNCHANGED inbox

LockedFor(t, u) == \E s \in Txns \ {t} : u \in tx[s].wrote

\* Mutant: the row is written as the snapshot matched it.
WriteUnchecked(t, u) ==
    /\ u \in tx[t].at
    /\ ~LockedFor(t, u)
    /\ LET x == tx[t] IN
       tx' = [tx EXCEPT ![t] =
                [x EXCEPT !.at = {}, !.wrote = @ \cup {u},
                    !.matched = IF x.op = "claim" THEN {} ELSE @,
                    !.doubted = IF x.second THEN @ \cup {u} ELSE @,
                    !.read = IF x.op = "claim" THEN inbox[u].attempt ELSE @]]
    /\ UNCHANGED inbox

\* The WHERE clause is evaluated again on the latest version of the row.
\* A claim stops at the first row it gets: LIMIT 1.
Write(t, u) ==
    /\ u \in tx[t].at
    /\ ~LockedFor(t, u)
    /\ Where(tx[t], u)
    /\ LET x == tx[t] IN
       tx' = [tx EXCEPT ![t] =
                [x EXCEPT !.at = {}, !.wrote = @ \cup {u},
                    !.matched = IF x.op = "claim" THEN {} ELSE @,
                    !.doubted = IF x.second THEN @ \cup {u} ELSE @,
                    !.read = IF x.op = "claim" THEN inbox[u].attempt ELSE @]]
    /\ UNCHANGED inbox

LeaveRow(t) == tx' = [tx EXCEPT ![t] = [@ EXCEPT !.at = {}]]

\* The row has changed since the snapshot and no longer matches.
PassBy(t, u) ==
    /\ u \in tx[t].at
    /\ ~LockedFor(t, u)
    /\ ~Where(tx[t], u)
    /\ LeaveRow(t)
    /\ UNCHANGED inbox

\* Mutant: every statement skips locked rows.
SkipAnyLocked(t, u) ==
    /\ u \in tx[t].at
    /\ LockedFor(t, u)
    /\ LeaveRow(t)
    /\ UNCHANGED inbox

\* FOR UPDATE SKIP LOCKED, in the claim alone; the others wait.
SkipLocked(t, u) ==
    /\ tx[t].op = "claim"
    /\ u \in tx[t].at
    /\ LockedFor(t, u)
    /\ LeaveRow(t)
    /\ UNCHANGED inbox

StatementOver(t) == tx[t].op # "none" /\ tx[t].matched = {} /\ tx[t].at = {}

SecondStatement(t) ==
    /\ StatementOver(t)
    /\ tx[t].op = "recover"
    /\ ~tx[t].second
    /\ tx' = [tx EXCEPT ![t] = Execute([@ EXCEPT !.second = TRUE])]
    /\ UNCHANGED inbox

-----------------------------------------------------------------------------

\* The SET lists.  The claim stores the attempt count it computed itself.
Written(x, u) ==
    LET row == inbox[u] IN
    CASE x.op = "claim" ->
           [row EXCEPT !.status = "processing", !.attempt = x.read + 1,
                       !.marked = FALSE, !.due = FALSE, !.expired = FALSE]
      [] x.op = "mark" -> [row EXCEPT !.marked = TRUE]
      [] x.op = "reschedule" ->
           [row EXCEPT !.status = "pending", !.due = FALSE, !.expired = FALSE]
      [] x.op \in TerminalStatuses ->
           [row EXCEPT !.status = x.op, !.expired = FALSE]
      [] x.op = "recover" /\ u \in x.doubted ->
           [row EXCEPT !.status = "uncertain", !.expired = FALSE]
      [] x.op = "recover" /\ u \notin x.doubted ->
           [row EXCEPT !.status = "pending", !.due = TRUE, !.expired = FALSE]

LastStatementOver(t) ==
    StatementOver(t) /\ (tx[t].op = "recover" => tx[t].second)

Close(t) == tx' = [tx EXCEPT ![t] = NoTransaction]

\* A claim and a recovery may find nothing to write.
Commit(t) ==
    /\ LastStatementOver(t)
    /\ tx[t].op \in Transitions => tx[t].wrote # {}
    /\ inbox' = [u \in Updates |->
                   IF u \in tx[t].wrote THEN Written(tx[t], u) ELSE inbox[u]]
    /\ Close(t)

\* No row was updated: UpdateTransitionError.
Refuse(t) ==
    /\ LastStatementOver(t)
    /\ tx[t].op \in Transitions
    /\ tx[t].wrote = {}
    /\ Close(t)
    /\ UNCHANGED inbox

\* Mutant: the session ends, its row locks stay.
AbortKeepingLocks(t) ==
    /\ tx[t].op # "none"
    /\ tx' = [tx EXCEPT ![t] = [NoTransaction EXCEPT !.wrote = tx[t].wrote]]
    /\ UNCHANGED inbox

\* The connection is lost, the process dies or is cancelled, or PostgreSQL
\* picks the transaction as the victim of a deadlock.
Abort(t) ==
    /\ tx[t].op # "none"
    /\ Close(t)
    /\ UNCHANGED inbox

-----------------------------------------------------------------------------

TransactionStep(t) ==
    \/ BeginClaim(t) \/ BeginTransition(t) \/ BeginRecovery(t)
    \/ SecondStatement(t) \/ Commit(t) \/ Refuse(t) \/ Abort(t)
    \/ \E u \in Updates :
          ComeTo(t, u) \/ Write(t, u) \/ PassBy(t, u) \/ SkipLocked(t, u)

\* What happens to rows outside the transactions of the workers.
RowStep(u) ==
    /\ InsertUpdate(u) \/ BecomeDue(u) \/ ClaimExpires(u)
    /\ UNCHANGED tx

TxNext == (\E t \in Txns : TransactionStep(t)) \/ (\E u \in Updates : RowStep(u))

TxSpec == TxInit /\ [][TxNext]_tvars

-----------------------------------------------------------------------------

\* Type invariant.  A connection without a transaction holds nothing; a
\* statement is at one row at a time.
TxTypeOK ==
    /\ InboxTypeOK
    /\ tx \in [Txns -> Transaction]
    /\ \A t \in Txns :
          /\ tx[t].op = "none" => tx[t] = NoTransaction
          /\ \A u, v \in tx[t].at : u = v

\* Whatever the transactions do to each other, the committed table changes
\* only by whole operations of Inbox, each applied to the rows as they are
\* at its commit: no update is lost, no row claimed twice, no fence passed
\* on an old version, no marker overlooked.
CommitsAreOperations == InboxSpec

\* The row a transition is meant for, as its WHERE clause wants it.
StillApplies(x, c) ==
    IsCurrent(c) /\ (x.op = "mark" => ~inbox[c.update].marked)

\* UpdateTransitionError is raised only when the attempt has really lost its
\* row - not because another transaction happened to hold it and then rolled
\* back.  The worker gives the result up on it (update_worker.py:376).
RefusedMeansLost ==
    \A t \in Txns :
        tx[t].op \in Transitions /\ StatementOver(t) /\ tx[t].wrote = {} =>
            \A c \in tx[t].claims : ~StillApplies(tx[t], c)

\* A recovery that is about to commit has taken every claim it was to
\* recover and that is still current: its two snapshots let no row slip
\* through, also when the marker of one is committed between them.
RecoveryLeavesNone ==
    \A t \in Txns :
        tx[t].op = "recover" /\ LastStatementOver(t) =>
            \A c \in tx[t].claims : IsCurrent(c) => c.update \in tx[t].wrote

WaitsFor(t, s) ==
    /\ s # t
    /\ tx[t].op # "claim"
    /\ tx[t].at \cap tx[s].wrote # {}

\* In every cycle of transactions that wait for each other there are only
\* recovery passes: a claim, a marker and the result of a handler are never
\* the victims of a deadlock.
OnlyRecoveriesDeadlock ==
    \A S \in SUBSET Txns :
        (\A t \in S : /\ \E s \in S : WaitsFor(t, s)
                      /\ \E s \in S : WaitsFor(s, t))
            => \A t \in S : tx[t].op = "recover"
=============================================================================
