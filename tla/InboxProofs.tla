----------------------------- MODULE InboxProofs -----------------------------
(* What each operation of the inbox does to the row it touches, to the     *)
(* other rows and to the type of the table.                                *)
EXTENDS Inbox, TLAPS

OtherRowsUnchanged(u) == \A v \in Updates \ {u} : inbox'[v] = inbox[v]

LEMMA InitialInbox ==
    ASSUME InboxInit
    PROVE  /\ InboxTypeOK
           /\ \A u \in Updates : /\ inbox[u].status = "absent"
                                 /\ inbox[u].attempt = 0
                                 /\ ~inbox[u].marked
  <1>1. \A k \in Kinds : /\ NoRow(k) \in Row
                         /\ NoRow(k).status = "absent"
                         /\ NoRow(k).attempt = 0
                         /\ NoRow(k).marked = FALSE
    BY DEF NoRow, Row, Statuses
  <1>2. \A u \in Updates : \E k \in Kinds : inbox[u] = NoRow(k)
    BY DEF InboxInit
  <1>3. InboxTypeOK
    BY <1>1 DEF InboxInit, InboxTypeOK
  <1> QED
    BY <1>1, <1>2, <1>3

LEMMA InsertedRow ==
    ASSUME InboxTypeOK, NEW u \in Updates, InsertUpdate(u)
    PROVE  /\ InboxTypeOK'
           /\ OtherRowsUnchanged(u)
           /\ inbox[u].status = "absent"
           /\ inbox'[u].status = "pending"
           /\ inbox'[u].kind = inbox[u].kind
           /\ inbox'[u].attempt = inbox[u].attempt
           /\ inbox'[u].marked = inbox[u].marked
  BY DEF InboxTypeOK, Row, Statuses, TerminalStatuses, InsertUpdate,
         OtherRowsUnchanged

LEMMA ClaimedRow ==
    ASSUME InboxTypeOK, NEW u \in Updates, ClaimPendingUpdate(u)
    PROVE  /\ InboxTypeOK'
           /\ OtherRowsUnchanged(u)
           /\ inbox[u].status = "pending"
           /\ inbox'[u].status = "processing"
           /\ inbox'[u].kind = inbox[u].kind
           /\ inbox'[u].attempt = inbox[u].attempt + 1
           /\ ~inbox'[u].marked
  <1>1. inbox[u] \in Row
    BY DEF InboxTypeOK
  <1>2. Claimed(inbox[u]) \in Row
    BY <1>1 DEF Claimed, Row, Statuses
  <1>3. /\ InboxTypeOK'
        /\ OtherRowsUnchanged(u)
        /\ inbox'[u] = Claimed(inbox[u])
    BY <1>2 DEF ClaimPendingUpdate, InboxTypeOK, OtherRowsUnchanged
  <1> QED
    BY <1>3 DEF Claimed, ClaimPendingUpdate, Claimable

LEMMA MarkedRow ==
    ASSUME InboxTypeOK, NEW c \in Claim, MarkExternalMutationStarted(c)
    PROVE  /\ InboxTypeOK'
           /\ OtherRowsUnchanged(c.update)
           /\ IsCurrent(c)
           /\ inbox'[c.update].status = "processing"
           /\ inbox'[c.update].kind = inbox[c.update].kind
           /\ inbox'[c.update].attempt = c.attempt
           /\ inbox'[c.update].marked
  BY DEF InboxTypeOK, Row, Claim, MarkExternalMutationStarted, CanMark,
         IsCurrent, OtherRowsUnchanged

LEMMA RescheduledRow ==
    ASSUME InboxTypeOK, NEW c \in Claim, Reschedule(c)
    PROVE  /\ InboxTypeOK'
           /\ OtherRowsUnchanged(c.update)
           /\ IsCurrent(c)
           /\ inbox'[c.update].status = "pending"
           /\ inbox'[c.update].kind = inbox[c.update].kind
           /\ inbox'[c.update].attempt = c.attempt
           /\ inbox'[c.update].marked = inbox[c.update].marked
  BY DEF InboxTypeOK, Row, Statuses, TerminalStatuses, Claim, Reschedule,
         IsCurrent, OtherRowsUnchanged

LEMMA ClosedRow ==
    ASSUME InboxTypeOK, NEW c \in Claim, NEW status \in TerminalStatuses,
           MarkTerminal(c, status)
    PROVE  /\ InboxTypeOK'
           /\ OtherRowsUnchanged(c.update)
           /\ IsCurrent(c)
           /\ inbox'[c.update].status = status
           /\ inbox'[c.update].kind = inbox[c.update].kind
           /\ inbox'[c.update].attempt = c.attempt
           /\ inbox'[c.update].marked = inbox[c.update].marked
  BY DEF InboxTypeOK, Row, Statuses, TerminalStatuses, Claim, MarkTerminal,
         IsCurrent, OtherRowsUnchanged

\* A recovery pass leaves a row alone, returns an unmarked claim to the queue
\* or closes a marked one as uncertain.
LEMMA RecoveredRows ==
    ASSUME InboxTypeOK, RecoverAbandonedUpdates
    PROVE  /\ InboxTypeOK'
           /\ \A u \in Updates :
                 /\ inbox'[u].kind = inbox[u].kind
                 /\ inbox'[u].attempt = inbox[u].attempt
                 /\ inbox'[u].marked = inbox[u].marked
                 /\ \/ inbox'[u] = inbox[u]
                    \/ /\ inbox[u].status = "processing"
                       /\ ~inbox[u].marked
                       /\ inbox'[u].status = "pending"
                    \/ /\ inbox[u].status = "processing"
                       /\ inbox[u].marked
                       /\ inbox'[u].status = "uncertain"
  BY DEF InboxTypeOK, Row, Statuses, TerminalStatuses, RecoverAbandonedUpdates,
         Recovered, Abandoned

\* The passage of time changes nothing but the comparisons of the row.
LEMMA AgedRow ==
    ASSUME InboxTypeOK, NEW u \in Updates, BecomeDue(u) \/ ClaimExpires(u)
    PROVE  /\ InboxTypeOK'
           /\ OtherRowsUnchanged(u)
           /\ inbox[u].status \in {"pending", "processing"}
           /\ inbox'[u].status = inbox[u].status
           /\ inbox'[u].kind = inbox[u].kind
           /\ inbox'[u].attempt = inbox[u].attempt
           /\ inbox'[u].marked = inbox[u].marked
  BY DEF InboxTypeOK, Row, BecomeDue, ClaimExpires, OtherRowsUnchanged

-----------------------------------------------------------------------------
(* The table by itself.                                                    *)

\* Whatever the operation, a row keeps its attempt, and its marker with it,
\* and does not come back to processing; or it is claimed.
RowOperated(u) ==
    /\ inbox'[u].kind = inbox[u].kind
    /\ \/ /\ inbox'[u].attempt = inbox[u].attempt
          /\ inbox[u].marked => inbox'[u].marked
          /\ inbox'[u].status = "processing" => inbox[u].status = "processing"
       \/ /\ inbox'[u].attempt = inbox[u].attempt + 1
          /\ inbox[u].status = "pending"

\* Only claims give out attempts, and they count from one.
InboxInv ==
    /\ InboxTypeOK
    /\ \A u \in Updates :
          inbox[u].status = "processing" => inbox[u].attempt >= 1

LEMMA SomeRecoveredRows ==
    ASSUME InboxTypeOK, RecoverSome
    PROVE  InboxTypeOK' /\ \A u \in Updates : RowOperated(u)
  <1>1. ASSUME NEW row \in Row
        PROVE  /\ Recovered(row) \in Row
               /\ Recovered(row).kind = row.kind
               /\ Recovered(row).attempt = row.attempt
               /\ Recovered(row).marked = row.marked
               /\ Recovered(row).status = "processing"
                     => row.status = "processing"
    BY <1>1 DEF Recovered, Abandoned, Row, Statuses, TerminalStatuses
  <1>2. PICK S \in SUBSET Updates :
           inbox' = [u \in Updates |-> IF u \in S THEN Recovered(inbox[u])
                                                  ELSE inbox[u]]
    BY DEF RecoverSome
  <1>3. \A u \in Updates :
           inbox[u] \in Row /\ inbox'[u] \in {inbox[u], Recovered(inbox[u])}
    BY <1>2 DEF InboxTypeOK
  <1> QED
    BY <1>1, <1>2, <1>3 DEF InboxTypeOK, RowOperated

LEMMA OperatedRows ==
    ASSUME InboxTypeOK, InboxOperation
    PROVE  InboxTypeOK' /\ \A u \in Updates : RowOperated(u)
  <1>1. ASSUME NEW u \in Updates,
               \/ InsertUpdate(u) \/ ClaimPendingUpdate(u)
               \/ BecomeDue(u) \/ ClaimExpires(u)
        PROVE  InboxTypeOK' /\ \A v \in Updates : RowOperated(v)
    BY <1>1, InsertedRow, ClaimedRow, AgedRow DEF RowOperated, OtherRowsUnchanged
  <1>2. ASSUME NEW u \in Updates, NEW n \in 1 .. inbox[u].attempt,
               LET c == [update |-> u, attempt |-> n] IN
               \/ MarkExternalMutationStarted(c) \/ Reschedule(c)
               \/ \E status \in TerminalStatuses : MarkTerminal(c, status)
        PROVE  InboxTypeOK' /\ \A v \in Updates : RowOperated(v)
    <2> DEFINE c == [update |-> u, attempt |-> n]
    <2>1. c \in Claim /\ c.update = u
      BY <1>2 DEF Claim, InboxTypeOK, Row
    <2>2. \/ MarkExternalMutationStarted(c) \/ Reschedule(c)
          \/ \E status \in TerminalStatuses : MarkTerminal(c, status)
      BY <1>2
    <2> HIDE DEF c
    <2> QED
      BY <2>1, <2>2, MarkedRow, RescheduledRow, ClosedRow
         DEF RowOperated, OtherRowsUnchanged, IsCurrent, TerminalStatuses
  <1> QED
    BY <1>1, <1>2, SomeRecoveredRows DEF InboxOperation

LEMMA InboxInvStarts == InboxInit => InboxInv
  BY InitialInbox DEF InboxInv

LEMMA InboxInvStays ==
    ASSUME InboxInv, [InboxOperation]_inbox
    PROVE  InboxInv'
  <1>1. CASE InboxOperation
    <2>1. InboxTypeOK' /\ \A u \in Updates : RowOperated(u)
      BY <1>1, OperatedRows DEF InboxInv
    <2> QED
      BY <2>1 DEF InboxInv, InboxTypeOK, Row, RowOperated
  <1>2. CASE UNCHANGED inbox
    BY <1>2 DEF InboxInv, InboxTypeOK
  <1> QED
    BY <1>1, <1>2

\* The rows of the table are well typed and a claimed row has an attempt.
THEOREM TableInvariance == InboxSpec => []InboxInv
  <1>1. InboxInv /\ [InboxOperation]_inbox => InboxInv'
    BY InboxInvStays
  <1> QED
    BY <1>1, InboxInvStarts, PTL DEF InboxSpec

\* An attempt number that has lost its row never gets it back, by whatever
\* operations of whatever callers: it is a fence for good.
THEOREM LossesAreFinal == InboxSpec => LostStaysLost
  <1>1. ASSUME InboxInv, InboxOperation,
               NEW u \in Updates, NEW n \in 0 .. inbox[u].attempt
        PROVE  LET c == [update |-> u, attempt |-> n]
               IN  ~IsCurrent(c) => ~IsCurrent(c)'
    BY <1>1, OperatedRows DEF InboxInv, InboxTypeOK, Row, RowOperated, IsCurrent
  <1>2. InboxInv /\ [InboxOperation]_inbox =>
          [\A u \in Updates : \A n \in 0 .. inbox[u].attempt :
              LET c == [update |-> u, attempt |-> n]
              IN  ~IsCurrent(c) => ~IsCurrent(c)']_inbox
    BY <1>1
  <1> QED
    BY <1>2, TableInvariance, PTL DEF InboxSpec, LostStaysLost

\* A marker is there as long as the attempt that set it is the row's latest.
THEOREM MarkersStay == InboxSpec => MarkersOutlast
  <1>1. InboxInv /\ [InboxOperation]_inbox =>
          [\A u \in Updates :
              inbox[u].marked /\ inbox'[u].attempt = inbox[u].attempt
                  => inbox'[u].marked]_inbox
    BY OperatedRows DEF InboxInv, InboxTypeOK, Row, RowOperated
  <1> QED
    BY <1>1, TableInvariance, PTL DEF InboxSpec, MarkersOutlast
=============================================================================
