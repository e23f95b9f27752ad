---------------------- MODULE InboxTransactionsProofs ----------------------
(***************************************************************************)
(* For any rows, any number of connections and any number of attempts, the *)
(* transactions implement the operations of Inbox one commit at a time,    *)
(* refuse only attempts that have lost their row, recover all they were to *)
(* recover, and deadlock only among recovery passes.                       *)
(*                                                                         *)
(* The invariant says of every transaction what it knows of the rows it    *)
(* holds, and what has become of those it does not hold.                   *)
(***************************************************************************)
EXTENDS InboxTransactions, InboxProofs

Current(c, rows) ==
    /\ rows[c.update].status = "processing"
    /\ rows[c.update].attempt = c.attempt

Reached(x) == x.matched \cup x.at \cup x.wrote

\* Where a transaction may stand.
ShapeOK(x) ==
    /\ (x.matched \cup x.at) \cap x.wrote = {}
    /\ x.matched \cap x.at = {}
    /\ \A u, v \in x.at : u = v
    /\ x.op = "claim" => \A u, v \in x.wrote : u = v
    /\ x.op = "claim" /\ x.wrote # {} => x.matched = {} /\ x.at = {}
    /\ x.op \in Transitions => \A u, v \in Reached(x) : u = v
    /\ x.second => x.op = "recover"
    /\ x.doubted \subseteq x.wrote

\* The rows it holds are still as its statement wants them.
HoldsOK(x, rows) ==
    \A u \in x.wrote :
        /\ x.op = "claim" => /\ rows[u].status = "pending" /\ rows[u].due
                             /\ rows[u].attempt = x.read
        /\ x.op # "claim" => /\ rows[u].status = "processing"
                             /\ [update |-> u, attempt |-> rows[u].attempt]
                                    \in x.claims
        /\ x.op = "mark" => ~rows[u].marked
        /\ x.op = "recover" => (rows[u].marked <=> u \in x.doubted)

\* Its claims are not ahead of their rows; those of recovery have expired.
ClaimsKnown(x, rows) ==
    \A c \in x.claims :
        /\ c.attempt <= rows[c.update].attempt
        /\ x.op \in Transitions => 1 <= c.attempt
        /\ x.op = "recover" /\ Current(c, rows) => rows[c.update].expired

\* A transition reaches its row unless the attempt has lost it.
FoundOrLost(x, rows) ==
    x.op \in Transitions =>
        \A c \in x.claims :
            \/ c.update \in Reached(x)
            \/ ~Current(c, rows)
            \/ x.op = "mark" /\ rows[c.update].marked

\* Recovery reaches a row it is to recover, or leaves it to its second
\* statement.
TakenOrLeft(x, rows) ==
    x.op = "recover" =>
        \A c \in x.claims :
            Current(c, rows) =>
                \/ c.update \in x.wrote
                \/ /\ c.update \in x.matched \cup x.at
                   /\ x.second => rows[c.update].marked
                \/ ~x.second /\ rows[c.update].marked

TransactionOK(x, rows) ==
    /\ ShapeOK(x) /\ HoldsOK(x, rows) /\ ClaimsKnown(x, rows)
    /\ FoundOrLost(x, rows) /\ TakenOrLeft(x, rows)

LocksExclude ==
    \A s, t \in Txns : s # t => tx[s].wrote \cap tx[t].wrote = {}

TxInv ==
    /\ TxTypeOK
    /\ \A t \in Txns : TransactionOK(tx[t], inbox)
    /\ LocksExclude

\* What any step does to a row.
Evolves(row, new) ==
    /\ row.attempt <= new.attempt
    /\ new.attempt = row.attempt /\ new.status = "processing" =>
          /\ row.status = "processing"
          /\ row.marked => new.marked
          /\ row.expired => new.expired

\* What a step does to a row that a transaction other than its own holds.
Keeps(row, new) ==
    /\ new.status = row.status
    /\ new.attempt = row.attempt
    /\ new.marked = row.marked
    /\ row.due => new.due

LEMMA NothingIsHeld ==
    ASSUME NEW rows
    PROVE  /\ NoTransaction \in Transaction
           /\ TransactionOK(NoTransaction, rows)
  BY DEF NoTransaction, Transaction, TransactionOK, ShapeOK, HoldsOK,
         ClaimsKnown, FoundOrLost, TakenOrLeft, Reached, Transitions,
         TerminalStatuses, Operations, Claim

\* A transaction that takes no step stays right while the rows move on.
LEMMA OthersStayOK ==
    ASSUME NEW rows \in [Updates -> Row], NEW new \in [Updates -> Row],
           NEW x \in Transaction, TransactionOK(x, rows),
           \A u \in Updates : Evolves(rows[u], new[u]),
           \A u \in x.wrote : Keeps(rows[u], new[u])
    PROVE  TransactionOK(x, new)
<1>0. /\ x.wrote \subseteq Updates
      /\ \A c \in x.claims : c.update \in Updates /\ c.attempt \in Nat
  BY DEF Transaction, Claim
<1>1. HoldsOK(x, new)
  BY <1>0 DEF TransactionOK, HoldsOK, Keeps
<1>2. \A c \in x.claims :
         /\ new[c.update].attempt \in Nat
         /\ rows[c.update].attempt \in Nat
         /\ rows[c.update].attempt <= new[c.update].attempt
         /\ c.attempt <= rows[c.update].attempt
  BY <1>0 DEF TransactionOK, ClaimsKnown, Evolves, Row
<1>3. \A c \in x.claims : Current(c, new) =>
         /\ Current(c, rows)
         /\ rows[c.update].marked => new[c.update].marked
         /\ rows[c.update].expired => new[c.update].expired
  <2> SUFFICES ASSUME NEW c \in x.claims, Current(c, new)
               PROVE  /\ Current(c, rows)
                      /\ rows[c.update].marked => new[c.update].marked
                      /\ rows[c.update].expired => new[c.update].expired
    OBVIOUS
  <2>1. Evolves(rows[c.update], new[c.update])
    BY <1>0
  <2>2. rows[c.update].attempt = c.attempt
    BY <1>0, <1>2 DEF Current
  <2> QED
    BY <2>1, <2>2 DEF Current, Evolves
<1>4. ClaimsKnown(x, new)
  BY <1>0, <1>2, <1>3 DEF TransactionOK, ClaimsKnown
<1>5. FoundOrLost(x, new)
  BY <1>3 DEF TransactionOK, FoundOrLost
<1>6. TakenOrLeft(x, new)
  BY <1>3 DEF TransactionOK, TakenOrLeft
<1> QED
  BY <1>1, <1>4, <1>5, <1>6 DEF TransactionOK

\* Where, with the row as a parameter.
Matching(x, u, row) ==
    \/ /\ x.op = "claim"
       /\ row.status = "pending" /\ row.due
    \/ /\ x.op \in Transitions \cup {"recover"}
       /\ row.status = "processing"
       /\ [update |-> u, attempt |-> row.attempt] \in x.claims
       /\ x.op = "mark" => ~row.marked
       /\ x.op = "recover" => row.marked = x.second

LEMMA WhereMatches ==
    ASSUME NEW x, NEW u, Where(x, u)
    PROVE  Matching(x, u, inbox[u])
  BY DEF Where, Matching, IsClaimed, ClaimOf, Claimable, Transitions,
         TerminalStatuses

\* A transition and a recovery come to every row that they would write.
LEMMA WhereCovers ==
    ASSUME NEW x, NEW u, x.op \in Transitions \cup {"recover"},
           inbox[u].status = "processing",
           [update |-> u, attempt |-> inbox[u].attempt] \in x.claims,
           x.op = "mark" => ~inbox[u].marked,
           x.op = "recover" => inbox[u].marked = x.second
    PROVE  Where(x, u)
  BY DEF Where, IsClaimed, ClaimOf, Transitions

\* A statement that has just begun: it holds what the one before it wrote.
LEMMA ExecutedOK ==
    ASSUME TxInv, NEW x \in Transaction, x.op \in Operations, x.at = {},
           x.second => x.op = "recover",
           x.op # "recover" => x.wrote = {},
           x.doubted \subseteq x.wrote,
           x.op \in Transitions => \A c, d \in x.claims : c.update = d.update,
           HoldsOK(x, inbox), ClaimsKnown(x, inbox),
           x.op = "recover" /\ x.second =>
              \A c \in x.claims :
                 Current(c, inbox) => c.update \in x.wrote
                                      \/ inbox[c.update].marked
    PROVE  /\ Execute(x) \in Transaction
           /\ Execute(x).wrote = x.wrote
           /\ TransactionOK(Execute(x), inbox)
<1> DEFINE y == Execute(x)
<1>1. Snapshot(x) \subseteq Updates \ x.wrote
  BY DEF Snapshot
<1>2. /\ y \in Transaction
      /\ y.op = x.op /\ y.claims = x.claims /\ y.second = x.second
      /\ y.matched = Snapshot(x) /\ y.at = {} /\ y.wrote = x.wrote
      /\ y.doubted = x.doubted /\ y.read = x.read
  BY <1>1 DEF Execute, Transaction
<1> HIDE DEF y
<1>3. ShapeOK(y)
  <2>1. \A u \in Snapshot(x) : Matching(x, u, inbox[u])
    BY WhereMatches DEF Snapshot
  <2>2. x.op \in Transitions => \A u \in Snapshot(x) :
           [update |-> u, attempt |-> inbox[u].attempt] \in x.claims
    BY <2>1 DEF Matching, Transitions, TerminalStatuses
  <2>3. x.op \in Transitions => \A u, v \in Reached(y) : u = v
    <3> SUFFICES ASSUME x.op \in Transitions,
                        NEW u \in Snapshot(x), NEW v \in Snapshot(x)
                 PROVE  u = v
      BY <1>2 DEF Reached, Transitions, TerminalStatuses
    <3>1. [update |-> u, attempt |-> inbox[u].attempt].update
            = [update |-> v, attempt |-> inbox[v].attempt].update
      BY <2>2
    <3> QED
      BY <3>1
  <2> QED
    BY <1>1, <1>2, <2>3 DEF ShapeOK, Transitions, TerminalStatuses
<1>4. HoldsOK(y, inbox) /\ ClaimsKnown(y, inbox)
  BY <1>2 DEF HoldsOK, ClaimsKnown
<1>5. \A c \in x.claims :
         /\ c.update \in Updates
         /\ c = [update |-> c.update, attempt |-> c.attempt]
  BY DEF Transaction, Claim
<1>6. FoundOrLost(y, inbox)
  <2> SUFFICES ASSUME x.op \in Transitions, NEW c \in x.claims,
                      Current(c, inbox),
                      x.op = "mark" => ~inbox[c.update].marked
               PROVE  c.update \in Snapshot(x)
    BY <1>2 DEF FoundOrLost, Reached
  <2>1. Where(x, c.update)
    BY <1>5, WhereCovers DEF Current, Transitions, TerminalStatuses
  <2> QED
    BY <1>5, <2>1 DEF Snapshot, Transitions, TerminalStatuses
<1>7. TakenOrLeft(y, inbox)
  <2> SUFFICES ASSUME x.op = "recover", NEW c \in x.claims,
                      Current(c, inbox), c.update \notin x.wrote,
                      x.second \/ ~inbox[c.update].marked
               PROVE  /\ c.update \in Snapshot(x)
                      /\ x.second => inbox[c.update].marked
    BY <1>2 DEF TakenOrLeft
  <2>1. inbox[c.update].marked \in BOOLEAN /\ x.second \in BOOLEAN
    BY <1>5 DEF TxInv, TxTypeOK, InboxTypeOK, Row, Transaction
  <2>2. inbox[c.update].marked = x.second
    BY <2>1
  <2>3. Where(x, c.update)
    BY <1>5, <2>2, WhereCovers DEF Current
  <2> QED
    BY <1>5, <2>2, <2>3 DEF Snapshot
<1> QED
  BY <1>2, <1>3, <1>4, <1>6, <1>7 DEF TransactionOK, y

LEMMA StartsOK == TxInit => TxInv
<1> SUFFICES ASSUME TxInit PROVE TxInv
  OBVIOUS
<1>1. NoRow("capture") \in Row
  BY DEF NoRow, Row, Statuses, Kinds
<1>2. \A t \in Txns : tx[t] = NoTransaction
  BY DEF TxInit
<1>3. TxTypeOK
  BY <1>1, <1>2, NothingIsHeld
  DEF TxInit, TxTypeOK, InboxTypeOK, NoTransaction
<1>4. LocksExclude
  BY <1>2 DEF LocksExclude, NoTransaction
<1> QED
  BY <1>2, <1>3, <1>4, NothingIsHeld DEF TxInv

-----------------------------------------------------------------------------

\* A step of one transaction that commits nothing.
LEMMA QuietStep ==
    ASSUME TxInv, NEW t \in Txns, NEW y \in Transaction,
           tx' = [tx EXCEPT ![t] = y], UNCHANGED inbox,
           y.op = "none" => y = NoTransaction,
           TransactionOK(y, inbox),
           \A s \in Txns \ {t} : y.wrote \cap tx[s].wrote = {}
    PROVE  TxInv'
<1>1. /\ tx' \in [Txns -> Transaction]
      /\ tx'[t] = y
      /\ \A s \in Txns \ {t} : tx'[s] = tx[s]
  BY DEF TxInv, TxTypeOK
<1>2. \A s \in Txns : TransactionOK(tx'[s], inbox')
  BY <1>1 DEF TxInv
<1>3. TxTypeOK'
  BY <1>1, <1>2 DEF TxInv, TxTypeOK, InboxTypeOK, TransactionOK, ShapeOK
<1>4. LocksExclude'
  BY <1>1 DEF TxInv, LocksExclude
<1> QED
  BY <1>2, <1>3, <1>4 DEF TxInv

LEMMA ClosedOK ==
    ASSUME TxInv, NEW t \in Txns, Close(t), UNCHANGED inbox
    PROVE  TxInv'
<1>1. NoTransaction.wrote = {}
  BY DEF NoTransaction
<1> QED
  BY <1>1, NothingIsHeld, QuietStep DEF Close

LEMMA BegunOK ==
    ASSUME TxInv, NEW t \in Txns, NEW op \in Operations,
           NEW claims \in SUBSET Claim, Begin(t, op, claims),
           op \in Transitions => \A c, d \in claims : c.update = d.update,
           ClaimsKnown(Opened(op, claims), inbox)
    PROVE  TxInv'
<1> DEFINE x == Opened(op, claims)
<1>1. /\ x \in Transaction /\ x.op = op /\ x.claims = claims
      /\ x.at = {} /\ ~x.second /\ x.wrote = {} /\ x.doubted = {}
  BY DEF Opened, NoTransaction, Transaction
<1>2. HoldsOK(x, inbox)
  BY <1>1 DEF HoldsOK
<1> HIDE DEF x
<1>3. /\ Execute(x) \in Transaction
      /\ Execute(x).wrote = {}
      /\ TransactionOK(Execute(x), inbox)
  BY <1>1, <1>2, ExecutedOK DEF x
<1>4. Execute(x).op # "none"
  BY <1>1 DEF Execute, Transaction, Operations, Transitions, TerminalStatuses
<1>5. tx' = [tx EXCEPT ![t] = Execute(x)] /\ UNCHANGED inbox
  BY DEF Begin, x
<1> QED
  BY <1>3, <1>4, <1>5, QuietStep

LEMMA ClaimBegunOK ==
    ASSUME TxInv, NEW t \in Txns, BeginClaim(t)
    PROVE  TxInv'
<1>1. ClaimsKnown(Opened("claim", {}), inbox)
  BY DEF ClaimsKnown, Opened, NoTransaction
<1>2. "claim" \in Operations /\ "claim" \notin Transitions
  BY DEF Operations, Transitions, TerminalStatuses
<1>3. {} \in SUBSET Claim
  OBVIOUS
<1>4. Begin(t, "claim", {})
  BY DEF BeginClaim
<1> QED
  BY <1>1, <1>2, <1>3, <1>4, BegunOK

LEMMA TransitionBegunOK ==
    ASSUME TxInv, NEW t \in Txns, BeginTransition(t)
    PROVE  TxInv'
<1>0. PICK op \in Transitions, u \in Updates :
         \E n \in 1 .. inbox[u].attempt :
            Begin(t, op, {[update |-> u, attempt |-> n]})
  BY DEF BeginTransition
<1>1. PICK n \in 1 .. inbox[u].attempt :
         Begin(t, op, {[update |-> u, attempt |-> n]})
  BY <1>0
<1> DEFINE claims == {[update |-> u, attempt |-> n]}
           x == Opened(op, claims)
<1>2. inbox[u].attempt \in Nat
  BY DEF TxInv, TxTypeOK, InboxTypeOK, Row
<1>3. n \in Nat /\ 1 <= n /\ n <= inbox[u].attempt
  BY <1>2
<1>4. claims \in SUBSET Claim
  BY <1>3 DEF Claim
<1>5. x.op = op /\ x.claims = claims
  BY DEF Opened, NoTransaction
<1>6. op # "recover" /\ op \in Operations
  BY DEF Transitions, TerminalStatuses, Operations
<1>7. ClaimsKnown(x, inbox)
  BY <1>3, <1>5, <1>6 DEF ClaimsKnown
<1> QED
  BY <1>1, <1>4, <1>6, <1>7, BegunOK

LEMMA RecoveryBegunOK ==
    ASSUME TxInv, NEW t \in Txns, BeginRecovery(t)
    PROVE  TxInv'
<1> DEFINE claims == {ClaimOf(u) : u \in {v \in Updates : inbox[v].expired}}
           x == Opened("recover", claims)
<1>1. \A u \in Updates : inbox[u].attempt \in Nat
  BY DEF TxInv, TxTypeOK, InboxTypeOK, Row
<1>2. claims \in SUBSET Claim
  BY <1>1 DEF Claim, ClaimOf
<1>3. x.op = "recover" /\ x.claims = claims
  BY DEF Opened, NoTransaction
<1>4. "recover" \in Operations /\ "recover" \notin Transitions
  BY DEF Transitions, TerminalStatuses, Operations
<1>5. ClaimsKnown(x, inbox)
  <2> SUFFICES ASSUME NEW u \in Updates, inbox[u].expired
               PROVE  /\ ClaimOf(u).attempt <= inbox[ClaimOf(u).update].attempt
                      /\ inbox[ClaimOf(u).update].expired
    BY <1>3, <1>4 DEF ClaimsKnown
  <2> QED
    BY <1>1 DEF ClaimOf
<1>6. Begin(t, "recover", claims)
  BY DEF BeginRecovery
<1> QED
  BY <1>2, <1>4, <1>5, <1>6, BegunOK

-----------------------------------------------------------------------------

\* What the invariant says of one transaction.
LEMMA TransactionIsOK ==
    ASSUME TxInv, NEW t \in Txns
    PROVE  tx[t] \in Transaction /\ TransactionOK(tx[t], inbox)
  BY DEF TxInv, TxTypeOK

LEMMA ComeToOK ==
    ASSUME TxInv, NEW t \in Txns, NEW u \in Updates, ComeTo(t, u)
    PROVE  TxInv'
<1> DEFINE x == tx[t]
           y == [x EXCEPT !.matched = @ \ {u}, !.at = {u}]
<1>1. x \in Transaction /\ TransactionOK(x, inbox)
  BY TransactionIsOK
<1>2. /\ y \in Transaction
      /\ y.op = x.op /\ y.claims = x.claims /\ y.second = x.second
      /\ y.matched = x.matched \ {u} /\ y.at = {u} /\ y.wrote = x.wrote
      /\ y.doubted = x.doubted /\ y.read = x.read
  BY <1>1 DEF Transaction
<1>3. /\ tx' = [tx EXCEPT ![t] = y] /\ UNCHANGED inbox
      /\ x.at = {} /\ u \in x.matched
  BY DEF ComeTo
<1> HIDE DEF x, y
<1>4. Reached(y) = Reached(x) /\ y.matched \cup y.at = x.matched \cup x.at
  BY <1>2, <1>3 DEF Reached
<1>5. ShapeOK(y)
  BY <1>1, <1>2, <1>3, <1>4 DEF TransactionOK, ShapeOK
<1>6. HoldsOK(y, inbox) /\ ClaimsKnown(y, inbox)
  BY <1>1, <1>2 DEF TransactionOK, HoldsOK, ClaimsKnown
<1>7. FoundOrLost(y, inbox) /\ TakenOrLeft(y, inbox)
  BY <1>1, <1>2, <1>4 DEF TransactionOK, FoundOrLost, TakenOrLeft
<1>8. y.op # "none"
  BY <1>2, <1>3 DEF TxInv, TxTypeOK, NoTransaction, x
<1>9. \A s \in Txns \ {t} : y.wrote \cap tx[s].wrote = {}
  BY <1>2 DEF TxInv, LocksExclude, x
<1> QED
  BY <1>2, <1>3, <1>5, <1>6, <1>7, <1>8, <1>9, QuietStep DEF TransactionOK

\* Leaving a row is right for a claim, and for others when it does not match.
LEMMA LeaveRowOK ==
    ASSUME TxInv, NEW t \in Txns, NEW u \in Updates, u \in tx[t].at,
           tx[t].op = "claim" \/ ~Where(tx[t], u),
           LeaveRow(t), UNCHANGED inbox
    PROVE  TxInv'
<1> DEFINE x == tx[t]
           y == [x EXCEPT !.at = {}]
<1>1. x \in Transaction /\ TransactionOK(x, inbox)
  BY TransactionIsOK
<1>2. /\ y \in Transaction
      /\ y.op = x.op /\ y.claims = x.claims /\ y.second = x.second
      /\ y.matched = x.matched /\ y.at = {} /\ y.wrote = x.wrote
      /\ y.doubted = x.doubted /\ y.read = x.read
  BY <1>1 DEF Transaction
<1>3. tx' = [tx EXCEPT ![t] = y] /\ x.at = {u}
  BY <1>1 DEF LeaveRow, TransactionOK, ShapeOK
<1>4. x.op = "claim" \/ ~Where(x, u)
  OBVIOUS
<1> HIDE DEF x, y
<1>5. ShapeOK(y)
  BY <1>1, <1>2 DEF TransactionOK, ShapeOK, Reached
<1>6. HoldsOK(y, inbox) /\ ClaimsKnown(y, inbox)
  BY <1>1, <1>2 DEF TransactionOK, HoldsOK, ClaimsKnown
<1>7. \A c \in x.claims :
         /\ c = [update |-> c.update, attempt |-> c.attempt]
         /\ c.update \in Updates
  BY <1>1 DEF Transaction, Claim
<1>8. \A c \in x.claims :
         /\ c.update = u /\ Current(c, inbox)
         /\ x.op \in Transitions \cup {"recover"}
         /\ x.op = "mark" => ~inbox[u].marked
         => x.op = "recover" /\ inbox[u].marked # x.second
  <2> SUFFICES ASSUME NEW c \in x.claims, c.update = u, Current(c, inbox),
                      x.op \in Transitions \cup {"recover"},
                      x.op = "mark" => ~inbox[u].marked,
                      x.op = "recover" => inbox[u].marked = x.second
               PROVE  FALSE
    OBVIOUS
  <2>1. [update |-> u, attempt |-> inbox[u].attempt] \in x.claims
    BY <1>7 DEF Current
  <2>2. Where(x, u)
    BY <2>1, WhereCovers DEF Current
  <2> QED
    BY <1>4, <2>2 DEF Transitions, TerminalStatuses
<1>9. FoundOrLost(y, inbox)
  BY <1>1, <1>2, <1>3, <1>8
  DEF TransactionOK, FoundOrLost, Reached, Transitions, TerminalStatuses
<1>10. TakenOrLeft(y, inbox)
  <2>1. x.second \in BOOLEAN /\ inbox[u].marked \in BOOLEAN
    BY <1>1 DEF Transaction, TxInv, TxTypeOK, InboxTypeOK, Row
  <2>2. x.op = "recover" => x.op # "mark"
    OBVIOUS
  <2> QED
    BY <1>1, <1>2, <1>3, <1>8, <2>1, <2>2 DEF TransactionOK, TakenOrLeft
<1>11. y.op # "none"
  BY <1>2, <1>3 DEF TxInv, TxTypeOK, NoTransaction, x
<1>12. \A s \in Txns \ {t} : y.wrote \cap tx[s].wrote = {}
  BY <1>2 DEF TxInv, LocksExclude, x
<1> QED
  BY <1>2, <1>3, <1>5, <1>6, <1>9, <1>10, <1>11, <1>12, QuietStep
  DEF TransactionOK

LEMMA WriteOK ==
    ASSUME TxInv, NEW t \in Txns, NEW u \in Updates, Write(t, u)
    PROVE  TxInv'
<1> DEFINE x == tx[t]
           y == [x EXCEPT !.at = {}, !.wrote = @ \cup {u},
                    !.matched = IF x.op = "claim" THEN {} ELSE @,
                    !.doubted = IF x.second THEN @ \cup {u} ELSE @,
                    !.read = IF x.op = "claim" THEN inbox[u].attempt ELSE @]
<1>1. /\ x \in Transaction /\ TransactionOK(x, inbox)
      /\ inbox[u] \in Row
  BY TransactionIsOK DEF TxInv, TxTypeOK, InboxTypeOK
<1>2. /\ y \in Transaction
      /\ y.op = x.op /\ y.claims = x.claims /\ y.second = x.second
      /\ y.matched = (IF x.op = "claim" THEN {} ELSE x.matched)
      /\ y.at = {} /\ y.wrote = x.wrote \cup {u}
      /\ y.doubted = (IF x.second THEN x.doubted \cup {u} ELSE x.doubted)
      /\ y.read = (IF x.op = "claim" THEN inbox[u].attempt ELSE x.read)
  BY <1>1 DEF Transaction, Row
<1>3. /\ tx' = [tx EXCEPT ![t] = y] /\ UNCHANGED inbox
      /\ u \in x.at /\ Matching(x, u, inbox[u])
      /\ \A s \in Txns \ {t} : u \notin tx[s].wrote
  BY WhereMatches DEF Write, LockedFor
<1> HIDE DEF x, y
<1>4. x.at = {u} /\ u \notin x.wrote /\ u \notin x.matched
  BY <1>1, <1>3 DEF TransactionOK, ShapeOK
<1>5. x.op = "claim" => x.wrote = {}
  BY <1>1, <1>4 DEF TransactionOK, ShapeOK
<1>6. ShapeOK(y)
  BY <1>1, <1>2, <1>4, <1>5
  DEF TransactionOK, ShapeOK, Reached, Transitions, TerminalStatuses
<1>7. HoldsOK(y, inbox)
  BY <1>1, <1>2, <1>3, <1>4, <1>5
  DEF TransactionOK, ShapeOK, HoldsOK, Matching, Transitions, TerminalStatuses
<1>8. ClaimsKnown(y, inbox)
  BY <1>1, <1>2 DEF TransactionOK, ClaimsKnown
<1>9. FoundOrLost(y, inbox) /\ TakenOrLeft(y, inbox)
  BY <1>1, <1>2, <1>4
  DEF TransactionOK, FoundOrLost, TakenOrLeft, Reached, Transitions,
      TerminalStatuses
<1>10. y.op # "none"
  BY <1>2, <1>3 DEF TxInv, TxTypeOK, NoTransaction, x
<1>11. \A s \in Txns \ {t} : y.wrote \cap tx[s].wrote = {}
  BY <1>2, <1>3 DEF TxInv, LocksExclude, x
<1> QED
  BY <1>2, <1>3, <1>6, <1>7, <1>8, <1>9, <1>10, <1>11, QuietStep
  DEF TransactionOK

LEMMA SecondStatementOK ==
    ASSUME TxInv, NEW t \in Txns, SecondStatement(t)
    PROVE  TxInv'
<1> DEFINE x == tx[t]
           y == [x EXCEPT !.second = TRUE]
<1>1. x \in Transaction /\ TransactionOK(x, inbox)
  BY TransactionIsOK
<1>2. /\ y \in Transaction
      /\ y.op = x.op /\ y.claims = x.claims /\ y.second
      /\ y.matched = x.matched /\ y.at = x.at /\ y.wrote = x.wrote
      /\ y.doubted = x.doubted /\ y.read = x.read
  BY <1>1 DEF Transaction
<1>3. /\ tx' = [tx EXCEPT ![t] = Execute(y)] /\ UNCHANGED inbox
      /\ x.op = "recover" /\ ~x.second /\ x.matched = {} /\ x.at = {}
  BY DEF SecondStatement, StatementOver
<1> HIDE DEF x, y
<1>4. y.op \in Operations /\ y.op \notin Transitions
  BY <1>2, <1>3 DEF Operations, Transitions, TerminalStatuses
<1>5. HoldsOK(y, inbox) /\ ClaimsKnown(y, inbox)
  BY <1>1, <1>2 DEF TransactionOK, HoldsOK, ClaimsKnown
<1>6. \A c \in y.claims :
         Current(c, inbox) => c.update \in y.wrote \/ inbox[c.update].marked
  BY <1>1, <1>2, <1>3 DEF TransactionOK, TakenOrLeft
<1>7. y.doubted \subseteq y.wrote
  BY <1>1, <1>2 DEF TransactionOK, ShapeOK
<1>8. /\ Execute(y) \in Transaction
      /\ Execute(y).wrote = y.wrote
      /\ TransactionOK(Execute(y), inbox)
  BY <1>2, <1>3, <1>4, <1>5, <1>6, <1>7, ExecutedOK
<1>9. Execute(y).op # "none"
  BY <1>2, <1>3 DEF Execute, Transaction
<1>10. \A s \in Txns \ {t} : Execute(y).wrote \cap tx[s].wrote = {}
  BY <1>2, <1>8 DEF TxInv, LocksExclude, x
<1> QED
  BY <1>3, <1>8, <1>9, <1>10, QuietStep

-----------------------------------------------------------------------------

\* What each operation writes, and that it moves the row forward.
LEMMA WrittenEvolves ==
    ASSUME TxInv, NEW t \in Txns, NEW u \in tx[t].wrote
    PROVE  /\ u \in Updates
           /\ Written(tx[t], u) \in Row
           /\ Evolves(inbox[u], Written(tx[t], u))
<1> DEFINE x == tx[t]
           row == inbox[u]
           new == Written(x, u)
<1>1. x \in Transaction /\ TransactionOK(x, inbox)
  BY TransactionIsOK
<1>2. u \in Updates /\ row \in Row
  BY <1>1 DEF Transaction, TxInv, TxTypeOK, InboxTypeOK
<1>3. x.op \in Operations
  BY <1>1 DEF TxInv, TxTypeOK, Transaction, NoTransaction
<1>4. /\ x.op = "claim" => row.attempt = x.read
      /\ x.op # "claim" => row.status = "processing"
      /\ row.attempt \in Nat
  BY <1>1, <1>2 DEF TransactionOK, HoldsOK, Row
<1>5. CASE x.op = "claim"
  <2>1. new = [row EXCEPT !.status = "processing", !.attempt = x.read + 1,
                          !.marked = FALSE, !.due = FALSE, !.expired = FALSE]
    BY <1>5, Zenon DEF Written, TerminalStatuses
  <2> HIDE DEF x, row, new
  <2>2. x.read + 1 \in Nat /\ x.read + 1 = row.attempt + 1
    BY <1>4, <1>5
  <2>3. new.attempt = x.read + 1
    BY <1>2, <2>1 DEF Row
  <2>4. new \in Row
    BY <1>2, <2>1, <2>2 DEF Row, Statuses
  <2>5. Evolves(row, new)
    BY <1>4, <2>2, <2>3 DEF Evolves
  <2> QED
    BY <1>2, <2>4, <2>5 DEF x, row, new
<1>6. CASE x.op = "mark"
  <2>1. new = [row EXCEPT !.marked = TRUE]
    BY <1>6, Zenon DEF Written, TerminalStatuses
  <2> HIDE DEF x, row, new
  <2>2. /\ new \in Row /\ new.attempt = row.attempt
        /\ new.status = "processing" => new.expired = row.expired
        /\ row.marked => new.marked
    BY <1>2, <1>6, <2>1 DEF Row, Statuses
  <2>3. Evolves(row, new)
    BY <1>4, <1>6, <2>2 DEF Evolves
  <2> QED
    BY <1>2, <2>2, <2>3 DEF x, row, new
<1>7. CASE x.op = "reschedule"
  <2>1. new = [row EXCEPT !.status = "pending", !.due = FALSE,
                          !.expired = FALSE]
    BY <1>7, Zenon DEF Written, TerminalStatuses
  <2> HIDE DEF x, row, new
  <2>2. /\ new \in Row /\ new.attempt = row.attempt
        /\ new.status = "processing" => new.expired = row.expired
        /\ row.marked => new.marked
    BY <1>2, <1>7, <2>1 DEF Row, Statuses
  <2>3. Evolves(row, new)
    BY <1>4, <1>7, <2>2 DEF Evolves
  <2> QED
    BY <1>2, <2>2, <2>3 DEF x, row, new
<1>8. CASE x.op \in TerminalStatuses
  <2>1. new = [row EXCEPT !.status = x.op, !.expired = FALSE]
    BY <1>8, Zenon DEF Written, TerminalStatuses
  <2> HIDE DEF x, row, new
  <2>2. /\ new \in Row /\ new.attempt = row.attempt
        /\ new.status = "processing" => new.expired = row.expired
        /\ row.marked => new.marked
    BY <1>2, <1>8, <2>1 DEF Row, Statuses, TerminalStatuses
  <2>3. Evolves(row, new)
    BY <1>4, <1>8, <2>2 DEF Evolves, TerminalStatuses
  <2> QED
    BY <1>2, <2>2, <2>3 DEF x, row, new
<1>9. CASE x.op = "recover" /\ u \in x.doubted
  <2>1. new = [row EXCEPT !.status = "uncertain", !.expired = FALSE]
    BY <1>9, Zenon DEF Written, TerminalStatuses
  <2> HIDE DEF x, row, new
  <2>2. /\ new \in Row /\ new.attempt = row.attempt
        /\ new.status = "processing" => new.expired = row.expired
        /\ row.marked => new.marked
    BY <1>2, <1>9, <2>1 DEF Row, Statuses, TerminalStatuses
  <2>3. Evolves(row, new)
    BY <1>4, <1>9, <2>2 DEF Evolves, TerminalStatuses
  <2> QED
    BY <1>2, <2>2, <2>3 DEF x, row, new
<1>10. CASE x.op = "recover" /\ u \notin x.doubted
  <2>1. new = [row EXCEPT !.status = "pending", !.due = TRUE,
                          !.expired = FALSE]
    BY <1>10, Zenon DEF Written, TerminalStatuses
  <2> HIDE DEF x, row, new
  <2>2. /\ new \in Row /\ new.attempt = row.attempt
        /\ new.status = "processing" => new.expired = row.expired
        /\ row.marked => new.marked
    BY <1>2, <1>10, <2>1 DEF Row, Statuses
  <2>3. Evolves(row, new)
    BY <1>4, <1>10, <2>2 DEF Evolves
  <2> QED
    BY <1>2, <2>2, <2>3 DEF x, row, new
<1> QED
  BY <1>3, <1>5, <1>6, <1>7, <1>8, <1>9, <1>10 DEF Operations, Transitions

\* Rows move on; of the transactions, t at most, which ends.
LEMMA LoudStep ==
    ASSUME TxInv, NEW T \in SUBSET Txns, InboxTypeOK',
           tx' = [s \in Txns |-> IF s \in T THEN NoTransaction ELSE tx[s]],
           \A u \in Updates : Evolves(inbox[u], inbox'[u]),
           \A s \in Txns \ T : \A u \in tx[s].wrote : Keeps(inbox[u], inbox'[u])
    PROVE  TxInv'
<1>1. \A s \in Txns : tx[s] \in Transaction /\ TransactionOK(tx[s], inbox)
  BY TransactionIsOK
<1>2. inbox \in [Updates -> Row] /\ inbox' \in [Updates -> Row]
  BY DEF TxInv, TxTypeOK, InboxTypeOK
<1>3. \A s \in Txns \ T : TransactionOK(tx[s], inbox')
  BY <1>1, <1>2, OthersStayOK
<1>4. \A s \in Txns : tx'[s] \in Transaction /\ TransactionOK(tx'[s], inbox')
  BY <1>1, <1>3, NothingIsHeld
<1>5. TxTypeOK'
  BY <1>4 DEF TxInv, TxTypeOK, TransactionOK, ShapeOK
<1>6. \A s \in Txns : tx'[s].wrote = {} \/ tx'[s] = tx[s]
  BY DEF NoTransaction
<1>7. LocksExclude'
  BY <1>6 DEF TxInv, LocksExclude
<1> QED
  BY <1>4, <1>5, <1>7 DEF TxInv

LEMMA CommitOK ==
    ASSUME TxInv, NEW t \in Txns, Commit(t)
    PROVE  TxInv'
<1>1. /\ inbox' = [u \in Updates |-> IF u \in tx[t].wrote
                                     THEN Written(tx[t], u) ELSE inbox[u]]
      /\ tx' = [tx EXCEPT ![t] = NoTransaction]
  BY DEF Commit, Close
<1>2. inbox \in [Updates -> Row] /\ tx \in [Txns -> Transaction]
  BY DEF TxInv, TxTypeOK, InboxTypeOK
<1>3. InboxTypeOK'
  BY <1>1, <1>2, WrittenEvolves DEF InboxTypeOK
<1>4. \A u \in Updates : Evolves(inbox[u], inbox[u])
  BY <1>2 DEF Evolves, Row
<1>5. \A u \in Updates : Evolves(inbox[u], inbox'[u])
  BY <1>1, <1>4, WrittenEvolves
<1>6. \A s \in Txns \ {t} : \A u \in tx[s].wrote :
         u \in Updates /\ inbox'[u] = inbox[u]
  BY <1>1, <1>2 DEF TxInv, LocksExclude, Transaction
<1>7. \A s \in Txns \ {t} : \A u \in tx[s].wrote : Keeps(inbox[u], inbox'[u])
  BY <1>6 DEF Keeps
<1>8. tx' = [s \in Txns |-> IF s \in {t} THEN NoTransaction ELSE tx[s]]
  BY <1>1, <1>2
<1> QED
  BY <1>3, <1>5, <1>7, <1>8, LoudStep

LEMMA RowStepOK ==
    ASSUME TxInv, NEW u \in Updates, RowStep(u)
    PROVE  TxInv'
<1>1. inbox \in [Updates -> Row] /\ tx \in [Txns -> Transaction]
  BY DEF TxInv, TxTypeOK, InboxTypeOK
<1>2. /\ InboxTypeOK' /\ Evolves(inbox[u], inbox'[u])
      /\ \A v \in Updates \ {u} : inbox'[v] = inbox[v]
      /\ inbox[u].status # "absent" => Keeps(inbox[u], inbox'[u])
  <2>1. CASE InsertUpdate(u)
    <3>1. inbox[u].status = "absent" /\ inbox[u].attempt \in Nat
      BY <1>1, <2>1 DEF InsertUpdate, Row
    <3> QED
      BY <2>1, <3>1, InsertedRow
      DEF TxInv, TxTypeOK, OtherRowsUnchanged, Evolves
  <2>2. CASE BecomeDue(u) \/ ClaimExpires(u)
    <3>1. /\ inbox[u].attempt \in Nat
          /\ inbox[u].due => inbox'[u].due
          /\ inbox[u].expired => inbox'[u].expired
      BY <1>1, <2>2 DEF BecomeDue, ClaimExpires, Row
    <3> QED
      BY <2>2, <3>1, AgedRow
      DEF TxInv, TxTypeOK, OtherRowsUnchanged, Evolves, Keeps
  <2> QED
    BY <2>1, <2>2 DEF RowStep
<1>3. \A v \in Updates : Evolves(inbox[v], inbox[v]) /\ Keeps(inbox[v], inbox[v])
  BY <1>1 DEF Evolves, Keeps, Row
<1>4. \A v \in Updates : Evolves(inbox[v], inbox'[v])
  BY <1>2, <1>3
<1>5. \A s \in Txns : \A v \in tx[s].wrote :
         v \in Updates /\ inbox[v].status # "absent"
  BY <1>1 DEF TxInv, TransactionOK, HoldsOK, Transaction
<1>6. \A s \in Txns : \A v \in tx[s].wrote : Keeps(inbox[v], inbox'[v])
  BY <1>2, <1>3, <1>5
<1>7. tx' = [s \in Txns |-> IF s \in {} THEN NoTransaction ELSE tx[s]]
  BY <1>1 DEF RowStep
<1>8. {} \in SUBSET Txns /\ \A s \in Txns \ {} : s \in Txns
  OBVIOUS
<1> QED
  BY <1>2, <1>4, <1>6, <1>7, <1>8, LoudStep

-----------------------------------------------------------------------------

LEMMA TransactionsStep == TxInv /\ [TxNext]_tvars => TxInv'
<1> SUFFICES ASSUME TxInv, [TxNext]_tvars PROVE TxInv'
  OBVIOUS
<1>1. CASE UNCHANGED tvars
  <2>1. inbox' = inbox /\ tx' = tx
    BY <1>1 DEF tvars
  <2> QED
    BY <2>1 DEF TxInv, TxTypeOK, InboxTypeOK, LocksExclude
<1>2. ASSUME NEW t \in Txns, TransactionStep(t) PROVE TxInv'
  <2>1. CASE BeginClaim(t)
    BY <2>1, ClaimBegunOK
  <2>2. CASE BeginTransition(t)
    BY <2>2, TransitionBegunOK
  <2>3. CASE BeginRecovery(t)
    BY <2>3, RecoveryBegunOK
  <2>4. CASE SecondStatement(t)
    BY <2>4, SecondStatementOK
  <2>5. CASE Commit(t)
    BY <2>5, CommitOK
  <2>6. CASE Refuse(t) \/ Abort(t)
    BY <2>6, ClosedOK DEF Refuse, Abort
  <2>7. ASSUME NEW u \in Updates, ComeTo(t, u) PROVE TxInv'
    BY <2>7, ComeToOK
  <2>8. ASSUME NEW u \in Updates, Write(t, u) PROVE TxInv'
    BY <2>8, WriteOK
  <2>9. ASSUME NEW u \in Updates, PassBy(t, u) \/ SkipLocked(t, u)
        PROVE  TxInv'
    <3>1. /\ u \in tx[t].at
          /\ tx[t].op = "claim" \/ ~Where(tx[t], u)
          /\ LeaveRow(t) /\ UNCHANGED inbox
      BY <2>9 DEF PassBy, SkipLocked
    <3> QED
      BY <3>1, LeaveRowOK
  <2> QED
    BY <1>2, <2>1, <2>2, <2>3, <2>4, <2>5, <2>6, <2>7, <2>8, <2>9
    DEF TransactionStep
<1>3. ASSUME NEW u \in Updates, RowStep(u) PROVE TxInv'
  BY <1>3, RowStepOK
<1> QED
  BY <1>1, <1>2, <1>3 DEF TxNext

\* In every reachable state each transaction knows its rows as TransactionOK
\* says, and no row is written by two transactions at once.
THEOREM TransactionsInvariance == TxSpec => []TxInv
  BY StartsOK, TransactionsStep, PTL DEF TxSpec

\* Every variable keeps its type; a closed session holds no lock.
THEOREM TransactionsTyped == TxSpec => []TxTypeOK
<1>1. TxInv => TxTypeOK
  BY DEF TxInv
<1> QED
  BY <1>1, TransactionsInvariance, PTL

\* UpdateTransitionError means that the attempt has lost its row.
THEOREM RefusalsAreTrue == TxSpec => []RefusedMeansLost
<1>1. TxInv => RefusedMeansLost
  <2> SUFFICES ASSUME TxInv, NEW t \in Txns, tx[t].op \in Transitions,
                      StatementOver(t), tx[t].wrote = {},
                      NEW c \in tx[t].claims
               PROVE  ~StillApplies(tx[t], c)
    BY DEF RefusedMeansLost
  <2>1. FoundOrLost(tx[t], inbox) /\ Reached(tx[t]) = {}
    BY TransactionIsOK DEF TransactionOK, StatementOver, Reached
  <2> QED
    BY <2>1 DEF FoundOrLost, StillApplies, IsCurrent, Current
<1> QED
  BY <1>1, TransactionsInvariance, PTL

\* A recovery pass commits with every claim it was to recover.
THEOREM RecoveryIsComplete == TxSpec => []RecoveryLeavesNone
<1>1. TxInv => RecoveryLeavesNone
  <2> SUFFICES ASSUME TxInv, NEW t \in Txns, tx[t].op = "recover",
                      LastStatementOver(t),
                      NEW c \in tx[t].claims, IsCurrent(c)
               PROVE  c.update \in tx[t].wrote
    BY DEF RecoveryLeavesNone
  <2>1. /\ TakenOrLeft(tx[t], inbox) /\ tx[t].second
        /\ tx[t].matched = {} /\ tx[t].at = {}
    BY TransactionIsOK DEF TransactionOK, LastStatementOver, StatementOver
  <2> QED
    BY <2>1 DEF TakenOrLeft, IsCurrent, Current
<1> QED
  BY <1>1, TransactionsInvariance, PTL

\* Only recovery passes wait for each other in a circle.
THEOREM DeadlocksAreRecoveries == TxSpec => []OnlyRecoveriesDeadlock
<1>1. TxInv => OnlyRecoveriesDeadlock
  <2> SUFFICES ASSUME TxInv, NEW t \in Txns, NEW s \in Txns, NEW r \in Txns,
                      WaitsFor(t, s), WaitsFor(r, t)
               PROVE  tx[t].op = "recover"
    BY DEF OnlyRecoveriesDeadlock
  <2>1. /\ tx[t].op # "claim" /\ tx[t].at # {} /\ tx[t].wrote # {}
    BY DEF WaitsFor
  <2>2. tx[t] \in Transaction /\ ShapeOK(tx[t])
    BY TransactionIsOK DEF TransactionOK
  <2>3. tx[t].op \notin Transitions
    BY <2>1, <2>2 DEF ShapeOK, Reached
  <2>4. tx[t].op # "none"
    BY <2>1 DEF TxInv, TxTypeOK, NoTransaction
  <2> QED
    BY <2>1, <2>2, <2>3, <2>4 DEF Transaction, Operations
<1> QED
  BY <1>1, TransactionsInvariance, PTL

-----------------------------------------------------------------------------

LEMMA CommitIsOperation ==
    ASSUME TxInv, NEW t \in Txns, Commit(t)
    PROVE  InboxOperation \/ UNCHANGED inbox
<1> DEFINE x == tx[t]
<1>1. /\ inbox' = [u \in Updates |-> IF u \in x.wrote THEN Written(x, u)
                                                      ELSE inbox[u]]
      /\ x.matched = {} /\ x.at = {} /\ x.op # "none"
      /\ x.op \in Transitions => x.wrote # {}
  BY DEF Commit, LastStatementOver, StatementOver
<1>2. /\ x \in Transaction /\ TransactionOK(x, inbox)
      /\ inbox \in [Updates -> Row]
  BY TransactionIsOK DEF TxInv, TxTypeOK, InboxTypeOK
<1>3. x.wrote \subseteq Updates /\ x.op \in Operations
  BY <1>1, <1>2 DEF Transaction
<1>4. CASE x.wrote = {}
  BY <1>1, <1>2, <1>4
<1>5. CASE x.op = "claim" /\ x.wrote # {}
  <2>1. PICK u \in x.wrote : \A v \in x.wrote : v = u
    BY <1>2, <1>5 DEF TransactionOK, ShapeOK
  <2>2. u \in Updates /\ inbox[u] \in Row
    BY <1>2, <1>3
  <2>3. Claimable(u) /\ inbox[u].attempt = x.read
    BY <1>2, <1>5, <2>1 DEF TransactionOK, HoldsOK, Claimable
  <2>4. Written(x, u) =
           [inbox[u] EXCEPT !.status = "processing", !.attempt = x.read + 1,
                            !.marked = FALSE, !.due = FALSE, !.expired = FALSE]
    BY <1>5, Zenon DEF Written, TerminalStatuses
  <2>5. Written(x, u) = Claimed(inbox[u])
    BY <2>2, <2>3, <2>4 DEF Claimed, Row
  <2>6. inbox' = [inbox EXCEPT ![u] = Claimed(@)]
    BY <1>1, <1>2, <2>1, <2>2, <2>5
  <2> QED
    BY <2>2, <2>3, <2>6 DEF ClaimPendingUpdate, InboxOperation
<1>6. CASE x.op \in Transitions
  <2>1. PICK u \in x.wrote : \A v \in x.wrote : v = u
    BY <1>1, <1>2, <1>6 DEF TransactionOK, ShapeOK, Reached
  <2> DEFINE n == inbox[u].attempt
             c == [update |-> u, attempt |-> n]
             row == inbox[u]
  <2>2. u \in Updates /\ row \in Row /\ n \in Nat
    BY <1>2, <1>3 DEF Row
  <2>3. x.op # "claim"
    BY <1>6 DEF Transitions, TerminalStatuses
  <2>4. /\ c \in x.claims /\ row.status = "processing"
        /\ x.op = "mark" => ~row.marked
    BY <1>2, <2>1, <2>3 DEF TransactionOK, HoldsOK
  <2>5. n \in 1 .. n
    BY <1>2, <1>6, <2>2, <2>4 DEF TransactionOK, ClaimsKnown
  <2>6. IsCurrent(c)
    BY <2>4 DEF IsCurrent
  <2>7. inbox' = [inbox EXCEPT ![u] = Written(x, u)]
    BY <1>1, <1>2, <2>1, <2>2
  <2>8. \/ MarkExternalMutationStarted(c) \/ Reschedule(c)
        \/ \E status \in TerminalStatuses : MarkTerminal(c, status)
    <3>1. CASE x.op = "mark"
      <4>1. Written(x, u) = [row EXCEPT !.marked = TRUE]
        BY <3>1, Zenon DEF Written, TerminalStatuses
      <4> QED
        BY <2>4, <2>6, <2>7, <3>1, <4>1
        DEF MarkExternalMutationStarted, CanMark
    <3>2. CASE x.op = "reschedule"
      <4>1. Written(x, u) = [row EXCEPT !.status = "pending", !.due = FALSE,
                                        !.expired = FALSE]
        BY <3>2, Zenon DEF Written, TerminalStatuses
      <4> QED
        BY <2>6, <2>7, <4>1 DEF Reschedule
    <3>3. CASE x.op \in TerminalStatuses
      <4>1. Written(x, u) = [row EXCEPT !.status = x.op, !.expired = FALSE]
        BY <3>3, Zenon DEF Written, TerminalStatuses
      <4>2. MarkTerminal(c, x.op)
        BY <2>6, <2>7, <4>1 DEF MarkTerminal
      <4> QED
        BY <3>3, <4>2
    <3> QED
      BY <1>6, <3>1, <3>2, <3>3 DEF Transitions
  <2> HIDE DEF c
  <2> QED
    BY <2>2, <2>5, <2>8 DEF InboxOperation, c
<1>7. CASE x.op = "recover"
  <2>1. ASSUME NEW u \in x.wrote
        PROVE  Written(x, u) = Recovered(inbox[u])
    <3> DEFINE row == inbox[u]
               c == [update |-> u, attempt |-> row.attempt]
    <3>1. /\ c \in x.claims /\ row.status = "processing"
          /\ row.marked <=> u \in x.doubted
      BY <1>2, <1>7 DEF TransactionOK, HoldsOK
    <3>2. Abandoned(row)
      BY <1>2, <1>7, <3>1 DEF TransactionOK, ClaimsKnown, Current, Abandoned
    <3>3. CASE u \in x.doubted
      <4>1. Written(x, u) = [row EXCEPT !.status = "uncertain",
                                        !.expired = FALSE]
        BY <1>7, <3>3, Zenon DEF Written, TerminalStatuses
      <4> QED
        BY <3>1, <3>2, <3>3, <4>1 DEF Recovered
    <3>4. CASE u \notin x.doubted
      <4>1. Written(x, u) = [row EXCEPT !.status = "pending", !.due = TRUE,
                                        !.expired = FALSE]
        BY <1>7, <3>4, Zenon DEF Written, TerminalStatuses
      <4> QED
        BY <3>1, <3>2, <3>4, <4>1 DEF Recovered
    <3> QED
      BY <3>3, <3>4
  <2>2. inbox' = [u \in Updates |-> IF u \in x.wrote THEN Recovered(inbox[u])
                                                     ELSE inbox[u]]
    BY <1>1, <2>1
  <2>3. RecoverSome
    BY <1>3, <2>2 DEF RecoverSome
  <2> QED
    BY <2>3 DEF InboxOperation
<1> QED
  BY <1>3, <1>4, <1>5, <1>6, <1>7 DEF Operations

\* The committed table changes by operations of Inbox only, each whole and
\* applied to the rows as they are at the commit: the transactions implement
\* the table the other modules work on.
THEOREM TransactionsAreAtomic == TxSpec => CommitsAreOperations
<1>1. TxInv /\ [TxNext]_tvars => [InboxOperation]_inbox
  <2> SUFFICES ASSUME TxInv, [TxNext]_tvars, ~UNCHANGED inbox
               PROVE  InboxOperation
    OBVIOUS
  <2>1. ASSUME NEW t \in Txns, TransactionStep(t) PROVE InboxOperation
    <3>1. Commit(t)
      BY <2>1
      DEF TransactionStep, BeginClaim, BeginTransition, BeginRecovery, Begin,
          SecondStatement, Refuse, Abort, ComeTo, Write, PassBy, SkipLocked
    <3> QED
      BY <3>1, CommitIsOperation
  <2>2. ASSUME NEW u \in Updates, RowStep(u) PROVE InboxOperation
    BY <2>2 DEF RowStep, InboxOperation
  <2> QED
    BY <2>1, <2>2 DEF TxNext, tvars
<1>2. TxInit => InboxInit
  BY DEF TxInit, InboxInit, Kinds
<1> QED
  BY <1>1, <1>2, TransactionsInvariance, PTL
  DEF TxSpec, CommitsAreOperations, InboxSpec
=============================================================================
