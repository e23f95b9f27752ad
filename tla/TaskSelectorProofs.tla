------------------------- MODULE TaskSelectorProofs -------------------------
(***************************************************************************)
(* The sort key orders tasks as the documented policy does, for all tasks  *)
(* and reference times; and in every list with a candidate there is a      *)
(* first one, which is the answer.                                         *)
(***************************************************************************)
EXTENDS TaskSelector, WellFoundedInduction, SequenceTheorems, TLAPS

Key == Nat \X Nat \X Nat \X Nat \X Nat \X Nat \X Nat

LEMMA KeyType ==
    ASSUME NEW t \in Task, NEW now \in Nat
    PROVE  SelectionKey(t, now) \in Key
  <1>1. /\ t.id \in Nat
        /\ t.start = NoDate \/ t.start \in Nat
        /\ t.deadline = NoDate \/ t.deadline \in Nat
        /\ t.priority \in Priorities
    BY DatesAssumption DEF Task, OptionalInstant
  <1>2. PriorityOrder[t.priority] \in Nat
    BY <1>1 DEF PriorityOrder, Priorities
  <1>3. \A b : Bit(b) \in Nat
    BY DEF Bit
  <1>4. (IF t.deadline # NoDate THEN Distance(t.deadline, now) ELSE 0) \in Nat
    BY <1>1 DEF Distance
  <1>5. (IF t.start # NoDate THEN t.start ELSE now) \in Nat
    BY <1>1
  <1> QED
    BY <1>1, <1>2, <1>3, <1>4, <1>5 DEF SelectionKey, Key

-----------------------------------------------------------------------------
\* The key and the policy.

LEMMA KeyLessUnfolds ==
    ASSUME NEW x, NEW y
    PROVE  KeyLess(x, y) <=>
              \/ x[1] < y[1]
              \/ x[1] = y[1] /\ x[2] < y[2]
              \/ x[1] = y[1] /\ x[2] = y[2] /\ x[3] < y[3]
              \/ x[1] = y[1] /\ x[2] = y[2] /\ x[3] = y[3] /\ x[4] < y[4]
              \/ /\ x[1] = y[1] /\ x[2] = y[2] /\ x[3] = y[3] /\ x[4] = y[4]
                 /\ x[5] < y[5]
              \/ /\ x[1] = y[1] /\ x[2] = y[2] /\ x[3] = y[3] /\ x[4] = y[4]
                 /\ x[5] = y[5] /\ x[6] < y[6]
              \/ /\ x[1] = y[1] /\ x[2] = y[2] /\ x[3] = y[3] /\ x[4] = y[4]
                 /\ x[5] = y[5] /\ x[6] = y[6] /\ x[7] < y[7]
  <1> DEFINE AtPlace(i) == x[i] < y[i] /\ \A j \in 1 .. i - 1 : x[j] = y[j]
  <1>1. AtPlace(1) <=>
        x[1] < y[1]
    OBVIOUS
  <1>2. AtPlace(2) <=>
        x[1] = y[1] /\ x[2] < y[2]
    <2>1. \A j \in 1 .. 2 - 1 : j \in {1}
      OBVIOUS
    <2>2. \A j \in {1} : j \in 1 .. 2 - 1
      OBVIOUS
    <2> QED
      BY <2>1, <2>2
  <1>3. AtPlace(3) <=>
        x[1] = y[1] /\ x[2] = y[2] /\ x[3] < y[3]
    <2>1. \A j \in 1 .. 3 - 1 : j \in {1, 2}
      OBVIOUS
    <2>2. \A j \in {1, 2} : j \in 1 .. 3 - 1
      OBVIOUS
    <2> QED
      BY <2>1, <2>2
  <1>4. AtPlace(4) <=>
        x[1] = y[1] /\ x[2] = y[2] /\ x[3] = y[3] /\ x[4] < y[4]
    <2>1. \A j \in 1 .. 4 - 1 : j \in {1, 2, 3}
      OBVIOUS
    <2>2. \A j \in {1, 2, 3} : j \in 1 .. 4 - 1
      OBVIOUS
    <2> QED
      BY <2>1, <2>2
  <1>5. AtPlace(5) <=>
        /\ x[1] = y[1] /\ x[2] = y[2] /\ x[3] = y[3] /\ x[4] = y[4]
        /\ x[5] < y[5]
    <2>1. \A j \in 1 .. 5 - 1 : j \in {1, 2, 3, 4}
      OBVIOUS
    <2>2. \A j \in {1, 2, 3, 4} : j \in 1 .. 5 - 1
      OBVIOUS
    <2> QED
      BY <2>1, <2>2
  <1>6. AtPlace(6) <=>
        /\ x[1] = y[1] /\ x[2] = y[2] /\ x[3] = y[3] /\ x[4] = y[4]
        /\ x[5] = y[5] /\ x[6] < y[6]
    <2>1. \A j \in 1 .. 6 - 1 : j \in {1, 2, 3, 4, 5}
      OBVIOUS
    <2>2. \A j \in {1, 2, 3, 4, 5} : j \in 1 .. 6 - 1
      OBVIOUS
    <2> QED
      BY <2>1, <2>2
  <1>7. AtPlace(7) <=>
        /\ x[1] = y[1] /\ x[2] = y[2] /\ x[3] = y[3] /\ x[4] = y[4]
        /\ x[5] = y[5] /\ x[6] = y[6] /\ x[7] < y[7]
    <2>1. \A j \in 1 .. 7 - 1 : j \in {1, 2, 3, 4, 5, 6}
      OBVIOUS
    <2>2. \A j \in {1, 2, 3, 4, 5, 6} : j \in 1 .. 7 - 1
      OBVIOUS
    <2> QED
      BY <2>1, <2>2
  <1>8. KeyLess(x, y) <=> \E i \in 1 .. 7 : AtPlace(i)
    BY DEF KeyLess
  <1> HIDE DEF AtPlace
  <1>9. (\E i \in 1 .. 7 : AtPlace(i)) <=>
            \/ AtPlace(1) \/ AtPlace(2) \/ AtPlace(3) \/ AtPlace(4)
            \/ AtPlace(5) \/ AtPlace(6) \/ AtPlace(7)
    <2>1. \A i \in 1 .. 7 : i \in {1, 2, 3, 4, 5, 6, 7}
      OBVIOUS
    <2>2. \A i \in {1, 2, 3, 4, 5, 6, 7} : i \in 1 .. 7
      OBVIOUS
    <2> QED
      BY <2>1, <2>2
  <1> QED
    BY <1>1, <1>2, <1>3, <1>4, <1>5, <1>6, <1>7, <1>8, <1>9

\* The tuple the code sorts by ranks any two tasks as the documented policy
\* does.
THEOREM KeyIsPolicy ==
    ASSUME NEW a \in Task, NEW b \in Task, NEW now \in Nat
    PROVE  KeyLess(SelectionKey(a, now), SelectionKey(b, now))
             <=> RanksBefore(a, b, now)
  <1>0. /\ a.id \in Nat /\ b.id \in Nat
        /\ a.start = NoDate \/ a.start \in Nat
        /\ b.start = NoDate \/ b.start \in Nat
        /\ a.deadline = NoDate \/ a.deadline \in Nat
        /\ b.deadline = NoDate \/ b.deadline \in Nat
        /\ a.priority \in Priorities /\ b.priority \in Priorities
    BY DatesAssumption DEF Task, OptionalInstant
  <1>N. NoDate \notin Times
    BY DatesAssumption
  <1> DEFINE x1 == Bit(a.deadline = NoDate \/ a.deadline >= now)
             y1 == Bit(b.deadline = NoDate \/ b.deadline >= now)
             x2 == PriorityOrder[a.priority]
             y2 == PriorityOrder[b.priority]
             x3 == Bit(a.deadline = NoDate)
             y3 == Bit(b.deadline = NoDate)
             x4 == IF a.deadline # NoDate THEN Distance(a.deadline, now) ELSE 0
             y4 == IF b.deadline # NoDate THEN Distance(b.deadline, now) ELSE 0
             x5 == Bit(a.start = NoDate)
             y5 == Bit(b.start = NoDate)
             x6 == IF a.start # NoDate THEN a.start ELSE now
             y6 == IF b.start # NoDate THEN b.start ELSE now
  <1>1. /\ x1 \in Nat /\ y1 \in Nat
        /\ x1 < y1 <=> Overdue(a, now) /\ ~Overdue(b, now)
        /\ x1 = y1 <=> (Overdue(a, now) <=> Overdue(b, now))
    BY <1>0 DEF Bit, Overdue
  <1>2. /\ x2 \in Nat /\ y2 \in Nat
        /\ x2 < y2 <=> Urgency(a.priority, b.priority)
        /\ x2 = y2 <=> a.priority = b.priority
    BY <1>0 DEF PriorityOrder, Priorities, Urgency
  <1>3. /\ x3 \in Nat /\ y3 \in Nat /\ x4 \in Nat /\ y4 \in Nat
        /\ (x3 < y3 \/ (x3 = y3 /\ x4 < y4)) <=> NearerDeadline(a, b, now)
        /\ (x3 = y3 /\ x4 = y4) <=>
              ~NearerDeadline(a, b, now) /\ ~NearerDeadline(b, a, now)
    BY <1>0 DEF Bit, Distance, NearerDeadline
  <1>4. /\ x5 \in Nat /\ y5 \in Nat /\ x6 \in Nat /\ y6 \in Nat
        /\ (x5 < y5 \/ (x5 = y5 /\ x6 < y6)) <=> EarlierStart(a, b)
        /\ (x5 = y5 /\ x6 = y6) <=> ~EarlierStart(a, b) /\ ~EarlierStart(b, a)
    BY <1>0 DEF Bit, EarlierStart
  <1>5. NearerDeadline(a, b, now) => ~NearerDeadline(b, a, now)
    BY <1>0 DEF Distance, NearerDeadline
  <1>6. EarlierStart(a, b) => ~EarlierStart(b, a)
    BY <1>0 DEF EarlierStart
  <1>7. Urgency(a.priority, b.priority) => a.priority # b.priority
    BY DEF Urgency
  <1> DEFINE x == SelectionKey(a, now)
             y == SelectionKey(b, now)
  <1>8. /\ x[1] = x1 /\ x[2] = x2 /\ x[3] = x3 /\ x[4] = x4 /\ x[5] = x5 /\ x[6] = x6
        /\ y[1] = y1 /\ y[2] = y2 /\ y[3] = y3 /\ y[4] = y4 /\ y[5] = y5 /\ y[6] = y6
        /\ x[7] = a.id /\ y[7] = b.id
    BY DEF SelectionKey
  <1> HIDE DEF x1, y1, x2, y2, x3, y3, x4, y4, x5, y5, x6, y6, x, y
  <1>9. KeyLess(x, y) <=>
           \/ x1 < y1
           \/ x1 = y1 /\ x2 < y2
           \/ x1 = y1 /\ x2 = y2 /\ x3 < y3
           \/ x1 = y1 /\ x2 = y2 /\ x3 = y3 /\ x4 < y4
           \/ x1 = y1 /\ x2 = y2 /\ x3 = y3 /\ x4 = y4 /\ x5 < y5
           \/ x1 = y1 /\ x2 = y2 /\ x3 = y3 /\ x4 = y4 /\ x5 = y5 /\ x6 < y6
           \/ /\ x1 = y1 /\ x2 = y2 /\ x3 = y3 /\ x4 = y4 /\ x5 = y5
              /\ x6 = y6 /\ a.id < b.id
    BY <1>8, KeyLessUnfolds
  <1>10. KeyLess(x, y) <=> RanksBefore(a, b, now)
    BY <1>1, <1>2, <1>3, <1>4, <1>5, <1>6, <1>7, <1>9 DEF RanksBefore, Overdue
  <1> QED
    BY <1>10 DEF x, y

-----------------------------------------------------------------------------
\* The first candidate.

\* The elements of C whose keys are least at one place.
Narrow(C, K, k) == {i \in C : \A j \in C : K[i][k] <= K[j][k]}

LEMMA LeastNatural ==
    ASSUME NEW S \in SUBSET Nat, S # {}
    PROVE  \E n \in S : \A m \in S : n <= m
  <1> DEFINE R == OpToRel(<, Nat)
  <1>1. \A x, y \in Nat : x < y => <<x, y>> \in R
    BY DEF OpToRel
  <1> HIDE DEF R
  <1>2. IsWellFoundedOn(R, Nat)
    BY NatLessThanWellFounded DEF R
  <1>3. PICK n \in S : \A m \in S : ~(<<m, n>> \in R)
    BY <1>2, WFMin
  <1>4. ASSUME NEW m \in S
        PROVE  n <= m
    <2>1. n \in Nat /\ m \in Nat /\ ~(m < n)
      BY <1>1, <1>3
    <2> QED
      BY <2>1
  <1> QED
    BY <1>4

\* D holds the elements of C that are least at one place.
Narrows(D, C, K, k) ==
    /\ D # {}
    /\ D \subseteq C
    /\ \A i \in D, j \in C : K[i][k] < K[j][k] \/ (K[i][k] = K[j][k] /\ j \in D)

LEMMA Narrowed ==
    ASSUME NEW C, C # {}, NEW K, NEW k,
           \A i \in C : K[i][k] \in Nat
    PROVE  Narrows(Narrow(C, K, k), C, K, k)
  <1> DEFINE values == {K[i][k] : i \in C}
  <1>1. values # {} /\ values \in SUBSET Nat
    OBVIOUS
  <1>2. PICK n \in values : \A m \in values : n <= m
    BY <1>1, LeastNatural
  <1>3. PICK i \in C : K[i][k] = n
    BY <1>2
  <1>4. i \in Narrow(C, K, k)
    BY <1>2, <1>3 DEF Narrow
  <1> QED
    BY <1>4 DEF Narrow, Narrows

LEMMA KeysAgree ==
    ASSUME NEW a \in Key, NEW b \in Key,
           a[1] = b[1], a[2] = b[2], a[3] = b[3], a[4] = b[4], a[5] = b[5],
           a[6] = b[6], a[7] = b[7]
    PROVE  a = b
  BY DEF Key

LEMMA FirstExists ==
    ASSUME NEW C \in SUBSET Nat, C # {}, NEW K, \A i \in C : K[i] \in Key
    PROVE  \E i \in C : \A j \in C : KeyLess(K[i], K[j]) \/ (K[i] = K[j] /\ i <= j)
  <1> DEFINE C1 == Narrow(C, K, 1)
             C2 == Narrow(C1, K, 2)
             C3 == Narrow(C2, K, 3)
             C4 == Narrow(C3, K, 4)
             C5 == Narrow(C4, K, 5)
             C6 == Narrow(C5, K, 6)
             C7 == Narrow(C6, K, 7)
  <1>0. \A i \in C : /\ K[i][1] \in Nat /\ K[i][2] \in Nat /\ K[i][3] \in Nat
                     /\ K[i][4] \in Nat /\ K[i][5] \in Nat /\ K[i][6] \in Nat
                     /\ K[i][7] \in Nat
    BY DEF Key
  <1> HIDE DEF C1, C2, C3, C4, C5, C6, C7
  <1>1. Narrows(C1, C, K, 1)
    <2>1. C # {} /\ \A i \in C : K[i][1] \in Nat
      BY <1>0
    <2> QED
      BY <2>1, Narrowed DEF C1
  <1>2. Narrows(C2, C1, K, 2)
    <2>1. C1 # {} /\ \A i \in C1 : K[i][2] \in Nat
      BY <1>0, <1>1 DEF Narrows
    <2> QED
      BY <2>1, Narrowed DEF C2
  <1>3. Narrows(C3, C2, K, 3)
    <2>1. C2 # {} /\ \A i \in C2 : K[i][3] \in Nat
      BY <1>0, <1>1, <1>2 DEF Narrows
    <2> QED
      BY <2>1, Narrowed DEF C3
  <1>4. Narrows(C4, C3, K, 4)
    <2>1. C3 # {} /\ \A i \in C3 : K[i][4] \in Nat
      BY <1>0, <1>1, <1>2, <1>3 DEF Narrows
    <2> QED
      BY <2>1, Narrowed DEF C4
  <1>5. Narrows(C5, C4, K, 5)
    <2>1. C4 # {} /\ \A i \in C4 : K[i][5] \in Nat
      BY <1>0, <1>1, <1>2, <1>3, <1>4 DEF Narrows
    <2> QED
      BY <2>1, Narrowed DEF C5
  <1>6. Narrows(C6, C5, K, 6)
    <2>1. C5 # {} /\ \A i \in C5 : K[i][6] \in Nat
      BY <1>0, <1>1, <1>2, <1>3, <1>4, <1>5 DEF Narrows
    <2> QED
      BY <2>1, Narrowed DEF C6
  <1>7. Narrows(C7, C6, K, 7)
    <2>1. C6 # {} /\ \A i \in C6 : K[i][7] \in Nat
      BY <1>0, <1>1, <1>2, <1>3, <1>4, <1>5, <1>6 DEF Narrows
    <2> QED
      BY <2>1, Narrowed DEF C7
  <1>8. C7 \in SUBSET Nat
    BY <1>1, <1>2, <1>3, <1>4, <1>5, <1>6, <1>7 DEF Narrows
  <1>9. PICK i \in C7 : \A j \in C7 : i <= j
    BY <1>7, <1>8, LeastNatural DEF Narrows
  <1>10. /\ i \in C /\ i \in C1 /\ i \in C2 /\ i \in C3 /\ i \in C4
         /\ i \in C5 /\ i \in C6
    BY <1>1, <1>2, <1>3, <1>4, <1>5, <1>6, <1>7 DEF Narrows
  <1>11. ASSUME NEW j \in C
         PROVE  KeyLess(K[i], K[j]) \/ (K[i] = K[j] /\ i <= j)
    <2> DEFINE E(k) == K[i][k] = K[j][k]
               L(k) == K[i][k] < K[j][k]
    <2>1. \/ L(1)
          \/ E(1) /\ L(2)
          \/ E(1) /\ E(2) /\ L(3)
          \/ E(1) /\ E(2) /\ E(3) /\ L(4)
          \/ E(1) /\ E(2) /\ E(3) /\ E(4) /\ L(5)
          \/ E(1) /\ E(2) /\ E(3) /\ E(4) /\ E(5) /\ L(6)
          \/ E(1) /\ E(2) /\ E(3) /\ E(4) /\ E(5) /\ E(6) /\ L(7)
          \/ E(1) /\ E(2) /\ E(3) /\ E(4) /\ E(5) /\ E(6) /\ E(7) /\ j \in C7
      BY <1>1, <1>2, <1>3, <1>4, <1>5, <1>6, <1>7, <1>10 DEF Narrows
    <2>2. CASE E(1) /\ E(2) /\ E(3) /\ E(4) /\ E(5) /\ E(6) /\ E(7) /\ j \in C7
      BY <2>2, <1>9, <1>10, KeysAgree
    <2>3. ASSUME NEW k \in 1 .. 7, L(k), \A m \in 1 .. k - 1 : E(m)
          PROVE  KeyLess(K[i], K[j])
      BY <2>3 DEF KeyLess
    <2> HIDE DEF E, L
    <2>4. CASE L(1)
      BY <2>3, <2>4
    <2>5. CASE E(1) /\ L(2)
      <3>1. \A m \in 1 .. 2 - 1 : E(m)
        BY <2>5
      <3> QED
        BY <2>3, <2>5, <3>1
    <2>6. CASE E(1) /\ E(2) /\ L(3)
      <3>1. \A m \in 1 .. 3 - 1 : E(m)
        BY <2>6
      <3> QED
        BY <2>3, <2>6, <3>1
    <2>7. CASE E(1) /\ E(2) /\ E(3) /\ L(4)
      <3>1. \A m \in 1 .. 4 - 1 : E(m)
        BY <2>7
      <3> QED
        BY <2>3, <2>7, <3>1
    <2>8. CASE E(1) /\ E(2) /\ E(3) /\ E(4) /\ L(5)
      <3>1. \A m \in 1 .. 5 - 1 : E(m)
        BY <2>8
      <3> QED
        BY <2>3, <2>8, <3>1
    <2>9. CASE E(1) /\ E(2) /\ E(3) /\ E(4) /\ E(5) /\ L(6)
      <3>1. \A m \in 1 .. 6 - 1 : E(m)
        BY <2>9
      <3> QED
        BY <2>3, <2>9, <3>1
    <2>10. CASE E(1) /\ E(2) /\ E(3) /\ E(4) /\ E(5) /\ E(6) /\ L(7)
      <3>1. \A m \in 1 .. 7 - 1 : E(m)
        BY <2>10
      <3> QED
        BY <2>3, <2>10, <3>1
    <2> QED
      BY <2>1, <2>2, <2>4, <2>5, <2>6, <2>7, <2>8, <2>9, <2>10
  <1> QED
    BY <1>10, <1>11

LEMMA KeyLessAsymmetric ==
    ASSUME NEW a, NEW b, \A k \in 1 .. 7 : a[k] \in Nat /\ b[k] \in Nat,
           KeyLess(a, b) \/ a = b
    PROVE  ~KeyLess(b, a)
  <1> SUFFICES ASSUME KeyLess(b, a)
               PROVE  FALSE
    OBVIOUS
  <1>1. PICK m \in 1 .. 7 : b[m] < a[m] /\ \A n \in 1 .. m - 1 : b[n] = a[n]
    BY DEF KeyLess
  <1>2. b[m] < a[m] /\ a[m] \in Nat /\ b[m] \in Nat
    BY <1>1
  <1>3. CASE a = b
    BY <1>2, <1>3
  <1>4. CASE KeyLess(a, b)
    <2>1. PICK n \in 1 .. 7 : a[n] < b[n] /\ \A l \in 1 .. n - 1 : a[l] = b[l]
      BY <1>4 DEF KeyLess
    <2>2. a[n] < b[n] /\ a[n] \in Nat /\ b[n] \in Nat
      BY <2>1
    <2>3. CASE n < m
      <3>1. n \in 1 .. m - 1
        BY <2>3
      <3> QED
        BY <1>1, <2>2, <3>1
    <2>4. CASE m < n
      <3>1. m \in 1 .. n - 1
        BY <2>4
      <3> QED
        BY <1>2, <2>1, <3>1
    <2>5. CASE m = n
      BY <1>2, <2>2, <2>5
    <2> QED
      BY <2>3, <2>4, <2>5
  <1> QED
    BY <1>3, <1>4

\* What select_next_task returns, for any list: nothing when no task has
\* started, else a started task before which no started one ranks.
THEOREM SelectionFollowsPolicy ==
    ASSUME NEW tasks \in Seq(Task), NEW now \in Nat
    PROVE  LET chosen == SelectNextTask(tasks, now)
               started == {t \in ToSet(tasks) : Startable(t, now)}
           IN  IF started = {} THEN chosen = NoTask
               ELSE /\ chosen \in started
                    /\ \A t \in started : ~RanksBefore(t, chosen, now)
  <1> DEFINE C == Candidates(tasks, now)
             K == [i \in DOMAIN tasks |-> SelectionKey(tasks[i], now)]
             started == {t \in ToSet(tasks) : Startable(t, now)}
  <1>0. /\ DOMAIN tasks \in SUBSET Nat
        /\ \A i \in DOMAIN tasks : tasks[i] \in Task
    BY LenProperties
  <1>1. C \in SUBSET Nat /\ C \subseteq DOMAIN tasks
    BY <1>0 DEF Candidates
  <1>2. \A i \in C : K[i] \in Key /\ K[i] = SelectionKey(tasks[i], now)
    BY <1>0, <1>1, KeyType
  <1>3. started = {tasks[i] : i \in C}
    BY DEF ToSet, Candidates
  <1>4. CASE C = {}
    BY <1>3, <1>4 DEF SelectNextTask
  <1>5. CASE C # {}
    <2>1. \E i \in C : \A j \in C : KeyLess(K[i], K[j]) \/ (K[i] = K[j] /\ i <= j)
      BY <1>1, <1>2, <1>5, FirstExists
    <2>2. \E i \in C : IsFirst(i, tasks, now)
      BY <2>1, <1>2 DEF IsFirst
    <2>3. PICK i \in C : IsFirst(i, tasks, now) /\ SelectNextTask(tasks, now) = tasks[i]
      BY <2>2, <1>5 DEF SelectNextTask
    <2>4. ASSUME NEW j \in C
          PROVE  ~RanksBefore(tasks[j], tasks[i], now)
      <3>1. tasks[i] \in Task /\ tasks[j] \in Task
        BY <1>0, <1>1
      <3>3. ~KeyLess(SelectionKey(tasks[j], now), SelectionKey(tasks[i], now))
        <4>1. SelectionKey(tasks[i], now) \in Key /\ SelectionKey(tasks[j], now) \in Key
          BY <3>1, KeyType
        <4>2. \/ KeyLess(SelectionKey(tasks[i], now), SelectionKey(tasks[j], now))
              \/ SelectionKey(tasks[i], now) = SelectionKey(tasks[j], now)
          BY <2>3 DEF IsFirst
        <4> DEFINE a == SelectionKey(tasks[i], now)
                   b == SelectionKey(tasks[j], now)
        <4>3. \A k \in 1 .. 7 : a[k] \in Nat /\ b[k] \in Nat
          <5>1. /\ a[1] \in Nat /\ a[2] \in Nat /\ a[3] \in Nat /\ a[4] \in Nat
                /\ a[5] \in Nat /\ a[6] \in Nat /\ a[7] \in Nat
                /\ b[1] \in Nat /\ b[2] \in Nat /\ b[3] \in Nat /\ b[4] \in Nat
                /\ b[5] \in Nat /\ b[6] \in Nat /\ b[7] \in Nat
            BY <4>1 DEF Key
          <5>2. \A k \in 1 .. 7 : k \in {1, 2, 3, 4, 5, 6, 7}
            OBVIOUS
          <5> HIDE DEF a, b
          <5> QED
            BY <5>1, <5>2
        <4> HIDE DEF a, b
        <4>4. KeyLess(a, b) \/ a = b
          BY <4>2 DEF a, b
        <4>5. ~KeyLess(b, a)
          BY <4>3, <4>4, KeyLessAsymmetric
        <4> QED
          BY <4>5 DEF a, b
      <3> QED
        BY <3>1, <3>3, KeyIsPolicy
    <2> QED
      BY <1>3, <1>5, <2>3, <2>4
  <1> QED
    BY <1>4, <1>5

-----------------------------------------------------------------------------
\* The policy decides.

LEMMA TaskFields ==
    ASSUME NEW t \in Task
    PROVE  /\ t.id \in Nat
           /\ t.start = NoDate \/ t.start \in Nat
           /\ t.deadline = NoDate \/ t.deadline \in Nat
           /\ t.priority \in Priorities
  BY DatesAssumption DEF Task, OptionalInstant

\* Of two tasks with different ids one ranks before the other.
LEMMA PolicyIsTotal ==
    ASSUME NEW a \in Task, NEW b \in Task, NEW now \in Nat
    PROVE  a.id = b.id \/ RanksBefore(a, b, now) \/ RanksBefore(b, a, now)
  <1>1. \/ a.priority = b.priority
        \/ Urgency(a.priority, b.priority) \/ Urgency(b.priority, a.priority)
    BY TaskFields DEF Priorities, Urgency
  <1>2. a.id < b.id \/ b.id < a.id \/ a.id = b.id
    BY TaskFields
  <1> QED
    BY <1>1, <1>2 DEF RanksBefore, Overdue

\* What ranks before a task that ranks before a third ranks before the third.
THEOREM PolicyIsTransitive ==
    ASSUME NEW a \in Task, NEW b \in Task, NEW c \in Task, NEW now \in Nat,
           RanksBefore(a, b, now), RanksBefore(b, c, now)
    PROVE  RanksBefore(a, c, now)
  <1> DEFINE x == SelectionKey(a, now)
             y == SelectionKey(b, now)
             z == SelectionKey(c, now)
  <1>1. \A k \in 1 .. 7 : x[k] \in Nat /\ y[k] \in Nat /\ z[k] \in Nat
    <2>1. x \in Key /\ y \in Key /\ z \in Key
      BY KeyType
    <2> HIDE DEF x, y, z
    <2>2. /\ x[1] \in Nat /\ x[2] \in Nat /\ x[3] \in Nat /\ x[4] \in Nat
          /\ x[5] \in Nat /\ x[6] \in Nat /\ x[7] \in Nat
          /\ y[1] \in Nat /\ y[2] \in Nat /\ y[3] \in Nat /\ y[4] \in Nat
          /\ y[5] \in Nat /\ y[6] \in Nat /\ y[7] \in Nat
          /\ z[1] \in Nat /\ z[2] \in Nat /\ z[3] \in Nat /\ z[4] \in Nat
          /\ z[5] \in Nat /\ z[6] \in Nat /\ z[7] \in Nat
      BY <2>1 DEF Key
    <2>3. \A k \in 1 .. 7 : k \in {1, 2, 3, 4, 5, 6, 7}
      OBVIOUS
    <2> QED
      BY <2>2, <2>3
  <1>2. KeyLess(x, y) /\ KeyLess(y, z)
    BY KeyIsPolicy
  <1> HIDE DEF x, y, z
  <1>3. PICK m \in 1 .. 7 : x[m] < y[m] /\ \A j \in 1 .. m - 1 : x[j] = y[j]
    BY <1>2 DEF KeyLess
  <1>4. PICK n \in 1 .. 7 : y[n] < z[n] /\ \A j \in 1 .. n - 1 : y[j] = z[j]
    BY <1>2 DEF KeyLess
  <1>5. CASE m <= n
    <2>1. \A j \in 1 .. m - 1 : x[j] = y[j] /\ y[j] = z[j]
      BY <1>3, <1>4, <1>5
    <2>2. y[m] <= z[m]
      <3>1. CASE m = n
        BY <1>1, <1>4, <3>1
      <3>2. CASE m < n
        <4>1. m \in 1 .. n - 1
          BY <3>2
        <4> QED
          BY <1>1, <1>4, <4>1
      <3> QED
        BY <1>5, <3>1, <3>2
    <2>3. x[m] < z[m]
      BY <1>1, <1>3, <2>2
    <2>4. KeyLess(x, z)
      BY <2>1, <2>3 DEF KeyLess
    <2> QED
      BY <2>4, KeyIsPolicy DEF x, z
  <1>6. CASE n < m
    <2>1. n \in 1 .. m - 1
      BY <1>6
    <2>2. x[n] < z[n]
      BY <1>3, <1>4, <2>1
    <2>3. \A j \in 1 .. n - 1 : x[j] = z[j]
      BY <1>3, <1>4, <1>6
    <2>4. KeyLess(x, z)
      BY <2>2, <2>3 DEF KeyLess
    <2> QED
      BY <2>4, KeyIsPolicy DEF x, z
  <1> QED
    BY <1>5, <1>6

\* When ids tell tasks apart, the answer depends on which tasks there are and
\* not on the order in which their pages came, nor on how often one came.
THEOREM OrderDoesNotMatter ==
    ASSUME NEW tasks \in Seq(Task), NEW others \in Seq(Task), NEW now \in Nat,
           ToSet(tasks) = ToSet(others),
           \A a, b \in ToSet(tasks) : a.id = b.id => a = b
    PROVE  SelectNextTask(tasks, now) = SelectNextTask(others, now)
  <1> DEFINE started == {t \in ToSet(tasks) : Startable(t, now)}
             x == SelectNextTask(tasks, now)
             y == SelectNextTask(others, now)
  <1>1. /\ started = {} => x = NoTask
        /\ started # {} => /\ x \in started
                           /\ \A t \in started : ~RanksBefore(t, x, now)
    BY SelectionFollowsPolicy
  <1>2. /\ started = {} => y = NoTask
        /\ started # {} => /\ y \in started
                           /\ \A t \in started : ~RanksBefore(t, y, now)
    BY SelectionFollowsPolicy
  <1>3. started \subseteq Task
    BY LenProperties DEF ToSet
  <1> HIDE DEF x, y
  <1>4. CASE started = {}
    BY <1>1, <1>2, <1>4 DEF x, y
  <1>5. CASE started # {}
    <2>1. x.id = y.id
      BY <1>1, <1>2, <1>3, <1>5, PolicyIsTotal
    <2> QED
      BY <1>1, <1>2, <1>5, <2>1 DEF x, y
  <1> QED
    BY <1>4, <1>5
=============================================================================
