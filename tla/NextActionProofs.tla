-------------------------- MODULE NextActionProofs --------------------------
(***************************************************************************)
(* What holds of /next for any tasks, page size and number of changes.     *)
(* The inductive invariant is about the read in progress: of the tasks     *)
(* active throughout it has passed by, neither read nor still behind the   *)
(* offset, at most as many as tasks were removed or moved, wherever others *)
(* appeared.                                                               *)
(***************************************************************************)
EXTENDS NextAction, TaskSelectorProofs, FiniteSetTheorems

\* What Singularity knows of a task, mapped.
Mapped(id, content) ==
    MapTask([ id |-> id, start |-> content[id].start,
              deadline |-> content[id].deadline,
              priority |-> content[id].priority ])

\* The tasks of some ids from an offset on, at most n of them.
Slice(ids, from, n, content) ==
    LET cut == SubSeq(ids, from + 1, IF from + n <= Len(ids) THEN from + n ELSE Len(ids))
    IN  [i \in DOMAIN cut |-> Mapped(cut[i], content)]

Behind(id, ids, from) == \E i \in DOMAIN ids : i > from /\ ids[i] = id

IdsOf(list) == {list[i].id : i \in DOMAIN list}

\* What was read is what Singularity knows.
TasksOK ==
    \A i \in DOMAIN tasks :
        tasks[i].id \in Ids /\ tasks[i] = Mapped(tasks[i].id, catalog)

\* The read in progress has passed few tasks by.
PassedBy ==
    {id \in throughout : id \notin IdsOf(tasks) /\ ~Behind(id, remote, offset)}

FewPassedBy == stage = "reading" => Cardinality(PassedBy) <= disturbed

AnsweredLater == stage = "answered" => now <= answeredAt

NextActionInv ==
    /\ NextActionTypeOK
    /\ IsInjective(remote)
    /\ ReadIsBounded
    /\ TasksOK
    /\ FewPassedBy
    /\ EachDisturbanceHidesOne
    /\ AnswerFollowsPolicy
    /\ AnsweredLater

-----------------------------------------------------------------------------
\* Sequences.

\* new is s with e inserted at k, s with the element at k removed.
IsInsertion(new, s, k, e, S) ==
    /\ new \in Seq(S)
    /\ Len(new) = Len(s) + 1
    /\ \A i \in 1 .. k - 1 : new[i] = s[i]
    /\ new[k] = e
    /\ \A i \in k + 1 .. Len(s) + 1 : new[i] = s[i - 1]

IsRemoval(new, s, k, S) ==
    /\ new \in Seq(S)
    /\ Len(new) = Len(s) - 1
    /\ \A i \in 1 .. k - 1 : new[i] = s[i]
    /\ \A i \in k .. Len(s) - 1 : new[i] = s[i + 1]

LEMMA Inserted ==
    ASSUME NEW S, NEW s \in Seq(S), NEW k \in 1 .. Len(s) + 1, NEW e \in S
    PROVE  IsInsertion(InsertAt(s, k, e), s, k, e, S)
  <1> DEFINE front == SubSeq(s, 1, k - 1)
             back == SubSeq(s, k, Len(s))
             half == front \o <<e>>
  <1>0. Len(s) \in Nat /\ \A i \in 1 .. Len(s) : s[i] \in S
    BY LenProperties
  <1>1. /\ front \in Seq(S) /\ Len(front) = k - 1
        /\ \A i \in 1 .. k - 1 : front[i] = s[i]
    <2>1. \A i \in 1 .. k - 1 : s[i] \in S
      BY <1>0
    <2>2. /\ front \in Seq(S) /\ Len(front) = IF 1 <= k - 1 THEN k - 1 - 1 + 1 ELSE 0
          /\ \A i \in 1 .. k - 1 - 1 + 1 : front[i] = s[1 + i - 1]
      BY <1>0, <2>1, SubSeqProperties
    <2> QED
      BY <1>0, <2>2
  <1>2. /\ back \in Seq(S) /\ Len(back) = Len(s) - k + 1
        /\ \A i \in 1 .. Len(s) - k + 1 : back[i] = s[k + i - 1]
    <2>1. \A i \in k .. Len(s) : s[i] \in S
      BY <1>0
    <2>2. /\ back \in Seq(S) /\ Len(back) = IF k <= Len(s) THEN Len(s) - k + 1 ELSE 0
          /\ \A i \in 1 .. Len(s) - k + 1 : back[i] = s[k + i - 1]
      BY <1>0, <2>1, SubSeqProperties
    <2> QED
      BY <1>0, <2>2
  <1>3. <<e>> \in Seq(S) /\ Len(<<e>>) = 1 /\ <<e>>[1] = e
    OBVIOUS
  <1> HIDE DEF front, back
  <1>4. /\ half \in Seq(S) /\ Len(half) = k
        /\ \A i \in 1 .. k : half[i] = IF i < k THEN s[i] ELSE e
    <2>1. /\ half \in Seq(S) /\ Len(half) = Len(front) + Len(<<e>>)
          /\ \A i \in 1 .. Len(front) + Len(<<e>>) :
                half[i] = IF i <= Len(front) THEN front[i] ELSE <<e>>[i - Len(front)]
      BY <1>1, <1>3, ConcatProperties
    <2> QED
      BY <1>0, <1>1, <1>3, <2>1
  <1> HIDE DEF half
  <1>5. /\ half \o back \in Seq(S) /\ Len(half \o back) = Len(s) + 1
        /\ \A i \in 1 .. Len(s) + 1 :
              (half \o back)[i] = IF i <= k THEN half[i] ELSE back[i - k]
    <2>1. /\ half \o back \in Seq(S) /\ Len(half \o back) = Len(half) + Len(back)
          /\ \A i \in 1 .. Len(half) + Len(back) :
                (half \o back)[i] = IF i <= Len(half) THEN half[i] ELSE back[i - Len(half)]
      BY <1>2, <1>4, ConcatProperties
    <2> QED
      BY <1>0, <1>2, <1>4, <2>1
  <1>6. InsertAt(s, k, e) = half \o back
    BY DEF InsertAt, half, front, back
  <1> DEFINE whole == half \o back
  <1> HIDE DEF whole
  <1>7. ASSUME NEW i \in 1 .. k - 1
        PROVE  whole[i] = s[i]
    <2>1. i \in 1 .. k /\ i \in 1 .. Len(s) + 1 /\ i < k /\ i <= k
      BY <1>0
    <2> QED
      BY <1>4, <1>5, <2>1 DEF whole
  <1>8. whole[k] = e
    <2>1. k \in 1 .. k /\ k \in 1 .. Len(s) + 1 /\ ~(k < k) /\ k <= k
      BY <1>0
    <2> QED
      BY <1>4, <1>5, <2>1 DEF whole
  <1>9. ASSUME NEW i \in k + 1 .. Len(s) + 1
        PROVE  whole[i] = s[i - 1]
    <2> DEFINE j == i - k
    <2>1. /\ i \in 1 .. Len(s) + 1 /\ ~(i <= k)
          /\ j \in 1 .. Len(s) - k + 1 /\ k + j - 1 = i - 1
      BY <1>0
    <2>2. whole[i] = back[j]
      BY <1>5, <2>1 DEF whole
    <2> HIDE DEF j
    <2> QED
      BY <1>2, <2>1, <2>2
  <1>10. IsInsertion(whole, s, k, e, S)
    <2>1. whole \in Seq(S) /\ Len(whole) = Len(s) + 1
      BY <1>5 DEF whole
    <2> QED
      BY <1>7, <1>8, <1>9, <2>1 DEF IsInsertion
  <1> QED
    BY <1>6, <1>10 DEF whole

LEMMA Removed ==
    ASSUME NEW S, NEW s \in Seq(S), NEW k \in 1 .. Len(s)
    PROVE  IsRemoval(RemoveAt(s, k), s, k, S)
  <1> DEFINE front == SubSeq(s, 1, k - 1)
             back == SubSeq(s, k + 1, Len(s))
  <1>0. Len(s) \in Nat /\ \A i \in 1 .. Len(s) : s[i] \in S
    BY LenProperties
  <1>1. /\ front \in Seq(S) /\ Len(front) = k - 1
        /\ \A i \in 1 .. k - 1 : front[i] = s[i]
    <2>1. \A i \in 1 .. k - 1 : s[i] \in S
      BY <1>0
    <2>2. /\ front \in Seq(S) /\ Len(front) = IF 1 <= k - 1 THEN k - 1 - 1 + 1 ELSE 0
          /\ \A i \in 1 .. k - 1 - 1 + 1 : front[i] = s[1 + i - 1]
      BY <1>0, <2>1, SubSeqProperties
    <2> QED
      BY <1>0, <2>2
  <1>2. /\ back \in Seq(S) /\ Len(back) = Len(s) - k
        /\ \A i \in 1 .. Len(s) - k : back[i] = s[k + i]
    <2>1. \A i \in k + 1 .. Len(s) : s[i] \in S
      BY <1>0
    <2>2. /\ back \in Seq(S)
          /\ Len(back) = IF k + 1 <= Len(s) THEN Len(s) - (k + 1) + 1 ELSE 0
          /\ \A i \in 1 .. Len(s) - (k + 1) + 1 : back[i] = s[k + 1 + i - 1]
      BY <1>0, <2>1, SubSeqProperties
    <2> QED
      BY <1>0, <2>2
  <1> HIDE DEF front, back
  <1>3. /\ front \o back \in Seq(S) /\ Len(front \o back) = Len(front) + Len(back)
        /\ \A i \in 1 .. Len(front) + Len(back) :
              (front \o back)[i] = IF i <= Len(front) THEN front[i] ELSE back[i - Len(front)]
    BY <1>1, <1>2, ConcatProperties
  <1>4. RemoveAt(s, k) = front \o back
    BY DEF RemoveAt, front, back
  <1> DEFINE whole == front \o back
  <1> HIDE DEF whole
  <1>5. ASSUME NEW i \in 1 .. k - 1
        PROVE  whole[i] = s[i]
    <2>1. i \in 1 .. Len(front) + Len(back) /\ i <= Len(front)
      BY <1>0, <1>1, <1>2
    <2> QED
      BY <1>1, <1>3, <2>1 DEF whole
  <1>6. ASSUME NEW i \in k .. Len(s) - 1
        PROVE  whole[i] = s[i + 1]
    <2> DEFINE j == i - (k - 1)
    <2>1. /\ i \in 1 .. Len(front) + Len(back) /\ ~(i <= Len(front))
          /\ j = i - Len(front) /\ j \in 1 .. Len(s) - k /\ k + j = i + 1
      BY <1>0, <1>1, <1>2
    <2> HIDE DEF j
    <2>2. whole[i] = back[j]
      BY <1>3, <2>1 DEF whole
    <2> QED
      BY <1>2, <2>1, <2>2
  <1>7. Len(whole) = Len(s) - 1
    BY <1>0, <1>1, <1>2, <1>3 DEF whole
  <1>8. IsRemoval(whole, s, k, S)
    <2>1. whole \in Seq(S)
      BY <1>3 DEF whole
    <2> QED
      BY <1>5, <1>6, <1>7, <2>1 DEF IsRemoval
  <1> QED
    BY <1>4, <1>8 DEF whole

NoneMovesForward(new, s) ==
    \A i \in 1 .. Len(s) : \E j \in 1 .. Len(s) + 1 : j >= i /\ new[j] = s[i]

\* Where the elements are after an insertion.
LEMMA InsertedKeeps ==
    ASSUME NEW S, NEW s \in Seq(S), NEW k \in 1 .. Len(s) + 1, NEW e \in S
    PROVE  /\ NoneMovesForward(InsertAt(s, k, e), s)
           /\ ToSet(s) \subseteq ToSet(InsertAt(s, k, e))
           /\ e \in ToSet(InsertAt(s, k, e))
  <1> DEFINE whole == InsertAt(s, k, e)
  <1>a. IsInsertion(whole, s, k, e, S)
    BY Inserted
  <1> HIDE DEF whole
  <1>0. /\ Len(s) \in Nat /\ DOMAIN s = 1 .. Len(s)
        /\ whole \in Seq(S) /\ Len(whole) = Len(s) + 1
        /\ \A i \in 1 .. k - 1 : whole[i] = s[i]
        /\ whole[k] = e
        /\ \A i \in k + 1 .. Len(s) + 1 : whole[i] = s[i - 1]
    BY <1>a, LenProperties DEF IsInsertion
  <1>1. DOMAIN whole = 1 .. Len(s) + 1
    BY <1>0, LenProperties
  <1>2. ASSUME NEW i \in 1 .. Len(s)
        PROVE  \E j \in 1 .. Len(s) + 1 : j >= i /\ whole[j] = s[i]
    <2>1. CASE i < k
      <3>1. i \in 1 .. k - 1 /\ i \in 1 .. Len(s) + 1 /\ i >= i
        BY <1>0, <2>1
      <3> QED
        BY <1>0, <3>1
    <2>2. CASE i >= k
      <3>1. /\ i + 1 \in k + 1 .. Len(s) + 1 /\ i + 1 \in 1 .. Len(s) + 1
            /\ i + 1 >= i /\ (i + 1) - 1 = i
        BY <1>0, <2>2
      <3>2. whole[i + 1] = s[i]
        BY <1>0, <3>1
      <3> QED
        BY <3>1, <3>2
    <2> QED
      BY <1>0, <2>1, <2>2
  <1>3. ToSet(s) \subseteq ToSet(whole)
    <2>1. ASSUME NEW x \in ToSet(s)
          PROVE  x \in ToSet(whole)
      <3>1. PICK i \in 1 .. Len(s) : x = s[i]
        BY <1>0 DEF ToSet
      <3>2. PICK j \in 1 .. Len(s) + 1 : whole[j] = s[i]
        BY <1>2
      <3>3. j \in DOMAIN whole /\ x = whole[j]
        BY <1>1, <3>1, <3>2
      <3> QED
        BY <3>3 DEF ToSet
    <2> QED
      BY <2>1
  <1>4. e \in ToSet(whole)
    <2>1. k \in DOMAIN whole /\ e = whole[k]
      BY <1>0, <1>1
    <2> QED
      BY <2>1 DEF ToSet
  <1> QED
    BY <1>2, <1>3, <1>4 DEF whole, NoneMovesForward

LEMMA InsertedInjective ==
    ASSUME NEW S, NEW s \in Seq(S), NEW k \in 1 .. Len(s) + 1, NEW e \in S,
           IsInjective(s), e \notin ToSet(s)
    PROVE  IsInjective(InsertAt(s, k, e))
  <1> DEFINE whole == InsertAt(s, k, e)
             old(a) == IF a < k THEN a ELSE a - 1
  <1>a. IsInsertion(whole, s, k, e, S)
    BY Inserted
  <1> HIDE DEF whole
  <1>0. /\ Len(s) \in Nat /\ DOMAIN s = 1 .. Len(s)
        /\ whole \in Seq(S) /\ Len(whole) = Len(s) + 1
        /\ \A i \in 1 .. k - 1 : whole[i] = s[i]
        /\ whole[k] = e
        /\ \A i \in k + 1 .. Len(s) + 1 : whole[i] = s[i - 1]
    BY <1>a, LenProperties DEF IsInsertion
  <1>1. DOMAIN whole = 1 .. Len(s) + 1
    BY <1>0, LenProperties
  <1>2. ASSUME NEW a \in 1 .. Len(s) + 1, a # k
        PROVE  old(a) \in 1 .. Len(s) /\ whole[a] = s[old(a)]
    <2>1. CASE a < k
      <3>1. a \in 1 .. k - 1 /\ a \in 1 .. Len(s) /\ old(a) = a
        BY <1>0, <2>1
      <3> QED
        BY <1>0, <3>1
    <2>2. CASE a > k
      <3>1. a \in k + 1 .. Len(s) + 1 /\ a - 1 \in 1 .. Len(s) /\ old(a) = a - 1
        BY <1>0, <2>2
      <3> QED
        BY <1>0, <3>1
    <2> QED
      BY <1>0, <1>2, <2>1, <2>2
  <1>3. \A a \in 1 .. Len(s) + 1, b \in 1 .. Len(s) + 1 :
            a # k /\ b # k /\ old(a) = old(b) => a = b
    BY <1>0
  <1> HIDE DEF old
  <1>4. \A a \in 1 .. Len(s) + 1 : a # k => whole[a] # e
    <2>1. \A i \in 1 .. Len(s) : s[i] \in ToSet(s)
      BY <1>0 DEF ToSet
    <2> QED
      BY <1>2, <2>1
  <1>5. ASSUME NEW a \in 1 .. Len(s) + 1, NEW b \in 1 .. Len(s) + 1, whole[a] = whole[b]
        PROVE  a = b
    <2>1. CASE a = k \/ b = k
      BY <1>0, <1>4, <1>5, <2>1
    <2>2. CASE a # k /\ b # k
      <3>1. s[old(a)] = s[old(b)] /\ old(a) \in DOMAIN s /\ old(b) \in DOMAIN s
        BY <1>0, <1>2, <1>5, <2>2
      <3>2. old(a) = old(b)
        BY <3>1 DEF IsInjective
      <3> QED
        BY <1>3, <2>2, <3>2
    <2> QED
      BY <2>1, <2>2
  <1>6. IsInjective(whole)
    BY <1>1, <1>5 DEF IsInjective
  <1> QED
    BY <1>6 DEF whole

LEMMA RemovedKeeps ==
    ASSUME NEW S, NEW s \in Seq(S), NEW k \in 1 .. Len(s), IsInjective(s)
    PROVE  /\ ToSet(s) \ {s[k]} \subseteq ToSet(RemoveAt(s, k))
           /\ s[k] \notin ToSet(RemoveAt(s, k))
           /\ IsInjective(RemoveAt(s, k))
  <1> DEFINE whole == RemoveAt(s, k)
             old(a) == IF a < k THEN a ELSE a + 1
  <1>a. IsRemoval(whole, s, k, S)
    BY Removed
  <1> HIDE DEF whole
  <1>0. /\ Len(s) \in Nat /\ DOMAIN s = 1 .. Len(s)
        /\ whole \in Seq(S) /\ Len(whole) = Len(s) - 1
        /\ \A i \in 1 .. k - 1 : whole[i] = s[i]
        /\ \A i \in k .. Len(s) - 1 : whole[i] = s[i + 1]
    BY <1>a, LenProperties DEF IsRemoval
  <1>1. DOMAIN whole = 1 .. Len(s) - 1
    BY <1>0, LenProperties
  <1>2. ASSUME NEW a \in 1 .. Len(s) - 1
        PROVE  old(a) \in 1 .. Len(s) /\ old(a) # k /\ whole[a] = s[old(a)]
    <2>1. CASE a < k
      <3>1. a \in 1 .. k - 1 /\ a \in 1 .. Len(s) /\ old(a) = a
        BY <1>0, <2>1
      <3> QED
        BY <1>0, <2>1, <3>1
    <2>2. CASE a >= k
      <3>1. a \in k .. Len(s) - 1 /\ a + 1 \in 1 .. Len(s) /\ old(a) = a + 1 /\ a + 1 # k
        BY <1>0, <2>2
      <3> QED
        BY <1>0, <3>1
    <2> QED
      BY <1>0, <2>1, <2>2
  <1>3. \A a \in 1 .. Len(s) - 1, b \in 1 .. Len(s) - 1 : old(a) = old(b) => a = b
    BY <1>0
  <1>4. ASSUME NEW i \in 1 .. Len(s), i # k
        PROVE  \E a \in 1 .. Len(s) - 1 : old(a) = i
    <2>1. CASE i < k
      <3>1. i \in 1 .. Len(s) - 1 /\ old(i) = i
        BY <1>0, <2>1
      <3> QED
        BY <3>1
    <2>2. CASE i > k
      <3>1. i - 1 \in 1 .. Len(s) - 1 /\ old(i - 1) = i
        BY <1>0, <2>2
      <3> QED
        BY <3>1
    <2> QED
      BY <1>0, <1>4, <2>1, <2>2
  <1> HIDE DEF old
  <1>5. ToSet(s) \ {s[k]} \subseteq ToSet(whole)
    <2>1. ASSUME NEW x \in ToSet(s), x # s[k]
          PROVE  x \in ToSet(whole)
      <3>1. PICK i \in 1 .. Len(s) : x = s[i]
        BY <1>0 DEF ToSet
      <3>2. PICK a \in 1 .. Len(s) - 1 : old(a) = i
        BY <1>4, <2>1, <3>1
      <3>3. whole[a] = x
        BY <1>2, <3>1, <3>2
      <3> QED
        BY <1>1, <3>3 DEF ToSet
    <2> QED
      BY <2>1
  <1>6. s[k] \notin ToSet(whole)
    <2>1. ASSUME NEW a \in 1 .. Len(s) - 1
          PROVE  whole[a] # s[k]
      <3>1. old(a) \in DOMAIN s /\ k \in DOMAIN s /\ old(a) # k /\ whole[a] = s[old(a)]
        BY <1>0, <1>2
      <3> QED
        BY <3>1 DEF IsInjective
    <2> QED
      BY <1>1, <2>1 DEF ToSet
  <1>7. IsInjective(whole)
    <2>1. ASSUME NEW a \in DOMAIN whole, NEW b \in DOMAIN whole, whole[a] = whole[b]
          PROVE  a = b
      <3>1. s[old(a)] = s[old(b)] /\ old(a) \in DOMAIN s /\ old(b) \in DOMAIN s
        BY <1>0, <1>1, <1>2, <2>1
      <3>2. old(a) = old(b)
        BY <3>1 DEF IsInjective
      <3> QED
        BY <1>1, <1>3, <3>2
    <2> QED
      BY <2>1 DEF IsInjective
  <1> QED
    BY <1>5, <1>6, <1>7 DEF whole

\* A list without repetitions is no longer than there are tasks.
LEMMA InjectiveIsShort ==
    ASSUME NEW s \in Seq(Ids), IsInjective(s)
    PROVE  Len(s) \in Nat /\ Cardinality(Ids) \in Nat /\ Len(s) <= Cardinality(Ids)
  <1>1. Len(s) \in Nat /\ s \in [1 .. Len(s) -> Ids]
    BY LenProperties
  <1>2. s \in Injection(1 .. Len(s), Ids)
    BY <1>1 DEF Injection
  <1>3. IsFiniteSet(Ids)
    BY NextActionAssumption
  <1>4. Cardinality(1 .. Len(s)) <= Cardinality(Ids)
    BY <1>2, <1>3, FS_Injection
  <1>5. Cardinality(1 .. Len(s)) = Len(s)
    <2>1. Cardinality(1 .. Len(s)) = IF 1 > Len(s) THEN 0 ELSE Len(s) - 1 + 1
      BY <1>1, FS_Interval
    <2> QED
      BY <1>1, <2>1
  <1>6. Cardinality(Ids) \in Nat
    BY <1>3, FS_CardinalityType
  <1> QED
    BY <1>1, <1>4, <1>5, <1>6

\* Sets of tasks.
LEMMA NoMore ==
    ASSUME NEW A \in SUBSET Ids, NEW B \in SUBSET A
    PROVE  /\ Cardinality(A) \in Nat /\ Cardinality(B) \in Nat
           /\ Cardinality(B) <= Cardinality(A)
  <1>1. IsFiniteSet(A)
    BY NextActionAssumption, FS_Subset
  <1> QED
    BY <1>1, FS_Subset, FS_CardinalityType

LEMMA AtMostOneMore ==
    ASSUME NEW A \in SUBSET Ids, NEW B, NEW x, B \subseteq A \cup {x}
    PROVE  /\ Cardinality(A) \in Nat /\ Cardinality(B) \in Nat
           /\ Cardinality(B) <= Cardinality(A) + 1
  <1>1. IsFiniteSet(A) /\ Cardinality(A) \in Nat
    BY NextActionAssumption, FS_Subset, FS_CardinalityType
  <1>2. /\ IsFiniteSet(A \cup {x})
        /\ Cardinality(A \cup {x}) = IF x \in A THEN Cardinality(A) ELSE Cardinality(A) + 1
    BY <1>1, FS_AddElement
  <1>3. IsFiniteSet(B) /\ Cardinality(B) <= Cardinality(A \cup {x})
    BY <1>2, FS_Subset
  <1>4. Cardinality(B) \in Nat
    BY <1>3, FS_CardinalityType
  <1> QED
    BY <1>1, <1>2, <1>3, <1>4

\* What is behind an offset stays there when another task appears.
LEMMA InsertedHidesNone ==
    ASSUME NEW S, NEW s \in Seq(S), NEW k \in 1 .. Len(s) + 1, NEW e \in S,
           NEW from \in Nat, NEW y, Behind(y, s, from)
    PROVE  Behind(y, InsertAt(s, k, e), from)
  <1> DEFINE whole == InsertAt(s, k, e)
  <1>1. NoneMovesForward(whole, s) /\ IsInsertion(whole, s, k, e, S)
    BY Inserted, InsertedKeeps
  <1> HIDE DEF whole
  <1>2. DOMAIN s = 1 .. Len(s) /\ Len(s) \in Nat /\ DOMAIN whole = 1 .. Len(s) + 1
    BY <1>1, LenProperties DEF IsInsertion
  <1>3. PICK i \in 1 .. Len(s) : i > from /\ s[i] = y
    BY <1>2 DEF Behind
  <1>4. PICK j \in 1 .. Len(s) + 1 : j >= i /\ whole[j] = s[i]
    BY <1>1 DEF NoneMovesForward
  <1>5. j \in DOMAIN whole /\ j > from /\ whole[j] = y
    BY <1>2, <1>3, <1>4
  <1>6. Behind(y, whole, from)
    BY <1>5 DEF Behind
  <1> QED
    BY <1>6 DEF whole

\* When one disappears, at most the first one behind the offset leaves it.
LEMMA RemovedHidesOne ==
    ASSUME NEW S, NEW s \in Seq(S), NEW k \in 1 .. Len(s), NEW from \in Nat,
           NEW y, Behind(y, s, from), y # s[k], ~Behind(y, RemoveAt(s, k), from)
    PROVE  k <= from /\ y = s[from + 1]
  <1> DEFINE whole == RemoveAt(s, k)
  <1>1. IsRemoval(whole, s, k, S)
    BY Removed
  <1>2. ~Behind(y, whole, from)
    OBVIOUS
  <1> HIDE DEF whole
  <1>3. /\ DOMAIN s = 1 .. Len(s) /\ Len(s) \in Nat
        /\ DOMAIN whole = 1 .. Len(s) - 1
        /\ \A i \in 1 .. k - 1 : whole[i] = s[i]
        /\ \A i \in k .. Len(s) - 1 : whole[i] = s[i + 1]
    BY <1>1, LenProperties DEF IsRemoval
  <1>4. PICK i \in 1 .. Len(s) : i > from /\ s[i] = y
    BY <1>3 DEF Behind
  <1>5. i # k
    BY <1>4
  <1>6. ~(i < k)
    <2>1. SUFFICES ASSUME i < k
                   PROVE  FALSE
      OBVIOUS
    <2>2. i \in 1 .. k - 1 /\ i \in DOMAIN whole
      BY <1>3, <2>1
    <2>3. whole[i] = y
      BY <1>3, <1>4, <2>2
    <2> QED
      BY <1>2, <1>4, <2>2, <2>3 DEF Behind
  <1>7. /\ i - 1 \in k .. Len(s) - 1 /\ i - 1 \in DOMAIN whole
        /\ (i - 1) + 1 = i
    BY <1>3, <1>5, <1>6
  <1>8. whole[i - 1] = y
    BY <1>3, <1>4, <1>7
  <1>9. ~(i - 1 > from)
    BY <1>2, <1>7, <1>8 DEF Behind
  <1>10. i = from + 1
    BY <1>4, <1>9
  <1> QED
    BY <1>4, <1>7, <1>10

-----------------------------------------------------------------------------
\* Pages.

LEMMA MappedType ==
    ASSUME NEW id \in Ids, NEW content \in [Ids -> Content]
    PROVE  Mapped(id, content) \in Task /\ Mapped(id, content).id = id
  <1> DEFINE c == content[id]
  <1>1. /\ c.start \in OptionalDate /\ c.deadline \in OptionalDate
        /\ c.priority \in 0 .. 2 /\ id \in Nat
    BY NextActionAssumption DEF Content
  <1> HIDE DEF c
  <1>2. \A d \in OptionalDate : NormalizeOptional(d) \in OptionalInstant
    BY DatesAssumption DEF NormalizeOptional, OptionalDate, OptionalInstant, Date
  <1>3. \A p \in 0 .. 2 : TaskPriorities[p] \in Priorities
    <2>1. \A p \in 0 .. 2 : p \in {0, 1, 2}
      OBVIOUS
    <2> QED
      BY <2>1 DEF TaskPriorities, Priorities
  <1>4. Mapped(id, content) =
            [ id |-> id, start |-> NormalizeOptional(c.start),
              deadline |-> NormalizeOptional(c.deadline),
              priority |-> TaskPriorities[c.priority] ]
    BY DEF Mapped, MapTask, c
  <1> QED
    BY <1>1, <1>2, <1>3, <1>4 DEF Task

\* The page holds what is within its reach, and all the rest when it is short.
IsPage(page, ids, from, n, content) ==
    /\ page \in Seq(Task)
    /\ \A i \in DOMAIN page :
          page[i].id \in Ids /\ page[i] = Mapped(page[i].id, content)
    /\ \A i \in 1 .. Len(ids) :
          i > from /\ (i <= from + n \/ Len(page) < n) => ids[i] \in IdsOf(page)
    /\ ~(Len(page) < n) => from + n <= Len(ids)

LEMMA SliceProperties ==
    ASSUME NEW ids \in Seq(Ids), NEW from \in Nat, NEW n \in Nat \ {0},
           NEW content \in [Ids -> Content]
    PROVE  IsPage(Slice(ids, from, n, content), ids, from, n, content)
  <1> DEFINE L == Len(ids)
             last == IF from + n <= L THEN from + n ELSE L
             cut == SubSeq(ids, from + 1, last)
             page == Slice(ids, from, n, content)
  <1>0. L \in Nat /\ \A i \in 1 .. L : ids[i] \in Ids
    BY LenProperties
  <1>1. /\ last \in Int /\ last <= L
        /\ from + n <= L => last = from + n
        /\ ~(from + n <= L) => last = L
    BY <1>0
  <1> HIDE DEF last
  <1>2. /\ cut \in Seq(Ids)
        /\ Len(cut) = IF from + 1 <= last THEN last - from ELSE 0
        /\ \A i \in 1 .. last - from : cut[i] = ids[from + i]
    <2>1. \A i \in from + 1 .. last : ids[i] \in Ids
      BY <1>0, <1>1
    <2>2. /\ cut \in Seq(Ids)
          /\ Len(cut) = IF from + 1 <= last THEN last - (from + 1) + 1 ELSE 0
          /\ \A i \in 1 .. last - (from + 1) + 1 : cut[i] = ids[from + 1 + i - 1]
      BY <1>1, <2>1, SubSeqProperties
    <2> QED
      BY <1>1, <2>2
  <1>3. page = [i \in DOMAIN cut |-> Mapped(cut[i], content)]
    BY DEF Slice, last
  <1> HIDE DEF cut, page
  <1>4. /\ Len(cut) \in Nat /\ DOMAIN cut = 1 .. Len(cut)
        /\ \A i \in DOMAIN cut : cut[i] \in Ids
    BY <1>2, LenProperties
  <1>5. \A i \in DOMAIN cut : page[i] \in Task /\ page[i].id = cut[i]
                               /\ page[i] = Mapped(page[i].id, content)
    BY <1>3, <1>4, MappedType
  <1>6. page \in Seq(Task) /\ DOMAIN page = DOMAIN cut
    <2>1. page \in [1 .. Len(cut) -> Task]
      BY <1>3, <1>4, <1>5
    <2> QED
      BY <1>4, <2>1, SeqDef
  <1>7. Len(page) = Len(cut)
    BY <1>4, <1>6, LenProperties
  <1>8. ASSUME NEW i \in 1 .. L, i > from, i <= from + n \/ Len(page) < n
        PROVE  ids[i] \in IdsOf(page)
    <2>1. i <= last
      BY <1>0, <1>1, <1>2, <1>7, <1>8
    <2> DEFINE j == i - from
    <2>2. j \in 1 .. last - from /\ from + j = i /\ j \in 1 .. Len(cut)
      BY <1>0, <1>1, <1>2, <1>8, <2>1
    <2> HIDE DEF j
    <2>3. cut[j] = ids[i] /\ j \in DOMAIN page
      BY <1>2, <1>4, <1>6, <2>2
    <2> QED
      BY <1>5, <1>6, <2>3 DEF IdsOf
  <1>9. ~(Len(page) < n) => from + n <= L
    BY <1>0, <1>1, <1>2, <1>7
  <1> QED
    BY <1>4, <1>5, <1>6, <1>8, <1>9 DEF page, IsPage

Joins(both, s, t) ==
    /\ both \in Seq(Task)
    /\ IdsOf(s) \subseteq IdsOf(both)
    /\ IdsOf(t) \subseteq IdsOf(both)
    /\ \A i \in DOMAIN both : \/ \E j \in DOMAIN s : both[i] = s[j]
                              \/ \E j \in DOMAIN t : both[i] = t[j]

LEMMA ConcatIds ==
    ASSUME NEW s \in Seq(Task), NEW t \in Seq(Task)
    PROVE  Joins(s \o t, s, t)
  <1> DEFINE both == s \o t
  <1>1. /\ both \in Seq(Task) /\ Len(both) = Len(s) + Len(t)
        /\ \A i \in 1 .. Len(s) + Len(t) :
              both[i] = IF i <= Len(s) THEN s[i] ELSE t[i - Len(s)]
    BY ConcatProperties
  <1> HIDE DEF both
  <1>2. /\ Len(s) \in Nat /\ Len(t) \in Nat
        /\ DOMAIN s = 1 .. Len(s) /\ DOMAIN t = 1 .. Len(t)
        /\ DOMAIN both = 1 .. Len(s) + Len(t)
    BY <1>1, LenProperties
  <1>3. ASSUME NEW i \in DOMAIN s
        PROVE  i \in DOMAIN both /\ both[i] = s[i]
    <2>1. i \in 1 .. Len(s) + Len(t) /\ i <= Len(s)
      BY <1>2
    <2> QED
      BY <1>1, <1>2, <2>1
  <1>4. ASSUME NEW j \in DOMAIN t
        PROVE  Len(s) + j \in DOMAIN both /\ both[Len(s) + j] = t[j]
    <2>1. /\ Len(s) + j \in 1 .. Len(s) + Len(t) /\ ~(Len(s) + j <= Len(s))
          /\ (Len(s) + j) - Len(s) = j
      BY <1>2
    <2> QED
      BY <1>1, <1>2, <2>1
  <1>5. ASSUME NEW i \in DOMAIN both
        PROVE  (\E j \in DOMAIN s : both[i] = s[j]) \/ (\E j \in DOMAIN t : both[i] = t[j])
    <2>1. CASE i <= Len(s)
      <3>1. i \in DOMAIN s
        BY <1>2, <2>1
      <3> QED
        BY <1>3, <3>1
    <2>2. CASE i > Len(s)
      <3>1. i - Len(s) \in DOMAIN t /\ Len(s) + (i - Len(s)) = i
        BY <1>2, <2>2
      <3> QED
        BY <1>4, <3>1
    <2> QED
      BY <1>2, <2>1, <2>2
  <1>6. IdsOf(s) \subseteq IdsOf(both) /\ IdsOf(t) \subseteq IdsOf(both)
    BY <1>3, <1>4 DEF IdsOf
  <1> QED
    BY <1>1, <1>5, <1>6 DEF both, Joins

-----------------------------------------------------------------------------
\* Invariance.

THEOREM NextActionInitInv == NextActionInit => NextActionInv
  <1> SUFFICES ASSUME NextActionInit
               PROVE  NextActionInv
    OBVIOUS
  <1> USE DEF NextActionInit
  <1>1. remote \in Seq(Ids) /\ IsInjective(remote)
    <2>1. PICK n \in 0 .. Cardinality(Ids) : remote \in [1 .. n -> Ids]
      BY DEF SeqOf
    <2>2. n \in Nat
      OBVIOUS
    <2> QED
      BY <2>1, <2>2, SeqDef DEF Active
  <1>2. NextActionTypeOK
    <2>1. tasks \in Seq(Task)
      OBVIOUS
    <2>2. catalog \in [Ids -> Content] /\ changes \in 0 .. MaxChanges
      BY NextActionAssumption
    <2> QED
      BY <1>1, <2>1, <2>2 DEF NextActionTypeOK, Stages
  <1>3. ReadIsBounded
    BY NextActionAssumption, FS_CardinalityType DEF ReadIsBounded
  <1>4. TasksOK
    BY DEF TasksOK
  <1>5. /\ FewPassedBy /\ EachDisturbanceHidesOne /\ AnswerFollowsPolicy
        /\ AnsweredLater
    BY DEF FewPassedBy, EachDisturbanceHidesOne, AnswerFollowsPolicy,
           AnsweredLater
  <1> QED
    BY <1>1, <1>2, <1>3, <1>4, <1>5 DEF NextActionInv

LEMMA BeginReadInv ==
    ASSUME NextActionInv, BeginRead
    PROVE  NextActionInv'
  <1> USE DEF NextActionInv, BeginRead
  <1>1. NextActionTypeOK'
    <2>1. tasks' \in Seq(Task)
      OBVIOUS
    <2> QED
      BY <2>1 DEF NextActionTypeOK, Stages
  <1>2. IsInjective(remote)'
    OBVIOUS
  <1>3. ReadIsBounded'
    BY NextActionAssumption, FS_CardinalityType DEF ReadIsBounded
  <1>4. TasksOK'
    BY DEF TasksOK
  <1>5. FewPassedBy'
    <2>1. \A i \in DOMAIN remote : i > 0
      BY LenProperties DEF NextActionTypeOK
    <2>2. \A id \in ToSet(remote) : Behind(id, remote, 0)
      BY <2>1 DEF Behind, ToSet
    <2>3. PassedBy' = {}
      BY <2>2 DEF PassedBy
    <2> QED
      BY <2>3, FS_EmptySet DEF FewPassedBy
  <1>6. EachDisturbanceHidesOne' /\ AnswerFollowsPolicy' /\ AnsweredLater'
    BY DEF EachDisturbanceHidesOne, AnswerFollowsPolicy, AnsweredLater
  <1> QED
    BY <1>1, <1>2, <1>3, <1>4, <1>5, <1>6

LEMMA PassedByAreTasks ==
    ASSUME NextActionInv
    PROVE  /\ PassedBy \subseteq Ids /\ throughout \subseteq Ids
           /\ Cardinality(PassedBy) \in Nat /\ disturbed \in Nat
  <1>1. throughout \subseteq Ids
    BY LenProperties DEF NextActionInv, NextActionTypeOK, ToSet
  <1>2. PassedBy \subseteq Ids
    BY <1>1 DEF PassedBy
  <1>3. disturbed \in Nat
    BY NextActionAssumption DEF NextActionInv, NextActionTypeOK
  <1> QED
    BY <1>1, <1>2, <1>3, NoMore

\* What one more page adds to what was read.
LEMMA PageRead ==
    ASSUME NextActionInv, tasks' = tasks \o Page(offset), UNCHANGED catalog
    PROVE  /\ tasks' \in Seq(Task)
           /\ TasksOK'
           /\ IdsOf(tasks) \subseteq IdsOf(tasks')
           /\ \A i \in 1 .. Len(remote) :
                i > offset /\ (i <= offset + PageSize \/ IsLast(Page(offset)))
                    => remote[i] \in IdsOf(tasks')
           /\ ~IsLast(Page(offset)) => offset + PageSize <= Len(remote)
  <1> DEFINE page == Page(offset)
  <1>1. page = Slice(remote, offset, PageSize, catalog)
    BY DEF Page, Slice, Mapped, Response
  <1>2. /\ remote \in Seq(Ids) /\ offset \in Nat /\ PageSize \in Nat \ {0}
        /\ catalog \in [Ids -> Content] /\ tasks \in Seq(Task)
    BY NextActionAssumption DEF NextActionInv, NextActionTypeOK
  <1> HIDE DEF page
  <1>3. IsPage(page, remote, offset, PageSize, catalog)
    BY <1>1, <1>2, SliceProperties
  <1>4. page \in Seq(Task) /\ tasks' = tasks \o page
    BY <1>3 DEF page, IsPage
  <1>5. Joins(tasks', tasks, page)
    BY <1>2, <1>4, ConcatIds
  <1>6. TasksOK'
    BY <1>3, <1>5 DEF TasksOK, NextActionInv, IsPage, Joins
  <1>7. IsLast(Page(offset)) <=> Len(page) < PageSize
    BY DEF IsLast, page
  <1> QED
    BY <1>3, <1>5, <1>6, <1>7 DEF IsPage, Joins

LEMMA ReadPageInv ==
    ASSUME NextActionInv, ReadPage
    PROVE  NextActionInv'
  <1>1. /\ tasks' \in Seq(Task)
        /\ TasksOK'
        /\ IdsOf(tasks) \subseteq IdsOf(tasks')
        /\ \A i \in 1 .. Len(remote) :
              i > offset /\ i <= offset + PageSize => remote[i] \in IdsOf(tasks')
        /\ offset + PageSize <= Len(remote)
    BY PageRead DEF ReadPage
  <1>2. /\ offset' = offset + PageSize /\ offset \in Nat /\ PageSize \in Nat
    BY NextActionAssumption DEF ReadPage, NextOffset, NextActionInv, NextActionTypeOK
  <1>3. NextActionTypeOK'
    BY <1>1, <1>2 DEF ReadPage, NextActionInv, NextActionTypeOK
  <1>4. IsInjective(remote)'
    BY DEF ReadPage, NextActionInv
  <1>5. ReadIsBounded'
    <2>1. Len(remote) \in Nat /\ Cardinality(Ids) \in Nat /\ Len(remote) <= Cardinality(Ids)
      BY InjectiveIsShort DEF NextActionInv, NextActionTypeOK
    <2> QED
      BY <1>1, <1>2, <2>1 DEF ReadIsBounded
  <1>6. FewPassedBy'
    <2>1. ASSUME NEW id \in throughout, id \notin IdsOf(tasks'),
                 ~Behind(id, remote, offset')
          PROVE  id \in PassedBy
      <3>1. SUFFICES ASSUME Behind(id, remote, offset)
                     PROVE  FALSE
        BY <1>1, <2>1 DEF PassedBy
      <3>2. PICK i \in DOMAIN remote : i > offset /\ remote[i] = id
        BY <3>1 DEF Behind
      <3>3. i \in 1 .. Len(remote) /\ Len(remote) \in Nat
        BY <3>2, LenProperties DEF NextActionInv, NextActionTypeOK
      <3>4. ~(i <= offset + PageSize)
        BY <1>1, <2>1, <3>2, <3>3
      <3>5. i > offset'
        BY <1>2, <3>3, <3>4
      <3> QED
        BY <2>1, <3>2, <3>5 DEF Behind
    <2>2. PassedBy' \subseteq PassedBy
      BY <2>1 DEF PassedBy, ReadPage
    <2>3. Cardinality(PassedBy') <= Cardinality(PassedBy) /\ Cardinality(PassedBy') \in Nat
      BY <2>2, PassedByAreTasks, NoMore
    <2>4. Cardinality(PassedBy) <= disturbed /\ disturbed' = disturbed
      BY DEF ReadPage, NextActionInv, FewPassedBy
    <2> QED
      BY <2>3, <2>4, PassedByAreTasks DEF FewPassedBy
  <1>7. EachDisturbanceHidesOne' /\ AnswerFollowsPolicy' /\ AnsweredLater'
    BY DEF ReadPage, EachDisturbanceHidesOne, AnswerFollowsPolicy, AnsweredLater
  <1> QED
    BY <1>1, <1>3, <1>4, <1>5, <1>6, <1>7 DEF NextActionInv

LEMMA ReadLastPageInv ==
    ASSUME NextActionInv, ReadLastPage
    PROVE  NextActionInv'
  <1>1. /\ tasks' \in Seq(Task)
        /\ TasksOK'
        /\ IdsOf(tasks) \subseteq IdsOf(tasks')
        /\ \A i \in 1 .. Len(remote) : i > offset => remote[i] \in IdsOf(tasks')
    BY PageRead DEF ReadLastPage
  <1>2. now \in Nat
    BY DatesAssumption DEF NextActionInv, NextActionTypeOK
  <1> DEFINE started == {t \in ToSet(tasks') : Startable(t, now)}
  <1>3. /\ started = {} => answer' = NoTask
        /\ started # {} => /\ answer' \in started
                           /\ \A t \in started : ~RanksBefore(t, answer', now)
    <2>1. answer' = SelectNextTask(tasks', now)
      BY DEF ReadLastPage
    <2> QED
      BY <1>1, <1>2, <2>1, SelectionFollowsPolicy
  <1>4. ToSet(tasks') \subseteq Task
    BY <1>1, LenProperties DEF ToSet
  <1>5. answer' \in Task \cup {NoTask}
    BY <1>3, <1>4
  <1>6. NextActionTypeOK'
    BY <1>1, <1>5 DEF ReadLastPage, NextActionInv, NextActionTypeOK, Stages
  <1>7. IsInjective(remote)' /\ ReadIsBounded'
    BY DEF ReadLastPage, NextActionInv, ReadIsBounded
  <1>8. FewPassedBy'
    BY DEF ReadLastPage, FewPassedBy
  <1>9. EachDisturbanceHidesOne'
    <2>1. ASSUME NEW id \in throughout, id \notin IdsOf(tasks')
          PROVE  id \in PassedBy
      <3>1. SUFFICES ASSUME Behind(id, remote, offset)
                     PROVE  FALSE
        BY <1>1, <2>1 DEF PassedBy
      <3>2. PICK i \in DOMAIN remote : i > offset /\ remote[i] = id
        BY <3>1 DEF Behind
      <3>3. i \in 1 .. Len(remote)
        BY <3>2, LenProperties DEF NextActionInv, NextActionTypeOK
      <3> QED
        BY <1>1, <2>1, <3>2, <3>3
    <2>2. throughout' \ Read' \subseteq PassedBy
      BY <2>1 DEF ReadLastPage, Read, IdsOf
    <2>3. /\ Cardinality(throughout' \ Read') <= Cardinality(PassedBy)
          /\ Cardinality(throughout' \ Read') \in Nat
      BY <2>2, PassedByAreTasks, NoMore
    <2>4. Cardinality(PassedBy) <= disturbed /\ disturbed' = disturbed
      BY DEF ReadLastPage, NextActionInv, FewPassedBy
    <2> QED
      BY <2>3, <2>4, PassedByAreTasks DEF EachDisturbanceHidesOne
  <1>10. AnswerFollowsPolicy' /\ AnsweredLater'
    BY <1>3 DEF ReadLastPage, AnswerFollowsPolicy, AnsweredLater
  <1> QED
    BY <1>1, <1>6, <1>7, <1>8, <1>9, <1>10 DEF NextActionInv

LEMMA ReadFailsInv ==
    ASSUME NextActionInv, ReadFails
    PROVE  NextActionInv'
  <1> USE DEF NextActionInv, ReadFails
  <1>1. NextActionTypeOK'
    <2>1. tasks' \in Seq(Task)
      OBVIOUS
    <2>2. stage' \in Stages /\ stage' # "answered" /\ answer = NoTask
      BY DEF Stages, NextActionTypeOK
    <2> QED
      BY <2>1, <2>2 DEF NextActionTypeOK
  <1>2. IsInjective(remote)' /\ ReadIsBounded'
    BY DEF ReadIsBounded
  <1>3. TasksOK'
    BY DEF TasksOK
  <1>4. /\ FewPassedBy' /\ EachDisturbanceHidesOne' /\ AnswerFollowsPolicy'
        /\ AnsweredLater'
    BY DEF FewPassedBy, EachDisturbanceHidesOne, AnswerFollowsPolicy,
           AnsweredLater
  <1> QED
    BY <1>1, <1>2, <1>3, <1>4

\* What the changes in Singularity leave alone.
LEMMA ReadUntouched ==
    ASSUME NextActionInv,
           UNCHANGED <<catalog, stage, now, offset, tasks, answer, answeredAt>>
    PROVE  /\ ReadIsBounded' /\ TasksOK' /\ AnswerFollowsPolicy' /\ AnsweredLater'
           /\ stage' \in Stages /\ (stage' # "answered" => answer' = NoTask)
           /\ IdsOf(tasks)' = IdsOf(tasks) /\ Read' = Read
  BY DEF NextActionInv, ReadIsBounded, TasksOK, AnswerFollowsPolicy,
         AnsweredLater, NextActionTypeOK, IdsOf, Read

LEMMA ChangeType ==
    ASSUME changes \in 0 .. MaxChanges, Change
    PROVE  changes' \in 0 .. MaxChanges /\ 0 .. changes \subseteq 0 .. changes'
  BY NextActionAssumption DEF Change

LEMMA AddTaskInv ==
    ASSUME NextActionInv, NEW id \in Ids, AddTask(id)
    PROVE  NextActionInv'
  <1>1. PICK k \in 1 .. Len(remote) + 1 : remote' = InsertAt(remote, k, id)
    BY DEF AddTask
  <1>2. remote \in Seq(Ids) /\ IsInjective(remote) /\ id \notin ToSet(remote)
    BY DEF AddTask, NextActionInv, NextActionTypeOK
  <1>3. /\ NoneMovesForward(remote', remote)
        /\ ToSet(remote) \subseteq ToSet(remote')
    BY <1>1, <1>2, InsertedKeeps
  <1>a. IsInsertion(remote', remote, k, id, Ids)
    BY <1>1, <1>2, Inserted
  <1>4. remote' \in Seq(Ids) /\ Len(remote') = Len(remote) + 1
    BY <1>a DEF IsInsertion
  <1>5. IsInjective(remote')
    BY <1>1, <1>2, InsertedInjective
  <1>6. /\ ReadIsBounded' /\ TasksOK' /\ AnswerFollowsPolicy' /\ AnsweredLater'
        /\ stage' \in Stages /\ (stage' # "answered" => answer' = NoTask)
        /\ IdsOf(tasks)' = IdsOf(tasks) /\ Read' = Read
    BY ReadUntouched DEF AddTask
  <1>7. NextActionTypeOK'
    BY <1>3, <1>4, <1>6, ChangeType DEF AddTask, NextActionInv, NextActionTypeOK
  <1>8. FewPassedBy'
    <2>1. offset \in Nat
      BY DEF NextActionInv, NextActionTypeOK
    <2>2. \A y : Behind(y, remote, offset) => Behind(y, remote', offset)
      BY <1>1, <1>2, <2>1, InsertedHidesNone
    <2>3. PassedBy' \subseteq PassedBy
      BY <1>6, <2>2 DEF PassedBy, AddTask
    <2>4. Cardinality(PassedBy') <= Cardinality(PassedBy) /\ Cardinality(PassedBy') \in Nat
      BY <2>3, PassedByAreTasks, NoMore
    <2>5. stage = "reading" => Cardinality(PassedBy) <= disturbed
      BY DEF NextActionInv, FewPassedBy
    <2> QED
      BY <2>4, <2>5, PassedByAreTasks DEF FewPassedBy, AddTask
  <1>9. EachDisturbanceHidesOne'
    BY <1>6 DEF AddTask, NextActionInv, EachDisturbanceHidesOne
  <1> QED
    BY <1>5, <1>6, <1>7, <1>8, <1>9 DEF NextActionInv

\* A change that hides one task, x, from the read in progress.
LEMMA HidesOne ==
    ASSUME NextActionInv, NEW x,
           UNCHANGED <<stage, offset, tasks>>, disturbed' = disturbed + 1,
           throughout' \subseteq throughout,
           \A id \in throughout' :
              Behind(id, remote, offset) /\ ~Behind(id, remote', offset) => id = x
    PROVE  FewPassedBy' /\ EachDisturbanceHidesOne'
  <1>1. IdsOf(tasks)' = IdsOf(tasks) /\ Read' = Read
    BY DEF IdsOf, Read
  <1>2. PassedBy' \subseteq PassedBy \cup {x}
    BY <1>1 DEF PassedBy
  <1>3. throughout' \ Read' \subseteq throughout \ Read
    BY <1>1
  <1>4. throughout \ Read \subseteq Ids
    BY PassedByAreTasks
  <1>5. /\ Cardinality(PassedBy') <= Cardinality(PassedBy) + 1
        /\ Cardinality(PassedBy') \in Nat
    BY <1>2, PassedByAreTasks, AtMostOneMore
  <1>6. /\ Cardinality(throughout' \ Read') <= Cardinality(throughout \ Read)
        /\ Cardinality(throughout' \ Read') \in Nat
        /\ Cardinality(throughout \ Read) \in Nat
    BY <1>3, <1>4, NoMore
  <1>7. /\ stage = "reading" => Cardinality(PassedBy) <= disturbed
        /\ stage = "answered" => Cardinality(throughout \ Read) <= disturbed
    BY DEF NextActionInv, FewPassedBy, EachDisturbanceHidesOne
  <1>8. FewPassedBy'
    BY <1>5, <1>7, PassedByAreTasks DEF FewPassedBy
  <1>9. EachDisturbanceHidesOne'
    BY <1>6, <1>7, PassedByAreTasks DEF EachDisturbanceHidesOne
  <1> QED
    BY <1>8, <1>9

LEMMA DisturbanceType ==
    ASSUME NextActionTypeOK, Change, disturbed' = disturbed + 1
    PROVE  disturbed' \in 0 .. changes'
  BY NextActionAssumption DEF NextActionTypeOK, Change

LEMMA RemoveTaskInv ==
    ASSUME NextActionInv, NEW k \in DOMAIN remote, RemoveTask(k)
    PROVE  NextActionInv'
  <1>1. remote \in Seq(Ids) /\ IsInjective(remote)
    BY DEF NextActionInv, NextActionTypeOK
  <1>2. k \in 1 .. Len(remote) /\ remote' = RemoveAt(remote, k)
    BY <1>1, LenProperties DEF RemoveTask
  <1>a. IsRemoval(remote', remote, k, Ids)
    BY <1>1, <1>2, Removed
  <1>3. remote' \in Seq(Ids)
    BY <1>a DEF IsRemoval
  <1>4. ToSet(remote) \ {remote[k]} \subseteq ToSet(remote') /\ IsInjective(remote')
    BY <1>1, <1>2, RemovedKeeps
  <1>5. /\ ReadIsBounded' /\ TasksOK' /\ AnswerFollowsPolicy' /\ AnsweredLater'
        /\ stage' \in Stages /\ (stage' # "answered" => answer' = NoTask)
    BY ReadUntouched DEF RemoveTask
  <1>6. NextActionTypeOK'
    BY <1>3, <1>4, <1>5, ChangeType, DisturbanceType
       DEF RemoveTask, NextActionInv, NextActionTypeOK
  <1>7. FewPassedBy' /\ EachDisturbanceHidesOne'
    <2>1. offset \in Nat
      BY DEF NextActionInv, NextActionTypeOK
    <2>2. \A id : id # remote[k] /\ Behind(id, remote, offset) /\ ~Behind(id, remote', offset)
                    => id = remote[offset + 1]
      BY <1>1, <1>2, <2>1, RemovedHidesOne
    <2>3. throughout' = throughout \ {remote[k]}
      BY DEF RemoveTask
    <2> QED
      BY <2>2, <2>3, HidesOne DEF RemoveTask
  <1> QED
    BY <1>4, <1>5, <1>6, <1>7 DEF NextActionInv

LEMMA MoveTaskInv ==
    ASSUME NextActionInv, NEW k \in DOMAIN remote, MoveTask(k)
    PROVE  NextActionInv'
  <1>1. remote \in Seq(Ids) /\ IsInjective(remote)
    BY DEF NextActionInv, NextActionTypeOK
  <1> DEFINE rest == RemoveAt(remote, k)
  <1>2. PICK j \in DOMAIN remote : remote' = InsertAt(rest, j, remote[k])
    BY DEF MoveTask
  <1>3. /\ k \in 1 .. Len(remote) /\ j \in 1 .. Len(remote)
        /\ Len(remote) \in Nat /\ remote[k] \in Ids
    BY <1>1, LenProperties
  <1>a. IsRemoval(rest, remote, k, Ids)
    BY <1>1, <1>3, Removed
  <1>4. rest \in Seq(Ids) /\ Len(rest) = Len(remote) - 1
    BY <1>a DEF IsRemoval
  <1>5. /\ ToSet(remote) \ {remote[k]} \subseteq ToSet(rest)
        /\ remote[k] \notin ToSet(rest) /\ IsInjective(rest)
    BY <1>1, <1>3, RemovedKeeps
  <1> HIDE DEF rest
  <1>6. j \in 1 .. Len(rest) + 1
    BY <1>3, <1>4
  <1>b. IsInsertion(remote', rest, j, remote[k], Ids)
    BY <1>2, <1>3, <1>4, <1>6, Inserted
  <1>7. remote' \in Seq(Ids)
    BY <1>b DEF IsInsertion
  <1>8. ToSet(rest) \subseteq ToSet(remote') /\ remote[k] \in ToSet(remote')
    BY <1>2, <1>3, <1>4, <1>6, InsertedKeeps
  <1>9. IsInjective(remote')
    BY <1>2, <1>3, <1>4, <1>5, <1>6, InsertedInjective
  <1>10. /\ ReadIsBounded' /\ TasksOK' /\ AnswerFollowsPolicy' /\ AnsweredLater'
         /\ stage' \in Stages /\ (stage' # "answered" => answer' = NoTask)
    BY ReadUntouched DEF MoveTask
  <1>11. NextActionTypeOK'
    BY <1>5, <1>7, <1>8, <1>10, ChangeType, DisturbanceType
       DEF MoveTask, NextActionInv, NextActionTypeOK
  <1>12. FewPassedBy' /\ EachDisturbanceHidesOne'
    <2> DEFINE x == IF k > offset THEN remote[k] ELSE remote[offset + 1]
    <2>1. offset \in Nat
      BY DEF NextActionInv, NextActionTypeOK
    <2>2. ASSUME NEW id, Behind(id, remote, offset), ~Behind(id, remote', offset)
          PROVE  id = x
      <3>1. ~Behind(id, rest, offset)
        BY <1>2, <1>3, <1>4, <1>6, <2>1, <2>2, InsertedHidesNone
      <3>2. CASE id = remote[k]
        <4>1. PICK i \in DOMAIN remote : i > offset /\ remote[i] = id
          BY <2>2 DEF Behind
        <4>2. i = k
          BY <1>1, <3>2, <4>1 DEF IsInjective
        <4> QED
          BY <3>2, <4>1, <4>2
      <3>3. CASE id # remote[k]
        <4>1. k <= offset /\ id = remote[offset + 1]
          BY <1>1, <1>3, <2>1, <2>2, <3>1, <3>3, RemovedHidesOne DEF rest
        <4> QED
          BY <1>3, <2>1, <4>1
      <3> QED
        BY <3>2, <3>3
    <2> HIDE DEF x
    <2> QED
      BY <2>2, HidesOne DEF MoveTask
  <1> QED
    BY <1>9, <1>10, <1>11, <1>12 DEF NextActionInv

THEOREM NextActionNextInv ==
    NextActionInv /\ [NextActionNext]_nvars => NextActionInv'
  <1> SUFFICES ASSUME NextActionInv, [NextActionNext]_nvars
               PROVE  NextActionInv'
    OBVIOUS
  <1>1. CASE BeginRead
    BY <1>1, BeginReadInv
  <1>2. CASE ReadPage
    BY <1>2, ReadPageInv
  <1>3. CASE ReadLastPage
    BY <1>3, ReadLastPageInv
  <1>4. CASE ReadFails
    BY <1>4, ReadFailsInv
  <1>5. CASE \E id \in Ids : AddTask(id)
    BY <1>5, AddTaskInv
  <1>6. CASE \E i \in DOMAIN remote : RemoveTask(i) \/ MoveTask(i)
    BY <1>6, RemoveTaskInv, MoveTaskInv
  <1>7. CASE UNCHANGED nvars
    BY <1>7 DEF nvars, NextActionInv, NextActionTypeOK, ReadIsBounded, TasksOK,
                FewPassedBy, PassedBy, Behind, IdsOf, EachDisturbanceHidesOne, Read,
                AnswerFollowsPolicy, AnsweredLater
  <1> QED
    BY <1>1, <1>2, <1>3, <1>4, <1>5, <1>6, <1>7 DEF NextActionNext

THEOREM NextActionInvariance == NextActionSpec => []NextActionInv
  BY NextActionInitInv, NextActionNextInv, PTL DEF NextActionSpec

-----------------------------------------------------------------------------
\* Consequences.

\* The handler keeps its state typed, and a read that fails is never answered
\* from the pages it got.
THEOREM NextActionTyped == NextActionSpec => []NextActionTypeOK
  BY NextActionInvariance, PTL DEF NextActionInv

\* list_active_tasks misses, of the tasks that stayed active, at most one for
\* each that was removed or moved meanwhile, for any page size and wherever
\* others appear; none when nothing was.
THEOREM PaginationIsComplete == NextActionSpec => []EachDisturbanceHidesOne
  BY NextActionInvariance, PTL DEF NextActionInv

\* Its loop ends: the offset never passes the number of tasks there are.
THEOREM PaginationIsBounded == NextActionSpec => []ReadIsBounded
  BY NextActionInvariance, PTL DEF NextActionInv

\* /next answers as the documented policy says of what was read.
THEOREM AnswersFollowPolicy == NextActionSpec => []AnswerFollowsPolicy
  BY NextActionInvariance, PTL DEF NextActionInv

\* The ranking of two tasks does not change by itself: when the first neither
\* starts nor becomes overdue, and ranks before the second at the end, it did so
\* at the beginning.
LEMMA RankIsSettled ==
    ASSUME NEW a \in Task, NEW b \in Task, NEW from \in Nat, NEW to \in Nat,
           from <= to, ~ComesDue(a, from, to), RanksBefore(a, b, to)
    PROVE  RanksBefore(a, b, from)
  <1>1. Overdue(a, from) = Overdue(a, to)
    BY TaskFields DEF ComesDue, Overdue
  <1>2. Overdue(b, from) => Overdue(b, to)
    BY TaskFields DEF Overdue
  <1>3. CASE Overdue(a, from) # Overdue(b, from)
    <2>1. Overdue(a, from)
      BY <1>1, <1>2, <1>3 DEF RanksBefore, Overdue
    <2> QED
      BY <1>3, <2>1 DEF RanksBefore, Overdue
  <1>4. CASE Overdue(a, from) = Overdue(b, from)
    <2>1. Overdue(b, from) = Overdue(b, to)
      BY <1>1, <1>2, <1>4 DEF RanksBefore, Overdue
    <2>2. /\ NearerDeadline(a, b, from) <=> NearerDeadline(a, b, to)
          /\ NearerDeadline(b, a, from) <=> NearerDeadline(b, a, to)
      BY <1>1, <1>4, <2>1, TaskFields DEF NearerDeadline, Distance, Overdue
    <2> QED
      BY <1>1, <1>4, <2>1, <2>2 DEF RanksBefore, Overdue
  <1> QED
    BY <1>3, <1>4

\* By the clock at which /next answers, only a task that started or became
\* overdue since the handler read the time may rank before the answer.
THEOREM AnswersAreTimely == NextActionSpec => []AnswerIsTimely
  <1>1. NextActionInv => AnswerIsTimely
    <2> SUFFICES ASSUME NextActionInv, stage = "answered"
                 PROVE  /\ answer # NoTask =>
                              answer \in ToSet(tasks) /\ Startable(answer, answeredAt)
                        /\ \A t \in ToSet(tasks) :
                              /\ Startable(t, answeredAt)
                              /\ ~ComesDue(t, now, answeredAt)
                              => /\ answer # NoTask
                                 /\ ~RanksBefore(t, answer, answeredAt)
      BY DEF AnswerIsTimely
    <2> DEFINE started == {t \in ToSet(tasks) : Startable(t, now)}
    <2>1. now \in Nat /\ answeredAt \in Nat /\ now <= answeredAt
      BY DatesAssumption DEF NextActionInv, NextActionTypeOK, AnsweredLater
    <2>2. started \subseteq Task /\ ToSet(tasks) \subseteq Task
      BY LenProperties DEF ToSet, NextActionInv, NextActionTypeOK
    <2>3. /\ started = {} => answer = NoTask
          /\ started # {} => /\ answer \in started
                             /\ \A t \in started : ~RanksBefore(t, answer, now)
      BY DEF NextActionInv, AnswerFollowsPolicy
    <2>4. ASSUME answer # NoTask
          PROVE  answer \in ToSet(tasks) /\ Startable(answer, answeredAt)
      <3>1. answer \in Task /\ answer \in started
        BY <2>2, <2>3, <2>4
      <3> QED
        BY <2>1, <3>1, TaskFields DEF Startable
    <2>5. ASSUME NEW t \in ToSet(tasks), Startable(t, answeredAt),
                 ~ComesDue(t, now, answeredAt)
          PROVE  answer # NoTask /\ ~RanksBefore(t, answer, answeredAt)
      <3>1. t \in Task
        BY <2>2
      <3>2. t \in started
        BY <2>1, <2>5, <3>1, TaskFields DEF Startable, ComesDue
      <3>3. answer \in Task /\ ~RanksBefore(t, answer, now)
        BY <2>2, <2>3, <3>2
      <3> QED
        BY <2>1, <2>5, <3>1, <3>3, RankIsSettled, NoTaskAssumption
    <2> QED
      BY <2>4, <2>5
  <1> QED
    BY <1>1, NextActionInvariance, PTL

\* And no task that stayed active and in place ranks before the answer.
THEOREM AnswersAreBest == NextActionSpec => []NothingBetterWasActive
  <1>1. NextActionInv => NothingBetterWasActive
    <2> SUFFICES ASSUME NextActionInv, stage = "answered", disturbed = 0,
                        NEW id \in throughout,
                        Startable(MapTask(Response(id)), now)
                 PROVE  /\ answer # NoTask
                        /\ ~RanksBefore(MapTask(Response(id)), answer, now)
      BY DEF NothingBetterWasActive
    <2>0. throughout \ Read = {}
      <3>1. throughout \ Read \subseteq Ids
        BY PassedByAreTasks
      <3>2. Cardinality(throughout \ Read) \in Nat /\ IsFiniteSet(throughout \ Read)
        BY <3>1, NextActionAssumption, FS_Subset, FS_CardinalityType
      <3>3. Cardinality(throughout \ Read) = 0
        BY <3>2 DEF NextActionInv, EachDisturbanceHidesOne
      <3> QED
        BY <3>2, <3>3, FS_EmptySet
    <2>1. PICK i \in DOMAIN tasks : tasks[i].id = id
      BY <2>0 DEF Read
    <2>2. tasks[i] = MapTask(Response(id))
      BY <2>1 DEF NextActionInv, TasksOK, Mapped, Response
    <2> DEFINE started == {t \in ToSet(tasks) : Startable(t, now)}
    <2>3. tasks[i] \in started
      BY <2>2 DEF ToSet
    <2>4. answer \in started /\ \A t \in started : ~RanksBefore(t, answer, now)
      BY <2>3 DEF NextActionInv, AnswerFollowsPolicy
    <2>5. started \subseteq Task
      BY LenProperties DEF ToSet, NextActionInv, NextActionTypeOK
    <2> QED
      BY <2>2, <2>3, <2>4, <2>5, NoTaskAssumption
  <1> QED
    BY <1>1, NextActionInvariance, PTL
=============================================================================
