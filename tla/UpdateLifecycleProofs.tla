----------------------- MODULE UpdateLifecycleProofs -----------------------
(***************************************************************************)
(* What no step of the workers may do, how a process winds down, that      *)
(* markers stay fresh, that every attempt but the first is owed to a       *)
(* fault, and that every step is one of UpdateLifecycle or a stutter, for  *)
(* any number of updates, processes, loops and faults.                     *)
(***************************************************************************)
EXTENDS UpdateWorkerProofs, FiniteSetTheorems

(* The steps of the inbox.                                                 *)

\* A row stays, ages, or moves forward or back to the queue.
RowSteps(u) ==
    \/ inbox'[u] = inbox[u]
    \/ /\ inbox'[u].kind = inbox[u].kind
       /\ \/ inbox[u].status = "absent" /\ inbox'[u].status = "pending"
          \/ /\ inbox[u].status = "pending"
             /\ inbox'[u].status \in {"pending", "processing"}
          \/ /\ inbox[u].status = "processing"
             /\ inbox'[u].status
                   \in {"processing", "pending"} \cup TerminalStatuses

\* A loop writes the row it claims, or the row of the attempt it holds while
\* that attempt is current.
LEMMA LoopWrites ==
    ASSUME NEW l \in Loops, LoopStep(l)
    PROVE  \/ UNCHANGED inbox
           \/ /\ pc[l] = "claiming"
              /\ \E u \in Updates : ClaimPendingUpdate(u)
           \/ pc[l] = "marking" /\ MarkExternalMutationStarted(claim[l])
           \/ pc[l] = "persisting" /\ Transition(l)
  BY DEF LoopStep, BeginClaim, ClaimUpdate, ClaimNothing, ClaimFails,
         ReturnClaim, Dispatch, MarkStarted, MarkRefused, MarkFails,
         SendRequest, CallNotSent, CallBreaks, Confirm, Reject, LoseTrack,
         ReadTasks, ReadUnavailable, Persist, PersistUnacknowledged,
         PersistRefused, Reply, LoopExits, Moves, Goto, Conclude, Local

\* Nothing else writes rows but the webhook, the clocks and recovery.
LEMMA InboxWriters ==
    ASSUME [Next]_vars
    PROVE  \/ UNCHANGED inbox
           \/ RecoverAbandonedUpdates
           \/ \E u \in Updates : \/ InsertUpdate(u) \/ ClaimPendingUpdate(u)
                                \/ BecomeDue(u) \/ ClaimExpires(u)
           \/ \E l \in Loops :
                 \/ pc[l] = "marking" /\ MarkExternalMutationStarted(claim[l])
                 \/ pc[l] = "persisting" /\ Transition(l)
  <1>1. ASSUME NEW p \in Processes, RecoveryStep(p) \/ ProcessStep(p)
        PROVE  UNCHANGED inbox \/ RecoverAbandonedUpdates
    BY <1>1 DEF RecoveryStep, BeginRecovery, Recover, RecoverFails,
                RecoveryExits, ProcessStep, StartWorker, StartFails, StopWorker,
                GraceExpires, ExitWorker, Crash
  <1>2. ASSUME NEW u \in Updates, UpdateStep(u)
        PROVE  InsertUpdate(u) \/ BecomeDue(u) \/ ClaimExpires(u)
    BY <1>2 DEF UpdateStep, Accept, RetryTimePasses, AbandonedClaimExpires,
                LiveClaimExpires
  <1>3. ASSUME NEW request \in sent, CreateTask(request) \/ RefuseTask(request)
        PROVE  UNCHANGED inbox
    BY <1>3 DEF CreateTask, RefuseTask
  <1> QED
    BY <1>1, <1>2, <1>3, LoopWrites DEF Next, vars

\* The row that a transition touches is the current one of the claim.
LEMMA FencedWrite ==
    ASSUME Core, NEW l \in Loops, pc[l] \in {"marking", "persisting"},
           MarkExternalMutationStarted(claim[l])
              \/ (pc[l] = "persisting" /\ Transition(l))
    PROVE  /\ IsCurrent(claim[l])
           /\ \A u \in Updates : RowSteps(u)
           /\ \A u \in Updates \ {claim[l].update} : inbox'[u] = inbox[u]
  <1>1. claim[l] \in Claim /\ InboxTypeOK
    BY HeldClaim DEF Core, TypeOK, Holding, Locations
  <1>2. CASE MarkExternalMutationStarted(claim[l])
    BY <1>1, <1>2, MarkedRow DEF RowSteps, OtherRowsUnchanged, IsCurrent
  <1>3. CASE pc[l] = "persisting" /\ Transition(l)
    <2>1. result[l] # "reschedule" => StatusOf(result[l]) \in TerminalStatuses
      BY <1>3 DEF Core, TypeOK, Workers, LoopsOK, Results, StatusOf,
                  TerminalStatuses
    <2> QED
      BY <1>1, <1>3, <2>1, RescheduledRow, ClosedRow
         DEF Transition, RowSteps, OtherRowsUnchanged, IsCurrent
  <1> QED
    BY <1>2, <1>3

LEMMA InboxSteps ==
    ASSUME Core, [Next]_vars
    PROVE  \A u \in Updates : RowSteps(u)
  <1> USE DEF RowSteps
  <1>0. InboxTypeOK
    BY DEF Core, TypeOK
  <1>1. CASE RecoverAbandonedUpdates
    BY <1>0, <1>1, RecoveredRows DEF TerminalStatuses
  <1>2. ASSUME NEW u \in Updates, InsertUpdate(u) \/ ClaimPendingUpdate(u)
        PROVE  \A v \in Updates : RowSteps(v)
    BY <1>0, <1>2, InsertedRow, ClaimedRow DEF OtherRowsUnchanged
  <1>3. ASSUME NEW u \in Updates, BecomeDue(u) \/ ClaimExpires(u)
        PROVE  \A v \in Updates : RowSteps(v)
    <2>1. BecomeDue(u) => inbox[u].status = "pending"
      BY DEF BecomeDue
    <2>2. ClaimExpires(u) => inbox[u].status = "processing"
      BY DEF ClaimExpires
    <2> QED
      BY <1>0, <1>3, <2>1, <2>2, AgedRow DEF OtherRowsUnchanged
  <1> QED
    BY <1>1, <1>2, <1>3, InboxWriters, FencedWrite

-----------------------------------------------------------------------------
(* What no step may do.                                                    *)

\* Whatever a worker, a recovery pass or a clock does, a terminal row stays.
THEOREM TerminalStays == Spec => TerminalIsFinal
  <1>1. IInv /\ [Next]_vars =>
          [\A u \in Updates :
              inbox[u].status \in TerminalStatuses => inbox'[u] = inbox[u]]_vars
    BY InboxSteps DEF IInv, RowSteps, TerminalStatuses
  <1> QED
    BY <1>1, Invariance, PTL DEF Spec, TerminalIsFinal

\* Only a step of the loop itself, or of its process, moves a loop; a process
\* moves its loops without touching the row of a claim.
LEMMA WhoMovesALoop ==
    ASSUME IInv, [Next]_vars, NEW l \in Loops, pc'[l] # pc[l],
           claim[l] # NoClaim
    PROVE  LoopStep(l) \/ UNCHANGED inbox
  <1>1. CASE UNCHANGED vars
    BY <1>1 DEF vars, loopVars
  <1>2. ASSUME NEW m \in Loops, LoopStep(m) PROVE m = l
    BY <1>2
       DEF LoopStep, BeginClaim, ClaimUpdate, ClaimNothing, ClaimFails,
           ReturnClaim, Dispatch, MarkStarted, MarkRefused, MarkFails,
           SendRequest, CallNotSent, CallBreaks, Confirm, Reject, LoseTrack,
           ReadTasks, ReadUnavailable, Persist, PersistUnacknowledged,
           PersistRefused, Reply, LoopExits, AfterPersisting, Moves, Goto,
           Conclude, LetGo, loopVars, IInv, Core, TypeOK
  <1>3. ASSUME NEW p \in Processes, RecoveryStep(p) PROVE FALSE
    BY <1>3 DEF RecoveryStep, BeginRecovery, Recover, RecoverFails,
                RecoveryExits, loopVars
  <1>4. ASSUME NEW p \in Processes, ProcessStep(p) PROVE UNCHANGED inbox
    <2>1. CASE StartWorker(p)
      <3>1. pc[l] = "stopped"
        BY <2>1 DEF StartWorker, IInv, DownMeansStopped
      <3> QED
        BY <3>1 DEF IInv, Core, Workers, LoopsOK, Holding
    <2>2. CASE StartFails(p)
      BY <2>2 DEF StartFails, loopVars
    <2> QED
      BY <1>4, <2>1, <2>2
         DEF ProcessStep, StopWorker, GraceExpires, ExitWorker, Crash
  <1>5. ASSUME NEW u \in Updates, UpdateStep(u) PROVE FALSE
    BY <1>5 DEF UpdateStep, Accept, RetryTimePasses, AbandonedClaimExpires,
                LiveClaimExpires, loopVars
  <1>6. ASSUME NEW request \in sent, CreateTask(request) \/ RefuseTask(request)
        PROVE  FALSE
    BY <1>6 DEF CreateTask, RefuseTask, loopVars
  <1> QED
    BY <1>1, <1>2, <1>3, <1>4, <1>5, <1>6 DEF Next

\* The fence of the attempt number holds against every loop that was
\* overtaken by recovery and by a later claim.
THEOREM AttemptsAreFenced == Spec => OldAttemptsAreFenced
  <1>1. ASSUME IInv, [Next]_vars, NEW l \in Loops, pc'[l] # pc[l],
               claim[l] # NoClaim,
               claim[l].attempt # inbox[claim[l].update].attempt
        PROVE  inbox'[claim[l].update] = inbox[claim[l].update]
    <2>1. pc[l] # "claiming"
      BY <1>1 DEF IInv, Core, Workers, LoopsOK, Holding
    <2>2. ~IsCurrent(claim[l])
      BY <1>1 DEF IsCurrent
    <2> QED
      BY <1>1, <2>1, <2>2, WhoMovesALoop, LoopWrites, FencedWrite DEF IInv
  <1>2. IInv /\ [Next]_vars =>
          [\A l \in Loops :
              /\ pc'[l] # pc[l]
              /\ claim[l] # NoClaim
              /\ claim[l].attempt # inbox[claim[l].update].attempt
              => inbox'[claim[l].update] = inbox[claim[l].update]]_vars
    BY <1>1
  <1> QED
    BY <1>2, Invariance, PTL DEF Spec, OldAttemptsAreFenced

-----------------------------------------------------------------------------
(* The workers and the table they share.                                   *)

\* A transition is asked for with a claim that was handed out.
LEMMA FencedWriteOperates ==
    ASSUME Core, InboxInv, NEW l \in Loops,
           \/ pc[l] = "marking" /\ MarkExternalMutationStarted(claim[l])
           \/ pc[l] = "persisting" /\ Transition(l)
    PROVE  InboxOperation
  <1> DEFINE u == claim[l].update
             n == claim[l].attempt
             c == [update |-> u, attempt |-> n]
  <1>1. claim[l] \in Claim /\ IsCurrent(claim[l])
    BY HeldClaim, FencedWrite DEF Holding, Locations
  <1>2. u \in Updates /\ claim[l] = c
    BY <1>1 DEF Claim
  <1>3. n \in 1 .. inbox[u].attempt
    BY <1>1, <1>2 DEF IsCurrent, InboxInv, InboxTypeOK, Row
  <1>4. \/ MarkExternalMutationStarted(c) \/ Reschedule(c)
        \/ \E status \in TerminalStatuses : MarkTerminal(c, status)
    <2>1. pc[l] = "persisting" /\ result[l] # "reschedule"
             => StatusOf(result[l]) \in TerminalStatuses
      BY DEF Core, TypeOK, Workers, LoopsOK, Results, StatusOf, TerminalStatuses
    <2> HIDE DEF c
    <2> QED
      BY <1>2, <2>1 DEF Transition
  <1> HIDE DEF u, n
  <1> QED
    BY <1>2, <1>3, <1>4 DEF InboxOperation

LEMMA RecoveryOperates == RecoverAbandonedUpdates => RecoverSome
  <1> SUFFICES ASSUME RecoverAbandonedUpdates
               PROVE  inbox' = [u \in Updates |-> IF u \in Updates
                                                  THEN Recovered(inbox[u])
                                                  ELSE inbox[u]]
    BY DEF RecoverSome
  <1> QED
    BY DEF RecoverAbandonedUpdates

LEMMA StepsOperate ==
    ASSUME Core, InboxInv, [Next]_vars
    PROVE  [InboxOperation]_inbox
  <1>1. CASE \E u \in Updates : \/ InsertUpdate(u) \/ ClaimPendingUpdate(u)
                               \/ BecomeDue(u) \/ ClaimExpires(u)
    BY <1>1 DEF InboxOperation
  <1>2. CASE RecoverAbandonedUpdates
    BY <1>2, RecoveryOperates DEF InboxOperation
  <1> QED
    BY <1>1, <1>2, InboxWriters, FencedWriteOperates

\* The workers are written with the operations of the table, so that what holds
\* of every order of operations holds of them.
LEMMA WorkersOperate == Spec => InboxSpec
  <1>1. Init => InboxInit
    BY DEF Init
  <1>2. IInv /\ InboxInv /\ [Next]_vars => [InboxOperation]_inbox
    BY StepsOperate DEF IInv
  <1>3. IInv /\ InboxInv /\ [Next]_vars => InboxInv'
    BY <1>2, InboxInvStays
  <1> QED
    BY <1>1, <1>2, <1>3, InboxInvStarts, Invariance, PTL DEF Spec, InboxSpec

\* The fence of an attempt number, once lost, is lost to its worker for good;
THEOREM WorkersLossesAreFinal == Spec => LostStaysLost
  BY WorkersOperate, LossesAreFinal

\* and a marker goes only when the next attempt begins.
THEOREM WorkersMarkersStay == Spec => MarkersOutlast
  BY WorkersOperate, MarkersStay

\* How far each place is from the end.
LEMMA StepsLeftOf ==
    ASSUME NEW outcome
    PROVE  /\ StepsLeft("stopped", outcome) = 0
           /\ StepsLeft("polling", outcome) = 1
           /\ StepsLeft("persisting", outcome) =
                 IF outcome = "reschedule" THEN 2 ELSE 6
           /\ StepsLeft("claimed", outcome) = 3
           /\ StepsLeft("claiming", outcome) = 4
           /\ StepsLeft("replying", outcome) = 5
           /\ StepsLeft("awaiting", outcome) = 7
           /\ StepsLeft("reading", outcome) = 7
           /\ StepsLeft("calling", outcome) = 8
           /\ StepsLeft("marking", outcome) = 9
  BY DEF StepsLeft

\* Whatever a loop of a stopping process does brings it nearer its end.
LEMMA LoopWindsDown ==
    ASSUME Core, NEW l \in Loops, LoopStep(l), Stopping(l), pc'[l] # pc[l]
    PROVE  StepsLeft(pc'[l], result'[l]) < StepsLeft(pc[l], result[l])
  <1> DEFINE from == pc[l]
             to == pc'[l]
  <1>0. ~Running(l)
    BY DEF Stopping, Running
  <1>1. pc \in [Loops -> Locations] /\ result \in [Loops -> Results]
    BY DEF Core, TypeOK
  <1>2. CASE BeginClaim(l) \/ Dispatch(l)
    BY <1>0, <1>2 DEF BeginClaim, Dispatch
  <1>3. CASE ClaimNothing(l) \/ ClaimFails(l)
    <2>1. from = "claiming" /\ to = "polling"
      BY <1>1, <1>3 DEF ClaimNothing, ClaimFails, Goto, Moves
    <2> QED
      BY <2>1, StepsLeftOf
  <1>4. CASE \E u \in Updates : ClaimUpdate(l, u)
    <2>1. from = "claiming" /\ to = "claimed"
      BY <1>1, <1>4 DEF ClaimUpdate, Moves
    <2> QED
      BY <2>1, StepsLeftOf
  <1>5. CASE ReturnClaim(l)
    <2>1. from = "claimed" /\ to = "persisting" /\ result'[l] = "reschedule"
      BY <1>1, <1>5 DEF ReturnClaim, Conclude, Moves
    <2> QED
      BY <2>1, StepsLeftOf
  <1>6. CASE MarkStarted(l)
    <2>1. from = "marking" /\ to = "calling"
      BY <1>1, <1>6 DEF MarkStarted, Goto, Moves
    <2> QED
      BY <2>1, StepsLeftOf
  <1>7. CASE SendRequest(l)
    <2>1. from = "calling" /\ to = "awaiting"
      BY <1>1, <1>7 DEF SendRequest, Goto, Moves
    <2> QED
      BY <2>1, StepsLeftOf
  <1>8. CASE \/ MarkRefused(l) \/ MarkFails(l) \/ CallNotSent(l) \/ CallBreaks(l)
             \/ Confirm(l) \/ Reject(l) \/ LoseTrack(l)
             \/ ReadTasks(l) \/ ReadUnavailable(l)
    <2>1. from \in {"marking", "calling", "awaiting", "reading"} /\ to = "persisting"
      BY <1>1, <1>8 DEF MarkRefused, MarkFails, CallNotSent, CallBreaks, Confirm,
                        Reject, LoseTrack, ReadTasks, ReadUnavailable, Conclude,
                        Moves
    <2> QED
      BY <2>1, StepsLeftOf
  <1>9. CASE Persist(l) \/ PersistRefused(l)
    <2>1. /\ from = "persisting"
          /\ \/ to = "polling"
             \/ to = "replying" /\ result[l] = "answered"
      BY <1>1, <1>9 DEF Persist, PersistRefused, AfterPersisting, Goto, Moves,
                        LetGo
    <2> QED
      BY <2>1, StepsLeftOf
  <1>10. CASE PersistUnacknowledged(l)
    BY <1>10 DEF PersistUnacknowledged, loopVars
  <1>11. CASE Reply(l)
    <2>1. from = "replying" /\ to = "polling"
      BY <1>1, <1>11 DEF Reply, LetGo
    <2> QED
      BY <2>1, StepsLeftOf
  <1>12. CASE LoopExits(l)
    <2>1. from = "polling" /\ to = "stopped"
      BY <1>1, <1>12 DEF LoopExits, Goto, Moves
    <2> QED
      BY <2>1, StepsLeftOf
  <1> QED
    BY <1>2, <1>3, <1>4, <1>5, <1>6, <1>7, <1>8, <1>9, <1>10, <1>11, <1>12
       DEF LoopStep

\* A loop moves itself, or its process ends it.
LEMMA MovedOrEnded ==
    ASSUME Core, [Next]_vars, NEW l \in Loops, Stopping(l), pc'[l] # pc[l]
    PROVE  LoopStep(l) \/ pc'[l] = "stopped"
  <1>1. CASE UNCHANGED vars
    BY <1>1 DEF vars, loopVars
  <1>2. ASSUME NEW m \in Loops, LoopStep(m) PROVE m = l
    BY <1>2
       DEF LoopStep, BeginClaim, ClaimUpdate, ClaimNothing, ClaimFails,
           ReturnClaim, Dispatch, MarkStarted, MarkRefused, MarkFails,
           SendRequest, CallNotSent, CallBreaks, Confirm, Reject, LoseTrack,
           ReadTasks, ReadUnavailable, Persist, PersistUnacknowledged,
           PersistRefused, Reply, LoopExits, AfterPersisting, Moves, Goto,
           Conclude, LetGo, loopVars, Core, TypeOK
  <1>3. ASSUME NEW p \in Processes, RecoveryStep(p) PROVE FALSE
    BY <1>3 DEF RecoveryStep, BeginRecovery, Recover, RecoverFails,
                RecoveryExits, loopVars
  <1>4. ASSUME NEW p \in Processes, ProcessStep(p) PROVE pc'[l] = "stopped"
    <2>1. CASE StartWorker(p)
      BY <2>1 DEF StartWorker, Stopping
    <2>2. CASE GraceExpires(p) \/ Crash(p)
      BY <2>2 DEF GraceExpires, Crash, EndLoops, EndProcessing
    <2>3. CASE StartFails(p) \/ StopWorker(p) \/ ExitWorker(p)
      BY <2>3 DEF StartFails, StopWorker, ExitWorker, loopVars
    <2> QED
      BY <1>4, <2>1, <2>2, <2>3 DEF ProcessStep
  <1>5. ASSUME NEW u \in Updates, UpdateStep(u) PROVE FALSE
    BY <1>5 DEF UpdateStep, Accept, RetryTimePasses, AbandonedClaimExpires,
                LiveClaimExpires, loopVars
  <1>6. ASSUME NEW request \in sent, CreateTask(request) \/ RefuseTask(request)
        PROVE  FALSE
    BY <1>6 DEF CreateTask, RefuseTask, loopVars
  <1> QED
    BY <1>1, <1>2, <1>3, <1>4, <1>5, <1>6 DEF Next

\* In a process that stops no handler is started and no claim begun; a loop
\* changes its place at most nine more times, however many others interleave.
THEOREM StopsWindDown == Spec => StoppingWindsDown
  <1>1. ASSUME IInv, [Next]_vars, NEW l \in Loops, Stopping(l), pc'[l] # pc[l]
        PROVE  StepsLeft(pc'[l], result'[l]) < StepsLeft(pc[l], result[l])
    <2>1. CASE LoopStep(l)
      BY <1>1, <2>1, LoopWindsDown DEF IInv
    <2>2. CASE pc'[l] = "stopped"
      <3>1. pc[l] \in Locations
        BY <1>1 DEF IInv, Core, TypeOK
      <3> QED
        BY <1>1, <2>2, <3>1, StepsLeftOf DEF Locations
    <2> QED
      BY <1>1, <2>1, <2>2, MovedOrEnded DEF IInv
  <1>2. IInv /\ [Next]_vars =>
          [\A l \in Loops :
              Stopping(l) /\ pc'[l] # pc[l] =>
                  StepsLeft(pc'[l], result'[l]) < StepsLeft(pc[l], result[l])]_vars
    BY <1>1
  <1> QED
    BY <1>2, Invariance, PTL DEF Spec, StoppingWindsDown

\* Only the loop that holds an unexpired claim ends it, with the outcome it has.
THEOREM ClaimsHoldUntilExpired == Spec => UnexpiredClaimsHold
  <1> DEFINE Kept(l) ==
        \/ inbox'[claim[l].update].status = "processing"
        \/ /\ pc[l] = "persisting"
           /\ inbox'[claim[l].update].status =
                 IF result[l] = "reschedule" THEN "pending"
                                             ELSE StatusOf(result[l])
  <1>1. ASSUME IInv, [Next]_vars, NEW l \in Loops, claim[l] # NoClaim,
               IsCurrent(claim[l]), ~inbox[claim[l].update].expired
        PROVE  Kept(l)
    <2> DEFINE u == claim[l].update
    <2>0. /\ Core /\ InboxTypeOK
          /\ claim[l] \in Claim /\ u \in Updates
          /\ inbox[u].status = "processing"
          /\ inbox[u].attempt = claim[l].attempt
      BY <1>1 DEF IInv, Core, TypeOK, Claim, IsCurrent
    <2>1. CASE UNCHANGED inbox
      BY <2>0, <2>1
    <2>2. CASE RecoverAbandonedUpdates
      <3>1. inbox'[u] = inbox[u]
        BY <1>1, <2>0, <2>2 DEF RecoverAbandonedUpdates, Recovered, Abandoned
      <3> QED
        BY <2>0, <3>1
    <2>3. ASSUME NEW v \in Updates,
                 \/ InsertUpdate(v) \/ ClaimPendingUpdate(v)
                 \/ BecomeDue(v) \/ ClaimExpires(v)
          PROVE  Kept(l)
      BY <2>0, <2>3, InsertedRow, ClaimedRow, AgedRow DEF OtherRowsUnchanged
    <2>4. ASSUME NEW m \in Loops, pc[m] = "marking",
                 MarkExternalMutationStarted(claim[m])
          PROVE  Kept(l)
      <3>1. claim[m] \in Claim
        BY <2>0, <2>4, HeldClaim DEF Holding, Locations
      <3> QED
        BY <2>0, <2>4, <3>1, MarkedRow DEF OtherRowsUnchanged
    <2>5. ASSUME NEW m \in Loops, pc[m] = "persisting", Transition(m)
          PROVE  Kept(l)
      <3>1. claim[m] \in Claim /\ IsCurrent(claim[m])
        BY <2>0, <2>5, HeldClaim, FencedWrite DEF Holding, Locations
      <3>2. CASE claim[m].update # u
        BY <2>0, <2>5, <3>2, FencedWrite
      <3>3. CASE claim[m].update = u
        <4>1. claim[m] = claim[l]
          BY <2>0, <3>1, <3>3 DEF IsCurrent, Claim
        <4>2. m = l
          BY <1>1, <2>0, <4>1 DEF Core, Workers, ExclusiveAttempts
        <4>3. result[l] # "reschedule" => StatusOf(result[l]) \in TerminalStatuses
          BY <2>0, <2>5, <4>2 DEF Core, TypeOK, Workers, LoopsOK, Results,
                                  StatusOf, TerminalStatuses
        <4> QED
          BY <2>0, <2>5, <4>2, <4>3, RescheduledRow, ClosedRow DEF Transition
      <3> QED
        BY <3>2, <3>3
    <2> HIDE DEF Kept, u
    <2> QED
      BY <1>1, <2>1, <2>2, <2>3, <2>4, <2>5, InboxWriters
  <1>2. IInv /\ [Next]_vars =>
          [\A l \in Loops :
              /\ claim[l] # NoClaim
              /\ IsCurrent(claim[l])
              /\ ~inbox[claim[l].update].expired
              => Kept(l)]_vars
    BY <1>1
  <1> QED
    BY <1>2, Invariance, PTL DEF Spec, UnexpiredClaimsHold

-----------------------------------------------------------------------------
(* Markers.                                                                *)

\* The steps of the other actors move no loop into the places before the
\* marker, and give no row a new current attempt or a marker.
LEMMA OthersLeaveMarkers ==
    ASSUME IInv, MarkersAreFresh, NEW l \in Loops,
           pc'[l] = pc[l], claim'[l] = claim[l],
           pc[l] \in {"claimed", "marking"},
           inbox'[claim[l].update].status = "processing"
              => /\ inbox[claim[l].update].status = "processing"
                 /\ inbox'[claim[l].update].attempt
                       = inbox[claim[l].update].attempt
                 /\ inbox'[claim[l].update].marked
                       = inbox[claim[l].update].marked,
           IsCurrent(claim[l])'
    PROVE  CanMark(claim[l])'
  BY DEF MarkersAreFresh, CanMark, IsCurrent

LEMMA LoopsKeepMarkersFresh ==
    ASSUME IInv, MarkersAreFresh, NEW m \in Loops, LoopStep(m),
           NEW l \in Loops, pc'[l] \in {"claimed", "marking"},
           IsCurrent(claim[l])'
    PROVE  CanMark(claim[l])'
  <1>1. CASE \E u \in Updates : ClaimUpdate(m, u)
    <2>1. PICK u \in Updates : ClaimUpdate(m, u)
      BY <1>1
    <2>2. /\ ~inbox'[u].marked
          /\ \A v \in Updates \ {u} : inbox'[v] = inbox[v]
      BY <2>1, ClaimedRow
         DEF ClaimUpdate, OtherRowsUnchanged, IInv, Core, TypeOK
    <2>3. CASE l = m
      <3>1. claim'[l].update = u
        BY <2>1, <2>3 DEF ClaimUpdate, IInv, Core, TypeOK
      <3> QED
        BY <2>2, <3>1 DEF CanMark
    <2>4. CASE l # m
      <3>1. pc'[l] = pc[l] /\ claim'[l] = claim[l]
        BY <2>1, <2>4 DEF ClaimUpdate, Moves, IInv, Core, TypeOK
      <3>2. claim[l].update \in Updates
        BY <3>1, HeldClaim DEF IInv, Holding, Locations
      <3> QED
        BY <2>2, <3>1, <3>2 DEF MarkersAreFresh, CanMark, IsCurrent
    <2> QED
      BY <2>3, <2>4
  <1>2. CASE ~ \E u \in Updates : ClaimUpdate(m, u)
    <2>1. /\ pc[l] \in {"claimed", "marking"}
          /\ claim'[l] = claim[l]
          /\ l = m => UNCHANGED inbox
      BY <1>2
         DEF LoopStep, BeginClaim, ClaimNothing, ClaimFails, ReturnClaim,
             Dispatch, MarkStarted, MarkRefused, MarkFails, SendRequest,
             CallNotSent, CallBreaks, Confirm, Reject, LoseTrack, ReadTasks,
             ReadUnavailable, Persist, PersistUnacknowledged, PersistRefused,
             Reply, LoopExits, AfterPersisting, Moves, Goto, Conclude, LetGo,
             Local, loopVars, IInv, Core, TypeOK
    <2>2. claim[l] \in Claim /\ claim[l].update \in Updates
      BY <2>1, HeldClaim DEF IInv, Holding, Locations
    <2>3. CASE UNCHANGED inbox
      BY <2>1, <2>3 DEF MarkersAreFresh, CanMark, IsCurrent
    <2>4. CASE pc[m] = "claiming" /\ \E u \in Updates : ClaimPendingUpdate(u)
      <3>1. PICK u \in Updates : ClaimPendingUpdate(u)
        BY <2>4
      <3>2. ~inbox'[u].marked /\ \A v \in Updates \ {u} : inbox'[v] = inbox[v]
        BY <3>1, ClaimedRow DEF OtherRowsUnchanged, IInv, Core, TypeOK
      <3> QED
        BY <2>1, <2>2, <3>2 DEF MarkersAreFresh, CanMark, IsCurrent
    <2>5. CASE pc[m] = "marking" /\ MarkExternalMutationStarted(claim[m])
      <3>1. IsCurrent(claim[m]) /\ claim[m] \in Claim
        BY <2>5, FencedWrite, HeldClaim DEF IInv, Holding, Locations
      <3>2. inbox'[claim[m].update].attempt = claim[m].attempt
        BY <2>5, <3>1, MarkedRow DEF IInv, Core, TypeOK
      <3>3. CASE l = m
        BY <2>1, <2>3, <3>3
      <3>4. CASE l # m
        <4>1. claim[m].update # claim[l].update
          BY <2>1, <2>2, <3>1, <3>2, <3>4, NoClaimAssumption
             DEF IsCurrent, IInv, Core, Workers, ExclusiveAttempts, Claim
        <4>2. inbox'[claim[l].update] = inbox[claim[l].update]
          BY <2>2, <2>5, <4>1, FencedWrite DEF IInv
        <4> QED
          BY <2>1, <4>2 DEF MarkersAreFresh, CanMark, IsCurrent
      <3> QED
        BY <3>3, <3>4
    <2>6. CASE pc[m] = "persisting" /\ Transition(m)
      <3>1. IsCurrent(claim[m]) /\ claim[m] \in Claim
        BY <2>6, FencedWrite, HeldClaim DEF IInv, Holding, Locations
      <3>2. inbox'[claim[m].update].status # "processing"
        <4>1. result[m] # "reschedule" => StatusOf(result[m]) \in TerminalStatuses
          BY <2>6 DEF IInv, Core, TypeOK, Workers, LoopsOK, Results, StatusOf,
                      TerminalStatuses
        <4> QED
          BY <2>6, <3>1, <4>1, RescheduledRow, ClosedRow
             DEF Transition, TerminalStatuses, IInv, Core, TypeOK
      <3>3. claim[m].update # claim[l].update
        BY <2>1, <3>2 DEF IsCurrent
      <3>4. inbox'[claim[l].update] = inbox[claim[l].update]
        BY <2>2, <2>6, <3>3, FencedWrite DEF IInv
      <3> QED
        BY <2>1, <3>4 DEF MarkersAreFresh, CanMark, IsCurrent
    <2> QED
      BY <2>3, <2>4, <2>5, <2>6, LoopWrites
  <1> QED
    BY <1>1, <1>2

\* No attempt finds the marker of another one in a row it owns, so an update
\* that was given back can be captured later.
THEOREM MarkersStayFresh == Spec => []MarkersAreFresh
  <1>1. Init => MarkersAreFresh
    BY DEF Init, MarkersAreFresh
  <1>2. ASSUME IInv, MarkersAreFresh, [Next]_vars PROVE MarkersAreFresh'
    <2> SUFFICES ASSUME NEW l \in Loops, pc'[l] \in {"claimed", "marking"},
                        IsCurrent(claim[l])'
                 PROVE  CanMark(claim[l])'
      BY DEF MarkersAreFresh
    <2>1. ASSUME NEW m \in Loops, LoopStep(m) PROVE CanMark(claim[l])'
      BY <2>1, <1>2, LoopsKeepMarkersFresh
    <2>2. ASSUME pc'[l] = pc[l], claim'[l] = claim[l],
                 UNCHANGED inbox \/ RecoverAbandonedUpdates
                    \/ \E u \in Updates :
                          InsertUpdate(u) \/ BecomeDue(u) \/ ClaimExpires(u)
          PROVE  CanMark(claim[l])'
      <3>1. claim[l].update \in Updates /\ InboxTypeOK
        BY <1>2, <2>2, HeldClaim DEF IInv, Core, TypeOK, Holding, Locations
      <3>2. inbox'[claim[l].update].status = "processing"
              => /\ inbox[claim[l].update].status = "processing"
                 /\ inbox'[claim[l].update].attempt
                       = inbox[claim[l].update].attempt
                 /\ inbox'[claim[l].update].marked
                       = inbox[claim[l].update].marked
        <4>1. CASE UNCHANGED inbox
          BY <4>1
        <4>2. CASE RecoverAbandonedUpdates
          BY <3>1, <4>2, RecoveredRows
        <4>3. CASE \E u \in Updates :
                      InsertUpdate(u) \/ BecomeDue(u) \/ ClaimExpires(u)
          BY <3>1, <4>3, InsertedRow, AgedRow DEF OtherRowsUnchanged
        <4> QED
          BY <2>2, <4>1, <4>2, <4>3
      <3> QED
        BY <1>2, <2>2, <3>2, OthersLeaveMarkers
    <2>3. CASE UNCHANGED vars
      BY <2>2, <2>3 DEF vars, loopVars
    <2>4. ASSUME NEW p \in Processes, RecoveryStep(p) \/ ProcessStep(p)
          PROVE  CanMark(claim[l])'
      <3>1. pc'[l] = pc[l] /\ claim'[l] = claim[l]
        BY <2>4 DEF RecoveryStep, BeginRecovery, Recover, RecoverFails,
                    RecoveryExits, ProcessStep, StartWorker, StartFails,
                    StopWorker, GraceExpires, ExitWorker, Crash, EndLoops,
                    EndProcessing, loopVars
      <3>2. UNCHANGED inbox \/ RecoverAbandonedUpdates
        BY <2>4 DEF RecoveryStep, BeginRecovery, Recover, RecoverFails,
                    RecoveryExits, ProcessStep, StartWorker, StartFails,
                    StopWorker, GraceExpires, ExitWorker, Crash
      <3> QED
        BY <2>2, <3>1, <3>2
    <2>5. ASSUME NEW u \in Updates, UpdateStep(u) PROVE CanMark(claim[l])'
      BY <2>2, <2>5 DEF UpdateStep, Accept, RetryTimePasses,
                        AbandonedClaimExpires, LiveClaimExpires, loopVars
    <2>6. ASSUME NEW request \in sent, CreateTask(request) \/ RefuseTask(request)
          PROVE  CanMark(claim[l])'
      BY <2>2, <2>6 DEF CreateTask, RefuseTask, loopVars
    <2> QED
      BY <1>2, <2>1, <2>3, <2>4, <2>5, <2>6 DEF Next
  <1> QED
    BY <1>1, <1>2, Invariance, PTL DEF Spec

-----------------------------------------------------------------------------
(* Attempts and what they are owed to.                                     *)

LEMMA InvariantKept == IInv /\ [Next]_vars => IInv'
  BY CoreKept, DownMeansStoppedKept DEF IInv, Core

LEMMA LoopsOfProcess ==
    ASSUME NEW p \in Processes
    PROVE  /\ IsFiniteSet(LoopsOf(p))
           /\ Cardinality(LoopsOf(p)) = Cardinality(Slots)
           /\ Cardinality(Slots) \in Nat
  <1>1. LoopsOf(p) = {p} \X Slots
    BY DEF LoopsOf, Loops
  <1>2. IsFiniteSet({p}) /\ Cardinality({p}) = 1
    BY FS_Singleton
  <1>3. Cardinality(Slots) \in Nat
    BY SlotsAssumption, FS_CardinalityType
  <1>4. /\ IsFiniteSet({p} \X Slots)
        /\ Cardinality({p} \X Slots) = Cardinality({p}) * Cardinality(Slots)
    BY <1>2, SlotsAssumption, FS_Product
  <1>5. 1 * Cardinality(Slots) = Cardinality(Slots)
    BY <1>3
  <1> QED
    BY <1>1, <1>2, <1>3, <1>4, <1>5

LEMMA SomeSlots ==
    ASSUME NEW l \in Loops
    PROVE  Cardinality(Slots) \in Nat \ {0}
  <1>1. Slots # {}
    BY DEF Loops
  <1> QED
    BY <1>1, SlotsAssumption, FS_EmptySet, FS_CardinalityType

LEMMA ChargeIsBit == \A u \in Updates : Charge(u) \in {0, 1}
  BY DEF Charge

\* A step is paid for by the faults it adds.
LEMMA StepPaid ==
    ASSUME IInv, IInv', AttemptsCharged, IsFiniteSet(Returning'),
           NEW price \in Nat,
           \/ faults' = faults /\ price = 0
           \/ faults' = faults + 1 /\ price = Cardinality(Slots),
           \A u \in Updates :
              inbox'[u].attempt + Charge(u)' + Cardinality(Returning')
                 <= inbox[u].attempt + Charge(u) + Cardinality(Returning) + price
    PROVE  AttemptsCharged'
  <1> SUFFICES ASSUME NEW u \in Updates
               PROVE  inbox'[u].attempt + Charge(u)' + Cardinality(Returning')
                         <= 1 + Cardinality(Slots) * faults'
    BY DEF AttemptsCharged
  <1>1. /\ inbox[u].attempt \in Nat /\ inbox'[u].attempt \in Nat
        /\ faults \in Nat
    BY DEF IInv, Core, TypeOK, InboxTypeOK, Row
  <1>2. Charge(u) \in Nat /\ Charge(u)' \in Nat
    BY DEF Charge
  <1>3. /\ Cardinality(Returning) \in Nat
        /\ Cardinality(Returning') \in Nat
        /\ Cardinality(Slots) \in Nat
    BY SlotsAssumption, FS_CardinalityType DEF AttemptsCharged
  <1>4. Cardinality(Slots) * faults' = Cardinality(Slots) * faults + price
    <2>1. ASSUME NEW k \in Nat, NEW f \in Nat
          PROVE  k * (f + 1) = k * f + k /\ k * f \in Nat
      BY <2>1
    <2> QED
      BY <1>1, <1>3, <2>1
  <1>5. Cardinality(Slots) * faults \in Nat
    BY <1>1, <1>3
  <1>6. /\ inbox[u].attempt + Charge(u) + Cardinality(Returning)
              <= 1 + Cardinality(Slots) * faults
        /\ inbox'[u].attempt + Charge(u)' + Cardinality(Returning')
              <= inbox[u].attempt + Charge(u) + Cardinality(Returning) + price
    BY DEF AttemptsCharged
  <1> DEFINE k == Cardinality(Slots) * faults
             r == Cardinality(Returning)
             q == Cardinality(Returning')
             a == inbox[u].attempt
             b == inbox'[u].attempt
             c == Charge(u)
             d == Charge(u)'
  <1>7. /\ k \in Nat /\ r \in Nat /\ q \in Nat /\ a \in Nat /\ b \in Nat
        /\ c \in Nat /\ d \in Nat
        /\ a + c + r <= 1 + k
        /\ b + d + q <= a + c + r + price
    BY <1>1, <1>2, <1>3, <1>5, <1>6
  <1> HIDE DEF k, r, q, a, b, c, d
  <1>8. b + d + q <= 1 + (k + price)
    BY <1>7
  <1> QED
    BY <1>4, <1>8 DEF k, q, b, d

\* The same, when no loop comes to claim what it will give back.
LEMMA StepPaidPerUpdate ==
    ASSUME IInv, IInv', AttemptsCharged, Returning' \subseteq Returning,
           NEW price \in Nat,
           \/ faults' = faults /\ price = 0
           \/ faults' = faults + 1 /\ price = Cardinality(Slots),
           \A u \in Updates :
              inbox'[u].attempt + Charge(u)' <= inbox[u].attempt + Charge(u) + price
    PROVE  AttemptsCharged'
  <1>1. /\ IsFiniteSet(Returning) /\ IsFiniteSet(Returning')
        /\ Cardinality(Returning') <= Cardinality(Returning)
        /\ Cardinality(Returning) \in Nat /\ Cardinality(Returning') \in Nat
    BY FS_Subset, FS_CardinalityType DEF AttemptsCharged
  <1>2. ASSUME NEW u \in Updates
        PROVE  inbox'[u].attempt + Charge(u)' + Cardinality(Returning')
                 <= inbox[u].attempt + Charge(u) + Cardinality(Returning) + price
    <2>1. inbox[u].attempt \in Nat /\ inbox'[u].attempt \in Nat
      BY DEF IInv, Core, TypeOK, InboxTypeOK, Row
    <2>2. Charge(u) \in Nat /\ Charge(u)' \in Nat
      BY DEF Charge
    <2>3. inbox'[u].attempt + Charge(u)' <= inbox[u].attempt + Charge(u) + price
      OBVIOUS
    <2> DEFINE r == Cardinality(Returning)
               q == Cardinality(Returning')
               a == inbox[u].attempt
               b == inbox'[u].attempt
               c == Charge(u)
               d == Charge(u)'
    <2> HIDE DEF r, q, a, b, c, d
    <2> QED
      BY <1>1, <2>1, <2>2, <2>3 DEF r, q, a, b, c, d
  <1> QED
    BY <1>1, <1>2, StepPaid

LEMMA TerminalRow ==
    ASSUME IInv, [Next]_vars, NEW u \in Updates,
           inbox[u].status \in TerminalStatuses
    PROVE  inbox'[u].status \in TerminalStatuses
  BY InboxSteps DEF IInv, RowSteps, TerminalStatuses

\* An attempt that was secure remains so, or ends in a terminal row.
LEMMA NothingOwed ==
    ASSUME IInv, IInv', [Next]_vars, NEW u \in Updates,
           inbox'[u].attempt = inbox[u].attempt,
           Secure(u) => Secure(u)' \/ inbox'[u].status \in TerminalStatuses
    PROVE  inbox'[u].attempt + Charge(u)' <= inbox[u].attempt + Charge(u)
  <1>1. inbox[u].attempt \in Nat
    BY DEF IInv, Core, TypeOK, InboxTypeOK, Row
  <1>2. Charge(u)' <= Charge(u) /\ Charge(u) \in Nat /\ Charge(u)' \in Nat
    BY TerminalRow DEF Charge
  <1> QED
    BY <1>1, <1>2

\* One attempt at most is not secure any more, and there is a loop for it.
LEMMA OneOwed ==
    ASSUME IInv, IInv', [Next]_vars, NEW u \in Updates,
           inbox'[u].attempt = inbox[u].attempt
    PROVE  inbox'[u].attempt + Charge(u)'
              <= inbox[u].attempt + Charge(u) + Cardinality(Slots)
  <1>1. inbox[u].attempt \in Nat /\ Cardinality(Slots) \in Nat
    BY SlotsAssumption, FS_CardinalityType
       DEF IInv, Core, TypeOK, InboxTypeOK, Row
  <1>2. Charge(u)' <= Charge(u) \/ Secure(u)
    BY TerminalRow DEF Charge
  <1>3. Secure(u) => Cardinality(Slots) \in Nat \ {0}
    BY SomeSlots DEF Secure
  <1>4. Charge(u) \in {0, 1} /\ Charge(u)' \in {0, 1}
    BY DEF Charge
  <1> QED
    BY <1>1, <1>2, <1>3, <1>4

\* Who holds the row of a secure attempt.
LEMMA SecureHolder ==
    ASSUME IInv, NEW u \in Updates, Secure(u)
    PROVE  \E h \in Loops :
              /\ claim[h] = [update |-> u, attempt |-> inbox[u].attempt]
              /\ claim[h] \in Claim /\ claim[h] # NoClaim
              /\ claim[h].update = u
              /\ pc[h] \in Holding
              /\ IsCurrent(claim[h])
              /\ Running(h)
              /\ ~(pc[h] = "persisting" /\ result[h] = "reschedule")
  <1>1. PICK h \in Loops :
           /\ claim[h] = [update |-> u, attempt |-> inbox[u].attempt]
           /\ Running(h)
           /\ ~(pc[h] = "persisting" /\ result[h] = "reschedule")
    BY DEF Secure
  <1>2. inbox[u].attempt \in Nat
    BY DEF IInv, Core, TypeOK, InboxTypeOK, Row
  <1>3. claim[h] \in Claim /\ claim[h] # NoClaim
    BY <1>1, <1>2, NoClaimAssumption DEF Claim
  <1>4. pc[h] \in Holding
    BY <1>3 DEF IInv, Core, Workers, LoopsOK
  <1> QED
    BY <1>1, <1>3, <1>4 DEF IsCurrent, Secure

LEMMA SecureKept ==
    ASSUME NEW u \in Updates, NEW h \in Loops,
           inbox'[u].status = "processing", ~inbox'[u].expired,
           claim'[h] = [update |-> u, attempt |-> inbox'[u].attempt],
           proc'[h[1]] = "running",
           ~(pc'[h] = "persisting" /\ result'[h] = "reschedule")
    PROVE  Secure(u)'
  BY DEF Secure, Running

\* Steps of a loop that leave the inbox alone and are no fault.
QuietStep(l) ==
    \/ BeginClaim(l) \/ ClaimNothing(l) \/ ReturnClaim(l) \/ Dispatch(l)
    \/ MarkRefused(l) \/ SendRequest(l) \/ CallBreaks(l)
    \/ Confirm(l) \/ Reject(l) \/ LoseTrack(l) \/ ReadTasks(l)
    \/ PersistRefused(l) \/ Reply(l) \/ LoopExits(l)

\* A loop gives up an attempt that is secure only with its result.
LEMMA QuietStepHolds ==
    ASSUME IInv, MarkersAreFresh, NEW l \in Loops, QuietStep(l),
           claim[l] # NoClaim, IsCurrent(claim[l]), Running(l),
           ~(pc[l] = "persisting" /\ result[l] = "reschedule")
    PROVE  /\ claim'[l] = claim[l]
           /\ ~(pc'[l] = "persisting" /\ result'[l] = "reschedule")
  <1> USE DEF Moves, Goto, Conclude, LetGo, IInv, Core, TypeOK
  <1>1. pc[l] \in Holding
    BY DEF Workers, LoopsOK
  <1>2. CASE BeginClaim(l) \/ ClaimNothing(l) \/ LoopExits(l)
    BY <1>1, <1>2 DEF BeginClaim, ClaimNothing, LoopExits, Holding
  <1>3. CASE ReturnClaim(l)
    BY <1>3 DEF ReturnClaim, Running, Stopping
  <1>4. CASE MarkRefused(l)
    BY <1>4 DEF MarkRefused, MarkersAreFresh
  <1>5. CASE PersistRefused(l)
    BY <1>5 DEF PersistRefused
  <1>6. CASE Reply(l)
    BY <1>6 DEF Reply, Workers, KnowledgeOK, IsCurrent
  <1>7. CASE Dispatch(l) \/ SendRequest(l) \/ CallBreaks(l) \/ ReadTasks(l)
    BY <1>7 DEF Dispatch, SendRequest, CallBreaks, ReadTasks
  <1>8. CASE Confirm(l) \/ Reject(l) \/ LoseTrack(l)
    BY <1>8 DEF Confirm, Reject, LoseTrack
  <1> QED
    BY <1>2, <1>3, <1>4, <1>5, <1>6, <1>7, <1>8 DEF QuietStep

LEMMA QuietStepPaid ==
    ASSUME IInv, IInv', MarkersAreFresh, AttemptsCharged, [Next]_vars,
           NEW l \in Loops, QuietStep(l)
    PROVE  AttemptsCharged'
  <1>1. /\ UNCHANGED <<inbox, proc, faults>>
        /\ pc'[l] = "claiming" => Running(l)
        /\ \A m \in Loops \ {l} : /\ pc'[m] = pc[m]
                                   /\ claim'[m] = claim[m]
                                   /\ result'[m] = result[m]
    BY DEF QuietStep, BeginClaim, ClaimNothing, ReturnClaim, Dispatch,
           MarkRefused, SendRequest, CallBreaks, Confirm, Reject, LoseTrack,
           ReadTasks, PersistRefused, Reply, LoopExits, Moves, Goto, Conclude,
           LetGo, Local, Smooth, procVars, IInv, Core, TypeOK
  <1>2. Returning' \subseteq Returning
    BY <1>1 DEF Returning, Stopping, Running
  <1>3. ASSUME NEW u \in Updates, Secure(u) PROVE Secure(u)'
    <2>1. PICK h \in Loops :
             /\ claim[h] = [update |-> u, attempt |-> inbox[u].attempt]
             /\ claim[h] # NoClaim
             /\ IsCurrent(claim[h])
             /\ Running(h)
             /\ ~(pc[h] = "persisting" /\ result[h] = "reschedule")
      BY <1>3, SecureHolder
    <2>2. /\ claim'[h] = claim[h]
          /\ ~(pc'[h] = "persisting" /\ result'[h] = "reschedule")
      BY <1>1, <2>1, QuietStepHolds
    <2> QED
      BY <1>1, <1>3, <2>1, <2>2, SecureKept DEF Secure, Running
  <1>4. \A u \in Updates :
           inbox'[u].attempt + Charge(u)' <= inbox[u].attempt + Charge(u) + 0
    BY <1>1, <1>3, NothingOwed DEF IInv, Core, TypeOK, InboxTypeOK, Row, Charge
  <1> QED
    BY <1>1, <1>2, <1>4, StepPaidPerUpdate

\* A fault that lets no loop begin a claim.
LEMMA FaultPaid ==
    ASSUME IInv, IInv', AttemptsCharged, [Next]_vars,
           faults' = faults + 1, Returning' \subseteq Returning,
           \A u \in Updates : inbox'[u].attempt = inbox[u].attempt
    PROVE  AttemptsCharged'
  <1>1. \A u \in Updates :
           inbox'[u].attempt + Charge(u)'
              <= inbox[u].attempt + Charge(u) + Cardinality(Slots)
    BY OneOwed
  <1>2. Cardinality(Slots) \in Nat
    BY SlotsAssumption, FS_CardinalityType
  <1> QED
    BY <1>1, <1>2, StepPaidPerUpdate

LEMMA ClaimFailsPaid ==
    ASSUME IInv, IInv', AttemptsCharged, [Next]_vars,
           NEW l \in Loops, ClaimFails(l)
    PROVE  AttemptsCharged'
  <1>1. /\ faults' = faults + 1
        /\ UNCHANGED inbox \/ \E u \in Updates : ClaimPendingUpdate(u)
        /\ UNCHANGED proc
        /\ pc' = [pc EXCEPT ![l] = "polling"]
    BY DEF ClaimFails, Adverse, Goto, Moves, InboxOnly, procVars
  <1>2. Returning' \subseteq Returning
    BY <1>1 DEF Returning, Stopping, IInv, Core, TypeOK
  <1>3. CASE UNCHANGED inbox
    BY <1>1, <1>2, <1>3, FaultPaid
  <1>4. ASSUME NEW u \in Updates, ClaimPendingUpdate(u)
        PROVE  AttemptsCharged'
    <2>1. /\ inbox[u].status = "pending"
          /\ inbox'[u].attempt = inbox[u].attempt + 1
          /\ \A v \in Updates \ {u} : inbox'[v] = inbox[v]
      BY <1>4, ClaimedRow DEF IInv, Core, TypeOK, OtherRowsUnchanged
    <2>2. Cardinality(Slots) \in Nat \ {0}
      BY SomeSlots
    <2>3. inbox'[u].attempt + Charge(u)'
             <= inbox[u].attempt + Charge(u) + Cardinality(Slots)
      <3>1. Charge(u) = 1 /\ Charge(u)' \in {0, 1}
        BY <2>1 DEF Charge, Secure, TerminalStatuses
      <3>2. inbox[u].attempt \in Nat
        BY DEF IInv, Core, TypeOK, InboxTypeOK, Row
      <3> QED
        BY <2>1, <2>2, <3>1, <3>2
    <2>4. \A v \in Updates \ {u} :
             inbox'[v].attempt + Charge(v)'
                <= inbox[v].attempt + Charge(v) + Cardinality(Slots)
      BY <2>1, OneOwed
    <2> QED
      BY <1>1, <1>2, <2>2, <2>3, <2>4, StepPaidPerUpdate
  <1> QED
    BY <1>1, <1>3, <1>4

\* CallNotSent, ReadUnavailable and MarkFails.
LEMMA LoopFaultPaid ==
    ASSUME IInv, IInv', AttemptsCharged, [Next]_vars, NEW l \in Loops,
           CallNotSent(l) \/ ReadUnavailable(l) \/ MarkFails(l)
    PROVE  AttemptsCharged'
  <1>1. /\ faults' = faults + 1
        /\ UNCHANGED inbox \/ MarkExternalMutationStarted(claim[l])
        /\ UNCHANGED proc
        /\ pc' = [pc EXCEPT ![l] = "persisting"]
        /\ pc[l] \in Holding
    BY DEF CallNotSent, ReadUnavailable, MarkFails, Adverse, Conclude, Moves,
           Local, InboxOnly, procVars, Holding, Locations
  <1>2. Returning' \subseteq Returning
    BY <1>1 DEF Returning, Stopping, IInv, Core, TypeOK
  <1>3. \A u \in Updates : inbox'[u].attempt = inbox[u].attempt
    BY <1>1, HeldClaim, MarkedRow
       DEF IInv, Core, TypeOK, OtherRowsUnchanged, IsCurrent
  <1> QED
    BY <1>1, <1>2, <1>3, FaultPaid

\* The claim of a running loop is secure; a loop that stops pays for its claim
\* with its place among those that return.
LEMMA ClaimUpdatePaid ==
    ASSUME IInv, IInv', AttemptsCharged, [Next]_vars,
           NEW l \in Loops, NEW u \in Updates, ClaimUpdate(l, u)
    PROVE  AttemptsCharged'
  <1>1. /\ inbox[u].status = "pending"
        /\ inbox'[u].status = "processing"
        /\ inbox'[u].attempt = inbox[u].attempt + 1
        /\ \A v \in Updates \ {u} : inbox'[v] = inbox[v]
        /\ inbox[u].attempt \in Nat
    BY ClaimedRow DEF ClaimUpdate, IInv, Core, TypeOK, InboxTypeOK, Row,
                      OtherRowsUnchanged
  <1>2. ~inbox'[u].expired
    BY DEF ClaimUpdate, ClaimPendingUpdate, Claimed, IInv, Core, TypeOK,
           InboxTypeOK
  <1>3. /\ UNCHANGED <<proc, faults, result>>
        /\ pc[l] = "claiming" /\ pc'[l] = "claimed"
        /\ claim'[l] = [update |-> u, attempt |-> inbox'[u].attempt]
        /\ \A m \in Loops \ {l} : pc'[m] = pc[m] /\ claim'[m] = claim[m]
    BY DEF ClaimUpdate, Moves, Smooth, procVars, IInv, Core, TypeOK
  <1>4. Charge(u) = 1 /\ Charge(u)' \in {0, 1}
    BY <1>1 DEF Charge, Secure, TerminalStatuses
  <1>5. \A v \in Updates \ {u} :
           inbox'[v].attempt + Charge(v)' <= inbox[v].attempt + Charge(v)
    <2> SUFFICES ASSUME NEW v \in Updates \ {u}
                 PROVE  inbox'[v].attempt + Charge(v)'
                           <= inbox[v].attempt + Charge(v)
      OBVIOUS
    <2>1. ASSUME Secure(v) PROVE Secure(v)'
      <3>1. PICK h \in Loops :
               /\ claim[h] = [update |-> v, attempt |-> inbox[v].attempt]
               /\ pc[h] \in Holding
               /\ Running(h)
               /\ ~(pc[h] = "persisting" /\ result[h] = "reschedule")
        BY <2>1, SecureHolder
      <3>2. h # l
        BY <1>3, <3>1 DEF Holding
      <3> QED
        BY <1>1, <1>3, <2>1, <3>1, <3>2, SecureKept DEF Secure, Running
    <2> QED
      BY <1>1, <2>1, NothingOwed
  <1>6. Returning' = Returning \ {l}
    BY <1>3 DEF Returning, Stopping
  <1>7. CASE Running(l)
    <2>1. Secure(u)'
      BY <1>1, <1>2, <1>3, <1>7, SecureKept DEF Running
    <2>2. inbox'[u].attempt + Charge(u)' <= inbox[u].attempt + Charge(u)
      <3>1. Charge(u)' = 0
        BY <2>1 DEF Charge
      <3> QED
        BY <1>1, <1>4, <3>1
    <2>3. \A v \in Updates :
             inbox'[v].attempt + Charge(v)' <= inbox[v].attempt + Charge(v) + 0
      <3>1. \A v \in Updates : inbox[v].attempt \in Nat /\ Charge(v) \in Nat
        BY DEF IInv, Core, TypeOK, InboxTypeOK, Row, Charge
      <3> QED
        BY <1>5, <2>2, <3>1
    <2> QED
      BY <1>3, <1>6, <2>3, StepPaidPerUpdate
  <1>8. CASE Stopping(l)
    <2>1. l \in Returning
      BY <1>3, <1>8 DEF Returning
    <2>2. /\ IsFiniteSet(Returning')
          /\ Cardinality(Returning') = Cardinality(Returning) - 1
          /\ Cardinality(Returning) \in Nat
      BY <1>6, <2>1, FS_RemoveElement, FS_CardinalityType DEF AttemptsCharged
    <2>3. ASSUME NEW v \in Updates
          PROVE  inbox'[v].attempt + Charge(v)'
                    <= inbox[v].attempt + Charge(v) + 1
      <3>1. CASE v = u
        BY <1>1, <1>4, <3>1
      <3>2. CASE v # u
        <4>1. /\ inbox'[v].attempt + Charge(v)' <= inbox[v].attempt + Charge(v)
              /\ inbox[v].attempt \in Nat /\ inbox'[v].attempt \in Nat
              /\ Charge(v) \in Nat /\ Charge(v)' \in Nat
          BY <1>1, <1>5, <3>2 DEF IInv, Core, TypeOK, InboxTypeOK, Row, Charge
        <4> QED
          BY <4>1
      <3> QED
        BY <3>1, <3>2
    <2>4. ASSUME NEW v \in Updates
          PROVE  inbox'[v].attempt + Charge(v)' + Cardinality(Returning')
                    <= inbox[v].attempt + Charge(v) + Cardinality(Returning) + 0
      <3>1. /\ inbox[v].attempt \in Nat /\ inbox'[v].attempt \in Nat
            /\ Charge(v) \in Nat /\ Charge(v)' \in Nat
        BY DEF IInv, Core, TypeOK, InboxTypeOK, Row, Charge
      <3> DEFINE r == Cardinality(Returning)
                 a == inbox[v].attempt
                 b == inbox'[v].attempt
                 c == Charge(v)
                 d == Charge(v)'
      <3>2. b + d <= a + c + 1
        BY <2>3
      <3>3. b + d + (r - 1) <= a + c + r + 0
        <4> HIDE DEF r, a, b, c, d
        <4> QED
          BY <2>2, <3>1, <3>2 DEF r, a, b, c, d
      <3> QED
        BY <2>2, <3>3
    <2> QED
      BY <1>3, <2>2, <2>4, StepPaid
  <1>9. proc[l[1]] # "down" /\ l[1] \in Processes
    BY <1>3 DEF IInv, DownMeansStopped, Loops
  <1> QED
    BY <1>7, <1>8, <1>9 DEF Running, Stopping, IInv, Core, TypeOK

LEMMA MarkStartedPaid ==
    ASSUME IInv, IInv', AttemptsCharged, [Next]_vars,
           NEW l \in Loops, MarkStarted(l)
    PROVE  AttemptsCharged'
  <1>1. /\ UNCHANGED <<proc, claim, result, faults>>
        /\ pc[l] = "marking"
        /\ pc' = [pc EXCEPT ![l] = "calling"]
        /\ MarkExternalMutationStarted(claim[l])
        /\ claim[l] \in Claim
    BY HeldClaim DEF MarkStarted, Goto, Moves, Smooth, InboxOnly, procVars,
                     IInv, Holding, Locations
  <1>2. \A u \in Updates : /\ inbox'[u].status = inbox[u].status
                          /\ inbox'[u].attempt = inbox[u].attempt
                          /\ inbox'[u].expired = inbox[u].expired
    BY <1>1 DEF MarkExternalMutationStarted, IInv, Core, TypeOK, InboxTypeOK,
                Row, Claim
  <1>3. Returning' \subseteq Returning
    BY <1>1 DEF Returning, Stopping, IInv, Core, TypeOK
  <1>4. ASSUME NEW u \in Updates, Secure(u) PROVE Secure(u)'
    <2>1. PICK h \in Loops :
             /\ claim[h] = [update |-> u, attempt |-> inbox[u].attempt]
             /\ Running(h)
             /\ ~(pc[h] = "persisting" /\ result[h] = "reschedule")
      BY <1>4, SecureHolder
    <2>2. ~(pc'[h] = "persisting" /\ result'[h] = "reschedule")
      BY <1>1, <2>1 DEF IInv, Core, TypeOK
    <2> QED
      BY <1>1, <1>2, <1>4, <2>1, <2>2, SecureKept DEF Secure, Running
  <1>5. \A u \in Updates :
           inbox'[u].attempt + Charge(u)' <= inbox[u].attempt + Charge(u) + 0
    BY <1>2, <1>4, NothingOwed DEF IInv, Core, TypeOK, InboxTypeOK, Row, Charge
  <1> QED
    BY <1>1, <1>3, <1>5, StepPaidPerUpdate

\* An attempt that is given back was charged already.
LEMMA PersistPaid ==
    ASSUME IInv, IInv', AttemptsCharged, [Next]_vars,
           NEW l \in Loops, Persist(l) \/ PersistUnacknowledged(l)
    PROVE  AttemptsCharged'
  <1>1. /\ UNCHANGED <<proc, faults>>
        /\ pc[l] = "persisting"
        /\ pc'[l] # "claiming"
        /\ Transition(l)
        /\ \A m \in Loops \ {l} : /\ pc'[m] = pc[m]
                                   /\ claim'[m] = claim[m]
                                   /\ result'[m] = result[m]
    BY DEF Persist, PersistUnacknowledged, AfterPersisting, Goto, Moves, LetGo,
           Smooth, InboxOnly, procVars, loopVars, IInv, Core, TypeOK
  <1>2. claim[l] \in Claim /\ claim[l] # NoClaim /\ IsCurrent(claim[l])
    BY <1>1, HeldClaim, FencedWrite, NoClaimAssumption
       DEF IInv, Holding, Locations
  <1>3. /\ inbox'[claim[l].update].attempt = inbox[claim[l].update].attempt
        /\ \A v \in Updates \ {claim[l].update} : inbox'[v] = inbox[v]
        /\ result[l] # "reschedule"
              => inbox'[claim[l].update].status \in TerminalStatuses
    <2>1. result[l] # "reschedule" => StatusOf(result[l]) \in TerminalStatuses
      BY <1>1 DEF IInv, Core, TypeOK, Workers, LoopsOK, Results, StatusOf,
                  TerminalStatuses
    <2> QED
      BY <1>1, <1>2, <2>1, RescheduledRow, ClosedRow
         DEF Transition, OtherRowsUnchanged, IsCurrent, IInv, Core, TypeOK
  <1>4. Returning' \subseteq Returning
    BY <1>1 DEF Returning, Stopping, IInv, Core, TypeOK
  <1>5. ASSUME NEW u \in Updates, Secure(u)
        PROVE  Secure(u)' \/ inbox'[u].status \in TerminalStatuses
    <2>1. PICK h \in Loops :
             /\ claim[h] = [update |-> u, attempt |-> inbox[u].attempt]
             /\ claim[h].update = u
             /\ Running(h)
             /\ ~(pc[h] = "persisting" /\ result[h] = "reschedule")
      BY <1>5, SecureHolder
    <2>2. CASE h = l
      BY <1>1, <1>3, <2>1, <2>2
    <2>3. CASE h # l
      <3>1. u # claim[l].update
        <4>1. SUFFICES ASSUME u = claim[l].update PROVE claim[h] = claim[l]
          BY <1>2, <2>3 DEF IInv, Core, Workers, ExclusiveAttempts
        <4> QED
          BY <1>2, <2>1, <4>1 DEF IsCurrent, Claim
      <3> QED
        BY <1>1, <1>3, <1>5, <2>1, <2>3, <3>1, SecureKept DEF Secure, Running
    <2> QED
      BY <2>2, <2>3
  <1>6. \A u \in Updates :
           inbox'[u].attempt + Charge(u)' <= inbox[u].attempt + Charge(u) + 0
    BY <1>3, <1>5, NothingOwed DEF IInv, Core, TypeOK, InboxTypeOK, Row, Charge
  <1> QED
    BY <1>1, <1>4, <1>6, StepPaidPerUpdate

\* Steps that end no running loop and touch rows as recovery and clocks do.
LEMMA OtherStepPaid ==
    ASSUME IInv, IInv', AttemptsCharged, [Next]_vars, UNCHANGED faults,
           Returning' \subseteq Returning,
           \A h \in Loops : Running(h) /\ pc[h] \in Holding =>
              /\ proc'[h[1]] = proc[h[1]] /\ pc'[h] = pc[h]
              /\ claim'[h] = claim[h] /\ result'[h] = result[h],
           \A u \in Updates :
              /\ inbox'[u].attempt = inbox[u].attempt
              /\ Secure(u) => /\ inbox'[u].status = inbox[u].status
                              /\ inbox'[u].expired = inbox[u].expired
    PROVE  AttemptsCharged'
  <1>1. ASSUME NEW u \in Updates, Secure(u) PROVE Secure(u)'
    <2>1. PICK h \in Loops :
             /\ claim[h] = [update |-> u, attempt |-> inbox[u].attempt]
             /\ pc[h] \in Holding
             /\ Running(h)
             /\ ~(pc[h] = "persisting" /\ result[h] = "reschedule")
      BY <1>1, SecureHolder
    <2> QED
      BY <1>1, <2>1, SecureKept DEF Secure, Running
  <1>2. \A u \in Updates :
           inbox'[u].attempt + Charge(u)' <= inbox[u].attempt + Charge(u) + 0
    BY <1>1, NothingOwed DEF IInv, Core, TypeOK, InboxTypeOK, Row, Charge
  <1> QED
    BY <1>2, StepPaidPerUpdate

LEMMA RecoveryCharges ==
    ASSUME IInv, RecoverAbandonedUpdates \/ UNCHANGED inbox, NEW u \in Updates
    PROVE  /\ inbox'[u].attempt = inbox[u].attempt
           /\ Secure(u) => inbox'[u] = inbox[u]
  BY RecoveredRows
     DEF RecoverAbandonedUpdates, Recovered, Abandoned, Secure, IInv, Core,
         TypeOK

LEMMA RecoveryStepPaid ==
    ASSUME IInv, IInv', AttemptsCharged, [Next]_vars,
           NEW p \in Processes, RecoveryStep(p)
    PROVE  AttemptsCharged'
  <1>1. /\ UNCHANGED <<proc, pc, claim, result>>
        /\ RecoverAbandonedUpdates \/ UNCHANGED inbox
        /\ UNCHANGED faults \/ faults' = faults + 1
    BY DEF RecoveryStep, BeginRecovery, Recover, RecoverFails, RecoveryExits,
           loopVars, Smooth, Adverse
  <1>2. Returning' \subseteq Returning
    BY <1>1 DEF Returning, Stopping
  <1> QED
    BY <1>1, <1>2, RecoveryCharges, OtherStepPaid, FaultPaid

LEMMA ProcessStepPaid ==
    ASSUME IInv, IInv', AttemptsCharged, [Next]_vars, NEW p \in Processes,
           \/ StartWorker(p) \/ StartFails(p)
           \/ GraceExpires(p) \/ ExitWorker(p) \/ Crash(p)
    PROVE  AttemptsCharged'
  <1> USE DEF IInv, Core, TypeOK
  <1>0. \A l \in Loops : l[1] \in Processes
    BY DEF Loops
  <1>1. RecoverAbandonedUpdates \/ UNCHANGED inbox
    BY DEF StartWorker, StartFails, GraceExpires, ExitWorker, Crash
  <1>2. /\ UNCHANGED faults \/ faults' = faults + 1
        /\ \A l \in Loops : \/ proc'[l[1]] = proc[l[1]]
                            \/ l[1] = p /\ proc'[l[1]] # "stopping"
        /\ \A l \in Loops : pc'[l] = pc[l] \/ pc'[l] \in {"polling", "stopped"}
    BY <1>0 DEF StartWorker, StartFails, GraceExpires, ExitWorker, Crash, Smooth,
                Adverse, EndLoops, EndProcessing, procVars, loopVars
  <1>3. Returning' \subseteq Returning
    BY <1>2 DEF Returning, Stopping
  <1>4. CASE Crash(p)
    BY <1>1, <1>3, <1>4, RecoveryCharges, FaultPaid DEF Crash, Adverse
  <1>5. CASE StartWorker(p) \/ StartFails(p) \/ GraceExpires(p) \/ ExitWorker(p)
    <2>1. \A h \in Loops : Running(h) =>
             /\ proc'[h[1]] = proc[h[1]] /\ pc'[h] = pc[h]
             /\ claim'[h] = claim[h] /\ result'[h] = result[h]
      BY <1>0, <1>5
         DEF StartWorker, StartFails, GraceExpires, ExitWorker, Running, EndLoops,
             EndProcessing, procVars, loopVars
    <2>2. UNCHANGED faults
      BY <1>5 DEF StartWorker, StartFails, GraceExpires, ExitWorker, Smooth
    <2> QED
      BY <1>1, <1>3, <2>1, <2>2, RecoveryCharges, OtherStepPaid
  <1> QED
    BY <1>4, <1>5

\* A stop costs an update what the loops of the process may do to it: one of
\* them lets its attempt go, those that are claiming may claim it.
LEMMA StopWorkerPaid ==
    ASSUME IInv, IInv', AttemptsCharged, [Next]_vars,
           NEW p \in Processes, StopWorker(p)
    PROVE  AttemptsCharged'
  <1> DEFINE k == Cardinality(Slots)
             Comers == {l \in LoopsOf(p) : pc[l] = "claiming"}
  <1>1. /\ UNCHANGED <<inbox, pc, claim, result>>
        /\ faults' = faults + 1
        /\ proc[p] = "running"
        /\ proc' = [proc EXCEPT ![p] = "stopping"]
    BY DEF StopWorker, Adverse, loopVars
  <1>2. /\ IsFiniteSet(LoopsOf(p)) /\ Cardinality(LoopsOf(p)) = k /\ k \in Nat
        /\ IsFiniteSet(Comers) /\ Cardinality(Comers) <= k
        /\ Cardinality(Comers) \in Nat
    BY LoopsOfProcess, FS_Subset, FS_CardinalityType
  <1>3. Returning' = Returning \cup Comers
    BY <1>1 DEF Returning, Stopping, LoopsOf, Loops, IInv, Core, TypeOK
  <1>4. /\ IsFiniteSet(Returning')
        /\ Cardinality(Returning') <= Cardinality(Returning) + Cardinality(Comers)
        /\ Cardinality(Returning) \in Nat /\ Cardinality(Returning') \in Nat
    <2>1. IsFiniteSet(Returning) /\ IsFiniteSet(Returning \cap Comers)
      BY FS_Subset DEF AttemptsCharged
    <2>2. /\ Cardinality(Returning) \in Nat
          /\ Cardinality(Returning \cap Comers) \in Nat
      BY <2>1, FS_CardinalityType
    <2>3. /\ IsFiniteSet(Returning \cup Comers)
          /\ Cardinality(Returning \cup Comers) =
                Cardinality(Returning) + Cardinality(Comers)
                   - Cardinality(Returning \cap Comers)
      BY <1>2, <2>1, FS_Union
    <2>4. Cardinality(Returning \cup Comers) \in Nat
      BY <2>3, FS_CardinalityType
    <2> HIDE DEF Comers
    <2> QED
      BY <1>2, <1>3, <2>2, <2>3, <2>4
  <1>5. ASSUME NEW u \in Updates
        PROVE  Charge(u)' + Cardinality(Comers) <= Charge(u) + k
    <2>1. Charge(u) \in {0, 1} /\ Charge(u)' \in {0, 1}
      BY DEF Charge
    <2>2. CASE Charge(u)' <= Charge(u)
      <3> HIDE DEF Comers, k
      <3> QED
        BY <1>2, <2>1, <2>2
    <2>3. CASE ~(Charge(u)' <= Charge(u))
      <3>1. Secure(u) /\ ~Secure(u)'
        BY <1>1, <2>1, <2>3 DEF Charge
      <3>2. PICK h \in Loops :
               /\ claim[h] = [update |-> u, attempt |-> inbox[u].attempt]
               /\ pc[h] \in Holding
               /\ Running(h)
               /\ ~(pc[h] = "persisting" /\ result[h] = "reschedule")
        BY <3>1, SecureHolder
      <3>3. h \in LoopsOf(p) \ Comers
        <4>1. SUFFICES ASSUME h \notin LoopsOf(p) PROVE Secure(u)'
          BY <3>1, <3>2 DEF Holding
        <4>2. proc'[h[1]] = "running"
          BY <1>1, <3>2, <4>1 DEF LoopsOf, Loops, Running, IInv, Core, TypeOK
        <4> QED
          BY <1>1, <3>1, <3>2, <4>2, SecureKept DEF Secure
      <3>4. /\ IsFiniteSet(LoopsOf(p) \ {h})
            /\ Cardinality(LoopsOf(p) \ {h}) = k - 1
        BY <1>2, <3>3, FS_RemoveElement
      <3>5. Cardinality(Comers) <= k - 1
        BY <3>3, <3>4, FS_Subset
      <3> HIDE DEF Comers, k
      <3> QED
        BY <1>2, <2>1, <3>5
    <2> QED
      BY <2>2, <2>3
  <1>6. ASSUME NEW u \in Updates
        PROVE  inbox'[u].attempt + Charge(u)' + Cardinality(Returning')
                  <= inbox[u].attempt + Charge(u) + Cardinality(Returning) + k
    <2> DEFINE r == Cardinality(Returning)
               q == Cardinality(Returning')
               n == Cardinality(Comers)
               a == inbox[u].attempt
               c == Charge(u)
               d == Charge(u)'
    <2>1. a \in Nat /\ inbox'[u].attempt = a
      BY <1>1 DEF IInv, Core, TypeOK, InboxTypeOK, Row
    <2>2. c \in Nat /\ d \in Nat
      BY DEF Charge
    <2>3. d + n <= c + k /\ q <= r + n
      BY <1>4, <1>5
    <2>4. n \in Nat /\ k \in Nat /\ r \in Nat /\ q \in Nat
      BY <1>2, <1>4
    <2>5. a + d + q <= a + c + r + k
      <3> HIDE DEF r, q, n, a, c, d, k
      <3> QED
        BY <2>1, <2>2, <2>3, <2>4
    <2> QED
      BY <2>1, <2>5
  <1> QED
    BY <1>1, <1>2, <1>4, <1>6, StepPaid

\* New rows and the clocks: what no loop holds is charged already.
LEMMA UpdateStepPaid ==
    ASSUME IInv, IInv', AttemptsCharged, [Next]_vars,
           NEW u \in Updates, UpdateStep(u)
    PROVE  AttemptsCharged'
  <1> USE DEF IInv, Core, TypeOK
  <1>1. /\ UNCHANGED <<proc, pc, claim, result>>
        /\ InsertUpdate(u) \/ BecomeDue(u) \/ ClaimExpires(u)
        /\ \/ UNCHANGED faults /\ ~(ClaimExpires(u) /\ Held(u))
           \/ faults' = faults + 1
    BY DEF UpdateStep, Accept, RetryTimePasses, AbandonedClaimExpires,
           LiveClaimExpires, procVars, loopVars, Adverse, InsertUpdate,
           BecomeDue, ClaimExpires
  <1>2. Returning' \subseteq Returning
    BY <1>1 DEF Returning, Stopping
  <1>3. /\ \A v \in Updates : inbox'[v].attempt = inbox[v].attempt
        /\ \A v \in Updates \ {u} : inbox'[v] = inbox[v]
    BY <1>1, InsertedRow, AgedRow DEF OtherRowsUnchanged
  <1>4. CASE faults' = faults + 1
    BY <1>2, <1>3, <1>4, FaultPaid
  <1>5. CASE UNCHANGED faults /\ ~(ClaimExpires(u) /\ Held(u))
    <2>1. ~Secure(u)
      BY <1>1, <1>5 DEF Secure, Held, InsertUpdate, BecomeDue
    <2> QED
      BY <1>1, <1>2, <1>3, <1>5, <2>1, OtherStepPaid
  <1> QED
    BY <1>1, <1>4, <1>5

LEMMA ChargesKept ==
    ASSUME IInv, MarkersAreFresh, AttemptsCharged, [Next]_vars
    PROVE  AttemptsCharged'
  <1>0. IInv'
    BY InvariantKept
  <1>1. ASSUME NEW l \in Loops, LoopStep(l) PROVE AttemptsCharged'
    BY <1>0, <1>1, QuietStepPaid, ClaimFailsPaid, LoopFaultPaid,
       ClaimUpdatePaid, MarkStartedPaid, PersistPaid DEF LoopStep, QuietStep
  <1>2. ASSUME NEW p \in Processes, RecoveryStep(p) \/ ProcessStep(p)
        PROVE  AttemptsCharged'
    BY <1>0, <1>2, RecoveryStepPaid, ProcessStepPaid, StopWorkerPaid
       DEF ProcessStep
  <1>3. ASSUME NEW u \in Updates, UpdateStep(u) PROVE AttemptsCharged'
    BY <1>0, <1>3, UpdateStepPaid
  <1>4. ASSUME UNCHANGED <<inbox, proc, pc, claim, result, faults>>
        PROVE  AttemptsCharged'
    BY <1>4 DEF AttemptsCharged, Charge, Secure, Returning, Running, Stopping
  <1>5. ASSUME NEW request \in sent, CreateTask(request) \/ RefuseTask(request)
        PROVE  AttemptsCharged'
    BY <1>4, <1>5 DEF CreateTask, RefuseTask, procVars, loopVars
  <1>6. CASE UNCHANGED vars
    BY <1>4, <1>6 DEF vars, procVars, loopVars
  <1> QED
    BY <1>1, <1>2, <1>3, <1>5, <1>6 DEF Next

\* Every attempt of an update but the first is owed to a fault, and a fault
\* costs it no more attempts than a process has loops.
THEOREM AttemptsNeedFaults == Spec => []AttemptsAreOwed
  <1>1. Init => AttemptsCharged
    <2> SUFFICES ASSUME Init PROVE AttemptsCharged
      OBVIOUS
    <2>1. Returning = {}
      BY DEF Init, Returning, Stopping, Loops
    <2>2. /\ Cardinality(Returning) = 0 /\ IsFiniteSet(Returning)
          /\ Cardinality(Slots) \in Nat
      BY <2>1, SlotsAssumption, FS_EmptySet, FS_CardinalityType
    <2>3. \A u \in Updates : inbox[u].attempt = 0 /\ Charge(u) \in {0, 1}
      BY InitialInbox DEF Init, Charge
    <2>4. faults = 0
      BY DEF Init
    <2> QED
      BY <2>2, <2>3, <2>4 DEF AttemptsCharged
  <1>2. IInv /\ MarkersAreFresh /\ AttemptsCharged /\ [Next]_vars
           => AttemptsCharged'
    BY ChargesKept
  <1>3. IInv /\ AttemptsCharged => AttemptsAreOwed
    <2> SUFFICES ASSUME IInv, AttemptsCharged, NEW u \in Updates
                 PROVE  inbox[u].attempt <= 1 + Cardinality(Slots) * faults
      BY DEF AttemptsAreOwed
    <2> DEFINE k == Cardinality(Slots) * faults
               r == Cardinality(Returning)
    <2>1. inbox[u].attempt \in Nat /\ faults \in Nat /\ Charge(u) \in Nat
      BY DEF IInv, Core, TypeOK, InboxTypeOK, Row, Charge
    <2>2. r \in Nat /\ k \in Nat
      BY <2>1, SlotsAssumption, FS_CardinalityType DEF AttemptsCharged
    <2>3. inbox[u].attempt + Charge(u) + r <= 1 + k
      BY DEF AttemptsCharged
    <2> HIDE DEF k, r
    <2>4. inbox[u].attempt <= 1 + k
      BY <2>1, <2>2, <2>3
    <2> QED
      BY <2>4 DEF k
  <1> QED
    BY <1>1, <1>2, <1>3, Invariance, MarkersStayFresh, PTL DEF Spec

-----------------------------------------------------------------------------
(* The refinement.                                                         *)

LEMMA EffectCases ==
    ASSUME NEW requests, NEW done, NEW refusals, done \cap refusals = {}
    PROVE  /\ requests = {} => Effect(requests, done, refusals) = "none"
           /\ requests \cap done # {}
                 => Effect(requests, done, refusals) = "applied"
           /\ requests # {} /\ requests \subseteq refusals
                 => Effect(requests, done, refusals) = "refused"
           /\ requests # {} /\ requests \cap done = {}
              /\ ~(requests \subseteq refusals)
                 => Effect(requests, done, refusals) = "issued"
           /\ Effect(requests, done, refusals) \in Lifecycle!Effects
  BY DEF Effect, Lifecycle!Effects

\* What the status of an update tells about its effect.
EffectsKnown ==
    \A u \in Updates :
        /\ inbox[u].status \in {"absent", "pending"} => EffectOf(u) = "none"
        /\ inbox[u].status = "succeeded"
              => EffectOf(u) = IF inbox[u].kind = "capture" THEN "applied"
                                                            ELSE "none"
        /\ inbox[u].status = "failed" => EffectOf(u) \in {"none", "refused"}
        /\ inbox[u].status = "uncertain" => inbox[u].kind = "capture"
        /\ EffectOf(u) \in Lifecycle!Effects
        /\ inbox[u].status \in Lifecycle!Statuses

LEMMA EffectsFollow == Core => EffectsKnown
  <1> SUFFICES ASSUME Core, NEW u \in Updates
               PROVE  EffectsKnown!(u)
    BY DEF EffectsKnown
  <1>1. applied \cap refused = {}
    BY DEF Core, Records, RequestsOK
  <1>2. \A r \in RequestsOf(u) :
           /\ inbox[u].status \notin {"absent", "pending"}
           /\ inbox[u].kind = "capture"
           /\ inbox[u].status = "failed" => r \in refused
    BY DEF Core, Records, RequestsOK, RequestsOf
  <1>3. /\ inbox[u].status = "succeeded" /\ inbox[u].kind = "capture"
              => RequestsOf(u) \cap applied # {}
        /\ inbox[u].status = "uncertain" => inbox[u].kind = "capture"
    BY DEF Core, Records, SucceededMeansApplied, UncertainMeansMarked
  <1>4. inbox[u].status \in Lifecycle!Statuses
    BY DEF Core, TypeOK, InboxTypeOK, Row, Statuses, TerminalStatuses,
           Lifecycle!Statuses
  <1>5. /\ RequestsOf(u) = {} => EffectOf(u) = "none"
        /\ RequestsOf(u) \cap applied # {} => EffectOf(u) = "applied"
        /\ RequestsOf(u) # {} /\ RequestsOf(u) \subseteq refused
              => EffectOf(u) = "refused"
        /\ EffectOf(u) \in Lifecycle!Effects
    BY <1>1, EffectCases DEF EffectOf
  <1> QED
    BY <1>2, <1>3, <1>4, <1>5

\* The row of an update moves, its requests do not.
LEMMA StatusAdvances ==
    ASSUME EffectsKnown, EffectsKnown', UNCHANGED remoteVars,
           NEW u \in Updates, RowSteps(u)
    PROVE  Lifecycle!Advances(u) \/ Lifecycle!Rests(u)
  <1>1. EffectOf(u)' = EffectOf(u)
    BY DEF EffectOf, RequestsOf, remoteVars
  <1>2. CASE inbox'[u].status = inbox[u].status
    BY <1>1, <1>2 DEF Lifecycle!Rests
  <1>3. CASE inbox[u].status = "absent" /\ inbox'[u].status = "pending"
    BY <1>1, <1>3
       DEF Lifecycle!Advances, Lifecycle!Accept, Lifecycle!StatusMoves
  <1>4. CASE inbox[u].status = "pending" /\ inbox'[u].status = "processing"
    BY <1>1, <1>4
       DEF Lifecycle!Advances, Lifecycle!Begin, Lifecycle!StatusMoves
  <1>5. CASE inbox[u].status = "processing" /\ inbox'[u].status = "pending"
    <2>1. EffectOf(u)' = "none"
      BY <1>5 DEF EffectsKnown
    <2> QED
      BY <1>1, <1>5, <2>1
         DEF Lifecycle!Advances, Lifecycle!GiveBack, Lifecycle!StatusMoves
  <1>6. CASE /\ inbox[u].status = "processing"
             /\ inbox'[u].status \in TerminalStatuses
             /\ inbox'[u].kind = inbox[u].kind
    <2>1. /\ inbox'[u].status = "succeeded"
                => EffectOf(u)' = IF inbox[u].kind = "capture" THEN "applied"
                                                               ELSE "none"
          /\ inbox'[u].status = "failed" => EffectOf(u)' \in {"none", "refused"}
          /\ inbox'[u].status = "uncertain" => inbox[u].kind = "capture"
      BY <1>6 DEF EffectsKnown
    <2> QED
      BY <1>1, <1>6, <2>1
         DEF TerminalStatuses, Lifecycle!Advances, Lifecycle!Succeed,
             Lifecycle!Fail, Lifecycle!Doubt, Lifecycle!StatusMoves
  <1> QED
    BY <1>2, <1>3, <1>4, <1>5, <1>6 DEF RowSteps, TerminalStatuses

\* A loop hands its request over: the first one of its update.
LEMMA RequestIssues ==
    ASSUME Core, EffectsKnown, NEW l \in Loops, SendRequest(l),
           NEW u \in Updates
    PROVE  Lifecycle!Advances(u) \/ Lifecycle!Rests(u)
  <1> DEFINE c == claim[l]
  <1>1. /\ pc[l] = "calling"
        /\ UNCHANGED <<inbox, applied, refused>>
        /\ sent' = sent \cup {c}
    BY DEF SendRequest, Goto, Moves
  <1>2. /\ c \in Claim \ sent
        /\ c.attempt = inbox[c.update].attempt
        /\ inbox[c.update].status \in {"processing", "uncertain"}
        /\ inbox[c.update].kind = "capture"
    BY <1>1, HeldClaim
       DEF Core, Workers, LoopsOK, KnowledgeOK, MarkerCoversTheCall, KindOf,
           Holding, Locations
  <1>3. /\ applied \subseteq sent
        /\ refused \subseteq sent
        /\ applied \cap refused = {}
        /\ \A r \in sent : r \in Claim /\ inbox[r.update].attempt = r.attempt
    BY DEF Core, TypeOK, Records, RequestsOK
  <1>4. CASE u # c.update
    <2>1. RequestsOf(u)' = RequestsOf(u)
      BY <1>1, <1>4 DEF RequestsOf
    <2> QED
      BY <1>1, <2>1 DEF EffectOf, Lifecycle!Rests
  <1>5. CASE u = c.update
    <2>1. RequestsOf(u) = {}
      BY <1>2, <1>3, <1>5 DEF RequestsOf, Claim
    <2>2. RequestsOf(u)' = {c}
      BY <1>1, <1>5, <2>1 DEF RequestsOf
    <2>3. EffectOf(u) = "none"
      BY <1>3, <2>1, EffectCases DEF EffectOf
    <2>4. EffectOf(u)' = "issued"
      <3>1. c \notin applied /\ c \notin refused
        BY <1>2, <1>3
      <3> QED
        BY <1>1, <1>3, <2>2, <3>1, EffectCases DEF EffectOf
    <2> QED
      BY <1>1, <1>2, <1>5, <2>3, <2>4
         DEF Lifecycle!Advances, Lifecycle!Issue, Lifecycle!EffectMoves
  <1> QED
    BY <1>4, <1>5

\* Singularity serves a request: the only one of its update.
LEMMA RequestServed ==
    ASSUME Core, EffectsKnown, NEW request \in sent,
           CreateTask(request) \/ RefuseTask(request), NEW u \in Updates
    PROVE  Lifecycle!Advances(u) \/ Lifecycle!Rests(u)
  <1>1. /\ request \in sent \ (applied \cup refused)
        /\ UNCHANGED <<inbox, sent>>
        /\ \/ applied' = applied \cup {request} /\ refused' = refused
           \/ refused' = refused \cup {request} /\ applied' = applied
    BY DEF CreateTask, RefuseTask, InFlight
  <1>2. /\ applied \cap refused = {}
        /\ \A r \in sent : r \in Claim /\ inbox[r.update].attempt = r.attempt
    BY DEF Core, TypeOK, Records, RequestsOK
  <1>3. RequestsOf(u)' = RequestsOf(u)
    BY <1>1 DEF RequestsOf
  <1>4. CASE u # request.update
    <2>1. request \notin RequestsOf(u)
      BY <1>4 DEF RequestsOf
    <2>2. /\ RequestsOf(u) \cap applied' = RequestsOf(u) \cap applied
          /\ (RequestsOf(u) \subseteq refused') <=> (RequestsOf(u) \subseteq refused)
          /\ applied' \cap refused' = {}
      BY <1>1, <1>2, <2>1
    <2>3. EffectOf(u)' = EffectOf(u)
      BY <1>2, <1>3, <2>2, EffectCases DEF EffectOf
    <2> QED
      BY <1>1, <2>3 DEF Lifecycle!Rests
  <1>5. CASE u = request.update
    <2>1. RequestsOf(u) = {request}
      BY <1>1, <1>2, <1>5 DEF RequestsOf, Claim
    <2>2. EffectOf(u) = "issued"
      BY <1>1, <1>2, <2>1, EffectCases DEF EffectOf
    <2>3. CASE applied' = applied \cup {request} /\ refused' = refused
      <3>1. EffectOf(u)' = "applied"
        BY <1>1, <1>2, <1>3, <2>1, <2>3, EffectCases DEF EffectOf
      <3> QED
        BY <1>1, <2>2, <3>1
           DEF Lifecycle!Advances, Lifecycle!TakeEffect, Lifecycle!EffectMoves
    <2>4. CASE refused' = refused \cup {request} /\ applied' = applied
      <3>1. EffectOf(u)' = "refused"
        BY <1>1, <1>2, <1>3, <2>1, <2>4, EffectCases DEF EffectOf
      <3> QED
        BY <1>1, <2>2, <3>1
           DEF Lifecycle!Advances, Lifecycle!Refuse, Lifecycle!EffectMoves
    <2> QED
      BY <1>1, <2>3, <2>4
  <1> QED
    BY <1>4, <1>5

\* Only these steps change what is known of the requests.
LEMMA RemoteSteps ==
    ASSUME [Next]_vars
    PROVE  \/ UNCHANGED remoteVars
           \/ \E l \in Loops : SendRequest(l)
           \/ \E request \in sent : CreateTask(request) \/ RefuseTask(request)
  <1>1. ASSUME NEW l \in Loops, LoopStep(l)
        PROVE  UNCHANGED remoteVars \/ SendRequest(l)
    BY <1>1
       DEF LoopStep, BeginClaim, ClaimUpdate, ClaimNothing, ClaimFails,
           ReturnClaim, Dispatch, MarkStarted, MarkRefused, MarkFails,
           CallNotSent, CallBreaks, Confirm, Reject, LoseTrack, ReadTasks,
           ReadUnavailable, Persist, PersistUnacknowledged, PersistRefused,
           Reply, LoopExits, Local, InboxOnly
  <1>2. ASSUME NEW p \in Processes, RecoveryStep(p) \/ ProcessStep(p)
        PROVE  UNCHANGED remoteVars
    BY <1>2 DEF RecoveryStep, BeginRecovery, Recover, RecoverFails,
                RecoveryExits, ProcessStep, StartWorker, StartFails, StopWorker,
                GraceExpires, ExitWorker, Crash
  <1>3. ASSUME NEW u \in Updates, UpdateStep(u) PROVE UNCHANGED remoteVars
    BY <1>3 DEF UpdateStep, Accept, RetryTimePasses, AbandonedClaimExpires,
                LiveClaimExpires
  <1> QED
    BY <1>1, <1>2, <1>3 DEF Next, vars

\* Workers, recovery, crashes, clocks and Singularity together do to an update
\* only what UpdateLifecycle allows.
THEOREM LifecycleKept == Spec => ImplementsLifecycle
  <1>1. Init => Lifecycle!Init
    <2> SUFFICES ASSUME Init PROVE Lifecycle!Init
      OBVIOUS
    <2>1. \A u \in Updates : inbox[u].status = "absent"
      BY InitialInbox DEF Init
    <2>2. \A u \in Updates : EffectOf(u) = "none"
      BY EffectCases DEF Init, EffectOf, RequestsOf
    <2> QED
      BY <2>1, <2>2 DEF Lifecycle!Init
  <1>2. IInv => EffectsKnown
    BY EffectsFollow DEF IInv
  <1>3. IInv /\ EffectsKnown /\ EffectsKnown' /\ [Next]_vars => Lifecycle!Next
    <2> SUFFICES ASSUME IInv, EffectsKnown, EffectsKnown', [Next]_vars
                 PROVE  Lifecycle!Next
      OBVIOUS
    <2>1. Core /\ \A u \in Updates : RowSteps(u)
      BY InboxSteps DEF IInv
    <2>2. \A u \in Updates : inbox'[u].kind = inbox[u].kind
      BY <2>1 DEF RowSteps
    <2>3. /\ \A u \in Updates : inbox'[u].status \in Lifecycle!Statuses
          /\ \A u \in Updates : EffectOf(u)' \in Lifecycle!Effects
      BY DEF EffectsKnown
    <2>4. \A u \in Updates : Lifecycle!Advances(u) \/ Lifecycle!Rests(u)
      BY <2>1, RemoteSteps, StatusAdvances, RequestIssues, RequestServed
    <2> QED
      BY <2>2, <2>3, <2>4 DEF Lifecycle!Next
  <1> QED
    BY <1>1, <1>2, <1>3, Invariance, PTL
       DEF Spec, ImplementsLifecycle, Lifecycle!Spec
=============================================================================
