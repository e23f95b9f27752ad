------------------------- MODULE UpdateWorkerProofs -------------------------
(***************************************************************************)
(* The safety properties of UpdateWorkerProps, for any number of updates,  *)
(* processes, loops and faults.  The invariant Core has three layers:      *)
(* the types; what the records (rows and requests) say of each other; and  *)
(* what each loop may rely on about its row and its request.               *)
(***************************************************************************)
EXTENDS UpdateWorkerProps, InboxProofs

LEMMA InitEstablishes == Init => Core
  <1> SUFFICES ASSUME Init PROVE Core
    OBVIOUS
  <1>1. /\ InboxTypeOK
        /\ \A u \in Updates : inbox[u].status = "absent"
    BY InitialInbox DEF Init
  <1>2. TypeOK
    BY <1>1 DEF Init, TypeOK, Locations, Results
  <1>3. Records
    BY <1>1 DEF Init, Records, RequestsOK, RowsOK, UncertainMeansMarked,
                SucceededMeansApplied, RepliesFollowSuccess
  <1>4. Workers
    BY DEF Init, Workers, LoopsOK, ClaimsOK, ExclusiveAttempts, KnowledgeOK,
           MarkerCoversTheCall, Holding, Locations
  <1> QED
    BY <1>2, <1>3, <1>4 DEF Core

-----------------------------------------------------------------------------
(* Facts used for many actions.                                            *)

LEMMA HeldClaim ==
    ASSUME Core, NEW l \in Loops, pc[l] \in Holding
    PROVE  /\ claim[l] \in Claim
           /\ claim[l].update \in Updates
           /\ claim[l].attempt \in Nat
           /\ claim[l].attempt <= inbox[claim[l].update].attempt
  BY DEF Core, TypeOK, Workers, LoopsOK, ClaimsOK, Claim

LEMMA RecordsUntouched ==
    ASSUME Records, UNCHANGED <<inbox, remoteVars, replied>>
    PROVE  Records'
  BY DEF Records, RequestsOK, RowsOK, UncertainMeansMarked,
         SucceededMeansApplied, RepliesFollowSuccess, RequestsOf, remoteVars

LEMMA WorkersUntouched ==
    ASSUME Workers, UNCHANGED <<inbox, loopVars, remoteVars>>
    PROVE  Workers'
  BY DEF Workers, LoopsOK, ClaimsOK, ExclusiveAttempts, KnowledgeOK,
         MarkerCoversTheCall, KindOf, IsCurrent, loopVars, remoteVars

-----------------------------------------------------------------------------
(* Steps of a loop that leave every record as it is.                       *)

LocalStep(l) ==
    \/ BeginClaim(l) \/ ClaimNothing(l) \/ ReturnClaim(l) \/ Dispatch(l)
    \/ MarkRefused(l) \/ CallNotSent(l) \/ CallBreaks(l)
    \/ Confirm(l) \/ Reject(l) \/ LoseTrack(l)
    \/ ReadTasks(l) \/ ReadUnavailable(l) \/ PersistRefused(l) \/ LoopExits(l)

LEMMA LocalStepsKeep ==
    ASSUME Core, NEW l \in Loops, LocalStep(l)
    PROVE  Core'
  <1> USE FaultsAssumption, NoClaimAssumption DEF Moves, Goto, Conclude, LetGo
  <1>1. /\ TypeOK /\ Records /\ Workers
        /\ UNCHANGED <<inbox, procVars, remoteVars, replied>>
        /\ Smooth \/ Adverse
    BY DEF Core, LocalStep, BeginClaim, ClaimNothing, ReturnClaim, Dispatch,
           MarkRefused, CallNotSent, CallBreaks, Confirm, Reject, LoseTrack,
           ReadTasks, ReadUnavailable, PersistRefused, LoopExits, Local
  <1>2. Records'
    BY <1>1, RecordsUntouched
  <1>3. TypeOK'
    <2>1. /\ pc' \in [Loops -> Locations]
          /\ claim' \in [Loops -> Claim \cup {NoClaim}]
          /\ result' \in [Loops -> Results]
      BY <1>1
         DEF LocalStep, BeginClaim, ClaimNothing, ReturnClaim, Dispatch,
             MarkRefused, CallNotSent, CallBreaks, Confirm, Reject, LoseTrack,
             ReadTasks, ReadUnavailable, PersistRefused, LoopExits,
             TypeOK, Locations, Results
    <2> QED
      BY <1>1, <2>1 DEF TypeOK, InboxTypeOK, procVars, remoteVars, Smooth,
                        Adverse
  <1> USE <1>1 DEF Core, TypeOK, remoteVars, Workers, LoopsOK, ClaimsOK,
                   ExclusiveAttempts, KnowledgeOK, MarkerCoversTheCall,
                   KindOf, IsCurrent, Holding, Locations
  <1>4. CASE BeginClaim(l)
    BY <1>4, <1>2, <1>3 DEF BeginClaim
  <1>5. CASE ClaimNothing(l)
    BY <1>5, <1>2, <1>3 DEF ClaimNothing
  <1>6. CASE ReturnClaim(l)
    BY <1>6, <1>2, <1>3 DEF ReturnClaim
  <1>7. CASE Dispatch(l)
    <2>1. LoopsOK'
      BY <1>7 DEF Dispatch
    <2>2. ClaimsOK'
      BY <1>7 DEF Dispatch
    <2>3. ExclusiveAttempts'
      BY <1>7 DEF Dispatch
    <2>4. KnowledgeOK'
      BY <1>7 DEF Dispatch
    <2>5. MarkerCoversTheCall'
      BY <1>7 DEF Dispatch
    <2> QED
      BY <1>2, <1>3, <2>1, <2>2, <2>3, <2>4, <2>5
  <1>8. CASE MarkRefused(l)
    BY <1>8, <1>2, <1>3 DEF MarkRefused
  <1>9. CASE CallNotSent(l)
    BY <1>9, <1>2, <1>3 DEF CallNotSent
  <1>10. CASE CallBreaks(l)
    BY <1>10, <1>2, <1>3 DEF CallBreaks
  <1>11. CASE Confirm(l)
    BY <1>11, <1>2, <1>3 DEF Confirm
  <1>12. CASE Reject(l)
    BY <1>12, <1>2, <1>3 DEF Reject
  <1>13. CASE LoseTrack(l)
    BY <1>13, <1>2, <1>3 DEF LoseTrack
  <1>14. CASE ReadTasks(l)
    BY <1>14, <1>2, <1>3 DEF ReadTasks
  <1>15. CASE ReadUnavailable(l)
    BY <1>15, <1>2, <1>3 DEF ReadUnavailable
  <1>16. CASE PersistRefused(l)
    <2>1. LoopsOK'
      BY <1>16 DEF PersistRefused
    <2>2. ClaimsOK'
      BY <1>16 DEF PersistRefused
    <2>3. ExclusiveAttempts'
      BY <1>16 DEF PersistRefused
    <2>4. KnowledgeOK'
      BY <1>16 DEF PersistRefused
    <2>5. MarkerCoversTheCall'
      BY <1>16 DEF PersistRefused
    <2> QED
      BY <1>2, <1>3, <2>1, <2>2, <2>3, <2>4, <2>5
  <1>17. CASE LoopExits(l)
    BY <1>17, <1>2, <1>3 DEF LoopExits
  <1> QED
    BY <1>4, <1>5, <1>6, <1>7, <1>8, <1>9, <1>10, <1>11, <1>12, <1>13, <1>14,
       <1>15, <1>16, <1>17 DEF LocalStep

-----------------------------------------------------------------------------
(* Requests and replies.                                                   *)

\* The request is new: of the loops that hold a claim, only l holds this one.
LEMMA SendRequestKeeps ==
    ASSUME Core, NEW l \in Loops, SendRequest(l)
    PROVE  Core'
  <1> USE DEF SendRequest, Goto, Moves
  <1>1. /\ claim[l] \in Claim
        /\ KindOf(l) = "capture"
        /\ claim[l] \notin sent
        /\ inbox[claim[l].update].marked
        /\ inbox[claim[l].update].attempt = claim[l].attempt
        /\ inbox[claim[l].update].status \in {"processing", "uncertain"}
    BY HeldClaim DEF Core, Workers, LoopsOK, KnowledgeOK, MarkerCoversTheCall,
                     Holding, Locations
  <1>2. TypeOK'
    BY <1>1 DEF Core, TypeOK, InboxTypeOK, Locations, procVars, Smooth
  <1>3. Records'
    BY <1>1 DEF Core, Records, TypeOK, RequestsOK, RowsOK, KindOf, RequestsOf,
                UncertainMeansMarked, SucceededMeansApplied, RepliesFollowSuccess
  <1>4. LoopsOK' /\ ClaimsOK' /\ ExclusiveAttempts' /\ MarkerCoversTheCall'
    BY DEF Core, TypeOK, Workers, LoopsOK, ClaimsOK, ExclusiveAttempts,
           MarkerCoversTheCall, KindOf, Holding, Locations
  <1>5. KnowledgeOK'
    BY <1>1 DEF Core, TypeOK, Workers, KnowledgeOK, LoopsOK, ExclusiveAttempts,
                KindOf, IsCurrent, Holding, Locations
  <1> QED
    BY <1>2, <1>3, <1>4, <1>5 DEF Core, Workers

LEMMA SingularityKeeps ==
    ASSUME Core, NEW request \in sent,
           CreateTask(request) \/ RefuseTask(request)
    PROVE  Core'
  <1> USE DEF CreateTask, RefuseTask, InFlight
  <1>1. request \in Claim
    BY DEF Core, TypeOK
  <1>2. applied' \in SUBSET Claim /\ refused' \in SUBSET Claim
    BY <1>1 DEF Core, TypeOK
  <1>3. TypeOK'
    BY <1>2 DEF Core, TypeOK, InboxTypeOK, procVars, loopVars
  <1>4. Records'
    BY DEF Core, Records, RequestsOK, RowsOK, RequestsOf,
           UncertainMeansMarked, SucceededMeansApplied, RepliesFollowSuccess
  <1>5. Workers'
    BY DEF Core, Workers, LoopsOK, ClaimsOK, ExclusiveAttempts, KnowledgeOK,
           MarkerCoversTheCall, KindOf, IsCurrent, loopVars
  <1> QED
    BY <1>3, <1>4, <1>5 DEF Core

LEMMA ReplyKeeps ==
    ASSUME Core, NEW l \in Loops, Reply(l)
    PROVE  Core'
  <1> USE DEF Reply, LetGo, remoteVars
  <1>1. /\ claim[l] \in Claim
        /\ inbox[claim[l].update].status = "succeeded"
        /\ inbox[claim[l].update].attempt = claim[l].attempt
    BY HeldClaim DEF Core, Workers, KnowledgeOK, Holding, Locations
  <1>2. TypeOK'
    BY <1>1 DEF Core, TypeOK, InboxTypeOK, Locations, Results, procVars, Smooth
  <1>3. Records'
    BY <1>1 DEF Core, Records, RequestsOK, RowsOK, RequestsOf,
                UncertainMeansMarked, SucceededMeansApplied, RepliesFollowSuccess
  <1>4. Workers'
    BY NoClaimAssumption
       DEF Core, TypeOK, Workers, LoopsOK, ClaimsOK, ExclusiveAttempts,
           KnowledgeOK, MarkerCoversTheCall, KindOf, IsCurrent, Holding,
           Locations
  <1> QED
    BY <1>2, <1>3, <1>4 DEF Core

-----------------------------------------------------------------------------
(* Claiming.                                                               *)

\* A row that can be claimed has no request and no reply, and no loop that
\* calls Singularity.
LEMMA PendingRow ==
    ASSUME Core, NEW u \in Updates, inbox[u].status = "pending"
    PROVE  /\ \A r \in sent \cup replied : r.update # u
           /\ \A l \in Loops :
                 pc[l] \in {"calling", "awaiting", "replying"}
                     => claim[l].update # u
  BY DEF Core, Records, RequestsOK, RepliesFollowSuccess, Workers,
         MarkerCoversTheCall, KnowledgeOK

\* What a claim does to the records and to the loops that do not get it.
LEMMA ClaimedRowKeeps ==
    ASSUME Core, NEW u \in Updates, ClaimPendingUpdate(u),
           UNCHANGED <<remoteVars, replied>>
    PROVE  Records'
  <1>1. \A r \in sent \cup replied : r.update # u /\ r.update \in Updates
    BY PendingRow, ClaimedRow DEF Core, TypeOK, Claim
  <1> QED
    BY <1>1, ClaimedRow
       DEF Core, TypeOK, OtherRowsUnchanged, Records, RequestsOK, RowsOK,
           UncertainMeansMarked, SucceededMeansApplied, RepliesFollowSuccess,
           RequestsOf, remoteVars

\* The attempt of the claim is above every attempt held so far.
LEMMA ClaimUpdateKeeps ==
    ASSUME Core, NEW l \in Loops, NEW u \in Updates, ClaimUpdate(l, u)
    PROVE  Core'
  <1> USE NoClaimAssumption DEF ClaimUpdate, Moves
  <1> DEFINE c == [update |-> u, attempt |-> inbox[u].attempt + 1]
  <1>1. ClaimPendingUpdate(u) /\ InboxTypeOK /\ InboxTypeOK'
    BY ClaimedRow DEF Core, TypeOK
  <1>2. inbox[u].attempt \in Nat /\ c \in Claim
    BY <1>1 DEF InboxTypeOK, Row, Claim
  <1>3. claim' = [claim EXCEPT ![l] = c]
    BY <1>1, ClaimedRow
  <1> HIDE DEF c
  <1>4. TypeOK'
    BY <1>1, <1>2, <1>3 DEF Core, TypeOK, Locations, procVars, remoteVars, Smooth
  <1>5. Records'
    BY <1>1, ClaimedRowKeeps
  <1>6. \A m \in Loops \ {l} : claim'[m] = claim[m] /\ pc'[m] = pc[m]
    BY <1>3 DEF Core, TypeOK
  <1>7. claim'[l] = c /\ pc'[l] = "claimed" /\ result' = result
    BY <1>3 DEF Core, TypeOK
  <1>8. c.update = u /\ c.attempt = inbox[u].attempt + 1 /\ c # NoClaim
    BY <1>2 DEF c
  <1>9. \A m \in Loops \ {l} :
           claim[m] # NoClaim => /\ claim[m] \in Claim
                                 /\ claim[m].update \in Updates
                                 /\ claim[m].attempt \in Nat
                                 /\ claim[m].attempt
                                        <= inbox[claim[m].update].attempt
    BY DEF Core, TypeOK, Workers, ClaimsOK, Claim
  <1>10. \A m \in Loops \ {l} : claim[m] # c
    BY <1>2, <1>8, <1>9
  <1>11. LoopsOK'
    BY <1>1, <1>6, <1>7, <1>8, <1>9, ClaimedRow
       DEF Core, TypeOK, Workers, LoopsOK, OtherRowsUnchanged, KindOf, Holding,
           Locations
  <1>12. ClaimsOK'
    BY <1>1, <1>2, <1>6, <1>7, <1>8, <1>9, ClaimedRow
       DEF ClaimsOK, OtherRowsUnchanged
  <1>13. ExclusiveAttempts'
    BY <1>6, <1>7, <1>10 DEF Core, Workers, ExclusiveAttempts
  <1>14. KnowledgeOK'
    <2>1. c \notin sent
      BY <1>1, <1>8, PendingRow, ClaimedRow
    <2>2. \A m \in Loops \ {l} : pc[m] = "replying" => claim[m].update # u
      BY <1>1, PendingRow, ClaimedRow
    <2> QED
      BY <1>1, <1>2, <1>6, <1>7, <1>8, <1>9, <2>1, <2>2, ClaimedRow
         DEF Core, Workers, LoopsOK, KnowledgeOK, OtherRowsUnchanged, KindOf,
             IsCurrent, remoteVars, Holding, Locations
  <1>15. MarkerCoversTheCall'
    <2>1. \A m \in Loops \ {l} :
             pc[m] \in {"calling", "awaiting"} => claim[m].update # u
      BY <1>1, PendingRow, ClaimedRow
    <2> QED
      BY <1>1, <1>6, <1>7, <1>9, <2>1, ClaimedRow
         DEF Core, Workers, LoopsOK, MarkerCoversTheCall, OtherRowsUnchanged,
             Holding, Locations
  <1> QED
    BY <1>4, <1>5, <1>11, <1>12, <1>13, <1>14, <1>15 DEF Core, Workers

\* An unacknowledged claim: the row moves on, no loop holds the attempt.
LEMMA ClaimFailsKeeps ==
    ASSUME Core, NEW l \in Loops, ClaimFails(l)
    PROVE  Core'
  <1> USE DEF ClaimFails, Goto, Moves, InboxOnly
  <1>1. /\ pc' \in [Loops -> Locations]
        /\ \A m \in Loops : pc'[m] = pc[m] \/ {pc[m], pc'[m]} \cap Holding = {}
    BY DEF Core, TypeOK, Locations, Holding
  <1>2. \A m \in Loops :
           claim[m] # NoClaim => /\ claim[m].update \in Updates
                                 /\ claim[m].attempt \in Nat
                                 /\ claim[m].attempt
                                        <= inbox[claim[m].update].attempt
    BY DEF Core, TypeOK, Workers, ClaimsOK, Claim
  <1>3. CASE UNCHANGED inbox
    <2>1. TypeOK'
      BY <1>1, <1>3, FaultsAssumption
         DEF Core, TypeOK, InboxTypeOK, procVars, remoteVars, Adverse
    <2>2. Workers'
      BY <1>1, <1>3
         DEF Core, Workers, LoopsOK, ClaimsOK, ExclusiveAttempts, KnowledgeOK,
             MarkerCoversTheCall, KindOf, IsCurrent, Holding, Locations,
             remoteVars
    <2> QED
      BY <1>3, <2>1, <2>2, RecordsUntouched DEF Core
  <1>4. ASSUME NEW u \in Updates, ClaimPendingUpdate(u) PROVE Core'
    <2>1. InboxTypeOK /\ InboxTypeOK' /\ inbox[u].attempt \in Nat
      BY <1>4, ClaimedRow DEF Core, TypeOK, InboxTypeOK, Row
    <2>2. TypeOK'
      BY <1>1, <2>1, FaultsAssumption
         DEF Core, TypeOK, procVars, remoteVars, Adverse
    <2>3. /\ inbox[u].status = "pending"
          /\ \A m \in Loops :
                pc[m] \in {"calling", "awaiting", "replying"}
                    => claim[m].update # u
      BY <1>4, <2>1, PendingRow, ClaimedRow
    <2>4. Records'
      BY <1>4, ClaimedRowKeeps
    <2>5. LoopsOK' /\ ClaimsOK' /\ ExclusiveAttempts'
      BY <1>1, <1>2, <1>4, <2>1, ClaimedRow
         DEF Core, Workers, LoopsOK, ClaimsOK, ExclusiveAttempts, KindOf,
             OtherRowsUnchanged, Holding, Locations
    <2>6. KnowledgeOK' /\ MarkerCoversTheCall'
      BY <1>1, <1>2, <1>4, <2>1, <2>3, ClaimedRow
         DEF Core, Workers, LoopsOK, KnowledgeOK, MarkerCoversTheCall, KindOf,
             IsCurrent, OtherRowsUnchanged, Holding, Locations, remoteVars
    <2> QED
      BY <2>2, <2>4, <2>5, <2>6 DEF Core, Workers
  <1> QED
    BY <1>3, <1>4

-----------------------------------------------------------------------------
(* The marker.                                                             *)

\* Setting the marker of the current attempt of a capture without request
\* disturbs nobody: the row stays with its attempt.
LEMMA MarkedRowKeeps ==
    ASSUME Core, NEW c \in Claim, MarkExternalMutationStarted(c),
           inbox[c.update].kind = "capture", UNCHANGED <<remoteVars, replied>>
    PROVE  /\ InboxTypeOK'
           /\ Records'
           /\ \A u \in Updates :
                 /\ inbox'[u].kind = inbox[u].kind
                 /\ inbox'[u].attempt = inbox[u].attempt
                 /\ inbox'[u].status = inbox[u].status
                 /\ inbox[u].marked => inbox'[u].marked
           /\ inbox'[c.update].marked
           /\ inbox'[c.update].attempt = c.attempt
           /\ inbox'[c.update].status = "processing"
  <1>1. InboxTypeOK /\ c.update \in Updates
    BY DEF Core, TypeOK, Claim
  <1>2. /\ inbox[c.update].status = "processing"
        /\ inbox[c.update].attempt = c.attempt
    BY <1>1, MarkedRow DEF IsCurrent
  <1>3. \A u \in Updates :
           /\ inbox'[u].kind = inbox[u].kind
           /\ inbox'[u].attempt = inbox[u].attempt
           /\ inbox'[u].status = inbox[u].status
           /\ inbox[u].marked => inbox'[u].marked
    BY <1>1, <1>2, MarkedRow DEF OtherRowsUnchanged
  <1>4. \A r \in sent \cup replied : r.update \in Updates
    BY DEF Core, TypeOK, Claim
  <1>5. \A u \in Updates : inbox'[u] = inbox[u] \/ u = c.update
    BY <1>1, MarkedRow DEF OtherRowsUnchanged
  <1>6. Records'
    BY <1>2, <1>3, <1>4, <1>5
       DEF Core, Records, RequestsOK, RowsOK, UncertainMeansMarked,
           SucceededMeansApplied, RepliesFollowSuccess, RequestsOf, remoteVars
  <1> QED
    BY <1>1, <1>2, <1>3, <1>6, MarkedRow

LEMMA MarkStartedKeeps ==
    ASSUME Core, NEW l \in Loops, MarkStarted(l)
    PROVE  Core'
  <1> USE DEF MarkStarted, Goto, Moves, InboxOnly
  <1>1. claim[l] \in Claim /\ inbox[claim[l].update].kind = "capture"
    BY HeldClaim DEF Core, Workers, LoopsOK, KindOf, Holding, Locations
  <1>2. TypeOK'
    BY <1>1, MarkedRowKeeps
       DEF Core, TypeOK, Locations, procVars, remoteVars, Smooth
  <1>3. Records'
    BY <1>1, MarkedRowKeeps
  <1>4. \A m \in Loops : claim[m] # NoClaim => claim[m].update \in Updates
    BY DEF Core, TypeOK, Claim
  <1>5. LoopsOK' /\ ClaimsOK' /\ ExclusiveAttempts'
    BY <1>1, <1>4, MarkedRowKeeps
       DEF Core, TypeOK, Workers, LoopsOK, ClaimsOK, ExclusiveAttempts, KindOf,
           Holding, Locations
  <1>6. KnowledgeOK' /\ MarkerCoversTheCall'
    BY <1>1, <1>4, MarkedRowKeeps
       DEF Core, TypeOK, Workers, LoopsOK, KnowledgeOK, MarkerCoversTheCall,
           KindOf, IsCurrent, Holding, Locations, remoteVars
  <1> QED
    BY <1>2, <1>3, <1>5, <1>6 DEF Core, Workers

LEMMA MarkFailsKeeps ==
    ASSUME Core, NEW l \in Loops, MarkFails(l)
    PROVE  Core'
  <1> USE DEF MarkFails, Conclude, Moves, InboxOnly
  <1>1. claim[l] \in Claim /\ inbox[claim[l].update].kind = "capture"
    BY HeldClaim DEF Core, Workers, LoopsOK, KindOf, Holding, Locations
  <1>2. /\ InboxTypeOK'
        /\ Records'
        /\ \A u \in Updates :
              /\ inbox'[u].kind = inbox[u].kind
              /\ inbox'[u].attempt = inbox[u].attempt
              /\ inbox'[u].status = inbox[u].status
              /\ inbox[u].marked => inbox'[u].marked
    BY <1>1, MarkedRowKeeps, RecordsUntouched DEF Core, TypeOK, InboxTypeOK
  <1>3. TypeOK'
    BY <1>1, <1>2, FaultsAssumption
       DEF Core, TypeOK, Locations, Results, procVars, remoteVars, Adverse
  <1>4. \A m \in Loops : claim[m] # NoClaim => claim[m].update \in Updates
    BY DEF Core, TypeOK, Claim
  <1>5. LoopsOK' /\ ClaimsOK' /\ ExclusiveAttempts'
    BY <1>1, <1>2, <1>4
       DEF Core, TypeOK, Workers, LoopsOK, ClaimsOK, ExclusiveAttempts, KindOf,
           Holding, Locations
  <1>6. KnowledgeOK' /\ MarkerCoversTheCall'
    BY <1>1, <1>2, <1>4
       DEF Core, TypeOK, Workers, LoopsOK, KnowledgeOK, MarkerCoversTheCall,
           KindOf, IsCurrent, Holding, Locations, remoteVars
  <1> QED
    BY <1>2, <1>3, <1>5, <1>6 DEF Core, Workers

-----------------------------------------------------------------------------
(* Recording an outcome.                                                   *)

\* The transition closes or returns the row of the current attempt, and what
\* the loop knows makes the new status true.
LEMMA TransitionKeeps ==
    ASSUME Core, NEW l \in Loops, pc[l] = "persisting", Transition(l),
           UNCHANGED <<remoteVars, replied>>
    PROVE  /\ InboxTypeOK'
           /\ Records'
           /\ claim[l] \in Claim
           /\ \A u \in Updates :
                 /\ inbox'[u].kind = inbox[u].kind
                 /\ inbox'[u].attempt = inbox[u].attempt
                 /\ inbox'[u].marked = inbox[u].marked
                 /\ inbox'[u] = inbox[u] \/ u = claim[l].update
           /\ inbox[claim[l].update].status = "processing"
           /\ inbox[claim[l].update].attempt = claim[l].attempt
           /\ inbox'[claim[l].update].status =
                 IF result[l] = "reschedule" THEN "pending"
                                             ELSE StatusOf(result[l])
  <1> DEFINE u == claim[l].update
             status == IF result[l] = "reschedule" THEN "pending"
                                                   ELSE StatusOf(result[l])
  <1>1. claim[l] \in Claim /\ u \in Updates /\ InboxTypeOK
    BY HeldClaim DEF Core, TypeOK, Holding, Locations
  <1>2. /\ result[l] \in Results \ {"none"}
        /\ result[l] # "reschedule" => StatusOf(result[l]) \in TerminalStatuses
    BY DEF Core, TypeOK, Workers, LoopsOK, Results, StatusOf, TerminalStatuses
  <1>3. /\ InboxTypeOK'
        /\ OtherRowsUnchanged(u)
        /\ IsCurrent(claim[l])
        /\ inbox'[u].status = status
        /\ inbox'[u].kind = inbox[u].kind
        /\ inbox'[u].attempt = claim[l].attempt
        /\ inbox'[u].marked = inbox[u].marked
    BY <1>1, <1>2, RescheduledRow, ClosedRow DEF Transition
  <1>4. /\ inbox[u].status = "processing"
        /\ inbox[u].attempt = claim[l].attempt
    BY <1>3 DEF IsCurrent
  <1>5. /\ result[l] = "reschedule" => claim[l] \notin sent
        /\ result[l] = "failed" => claim[l] \notin (sent \ refused)
        /\ result[l] = "uncertain" => inbox[u].kind = "capture" /\ inbox[u].marked
        /\ result[l] \in {"succeeded", "answered"} =>
              (inbox[u].kind = "capture" => claim[l] \in applied)
    BY <1>3 DEF Core, Workers, KnowledgeOK, KindOf
  <1>6. \A r \in sent :
           /\ r \in Claim
           /\ r.update = u => r = claim[l]
    BY <1>1, <1>4 DEF Core, TypeOK, Records, RequestsOK, Claim
  <1>7. \A r \in replied : r \in Claim /\ r.update # u
    BY <1>4 DEF Core, TypeOK, Records, RepliesFollowSuccess, Claim
  <1>8. \A v \in Updates : inbox'[v] = inbox[v] \/ v = u
    BY <1>3 DEF OtherRowsUnchanged
  <1>9. \A v \in Updates : /\ inbox'[v].kind = inbox[v].kind
                            /\ inbox'[v].attempt = inbox[v].attempt
                            /\ inbox'[v].marked = inbox[v].marked
    BY <1>3, <1>4, <1>8
  <1>10. /\ status \in {"pending", "failed", "uncertain", "succeeded"}
         /\ status = "pending" => result[l] = "reschedule"
         /\ status = "failed" => result[l] = "failed"
         /\ status = "uncertain" => result[l] = "uncertain"
         /\ status = "succeeded" => result[l] \in {"succeeded", "answered"}
    BY <1>2 DEF StatusOf, Results
  <1> HIDE DEF u, status
  <1>11. \A r \in sent : r.update \in Updates /\ (r.update = u => status # "pending")
    BY <1>5, <1>6, <1>10 DEF Claim
  <1>12. RequestsOK'
    BY <1>3, <1>5, <1>6, <1>8, <1>9, <1>10, <1>11
       DEF Core, Records, RequestsOK, remoteVars
  <1>13. RowsOK' /\ UncertainMeansMarked'
    BY <1>3, <1>5, <1>8, <1>9, <1>10
       DEF Core, Records, RowsOK, UncertainMeansMarked
  <1>14. SucceededMeansApplied'
    BY <1>3, <1>5, <1>6, <1>8, <1>9, <1>10
       DEF Core, Records, RequestsOK, SucceededMeansApplied, RequestsOf,
           remoteVars, u
  <1>15. RepliesFollowSuccess'
    BY <1>7, <1>8, <1>9 DEF Core, Records, RepliesFollowSuccess, Claim
  <1> QED
    BY <1>1, <1>3, <1>4, <1>8, <1>9, <1>12, <1>13, <1>14, <1>15
       DEF Records, u, status

LEMMA PersistKeeps ==
    ASSUME Core, NEW l \in Loops, Persist(l) \/ PersistUnacknowledged(l)
    PROVE  Core'
  <1> USE DEF Persist, PersistUnacknowledged, InboxOnly
  <1>1. /\ pc[l] = "persisting"
        /\ Transition(l)
        /\ UNCHANGED <<procVars, remoteVars, replied, faults>>
        /\ UNCHANGED loopVars \/ AfterPersisting(l)
    BY DEF Smooth
  <1>2. /\ InboxTypeOK'
        /\ Records'
        /\ claim[l] \in Claim
        /\ \A u \in Updates :
              /\ inbox'[u].kind = inbox[u].kind
              /\ inbox'[u].attempt = inbox[u].attempt
              /\ inbox'[u].marked = inbox[u].marked
              /\ inbox'[u] = inbox[u] \/ u = claim[l].update
        /\ inbox[claim[l].update].status = "processing"
        /\ inbox[claim[l].update].attempt = claim[l].attempt
        /\ result[l] = "answered"
              => inbox'[claim[l].update].status = "succeeded"
    BY <1>1, TransitionKeeps DEF StatusOf
  <1>3. TypeOK'
    BY <1>1, <1>2
       DEF Core, TypeOK, AfterPersisting, Goto, Moves, LetGo, Locations,
           Results, procVars, remoteVars, loopVars
  <1>4. \A m \in Loops :
           claim[m] # NoClaim => /\ claim[m] \in Claim
                                 /\ claim[m].update \in Updates
    BY DEF Core, TypeOK, Claim
  <1>5. \A m \in Loops \ {l} :
           /\ pc'[m] = pc[m] /\ claim'[m] = claim[m] /\ result'[m] = result[m]
           /\ claim[m] # NoClaim => claim[m] # claim[l]
    BY <1>1, <1>2, NoClaimAssumption
       DEF Core, TypeOK, Workers, ExclusiveAttempts, AfterPersisting, Goto,
           Moves, LetGo, loopVars
  <1>6. \/ /\ pc'[l] = "persisting"
           /\ claim'[l] = claim[l] /\ result'[l] = result[l]
        \/ /\ pc'[l] = "replying" /\ result[l] = "answered"
           /\ claim'[l] = claim[l] /\ result'[l] = result[l]
        \/ pc'[l] = "polling" /\ claim'[l] = NoClaim
    BY <1>1
       DEF Core, TypeOK, AfterPersisting, Goto, Moves, LetGo, loopVars
  <1>7. LoopsOK' /\ ClaimsOK' /\ ExclusiveAttempts'
    BY <1>1, <1>2, <1>4, <1>5, <1>6
       DEF Core, Workers, LoopsOK, ClaimsOK, ExclusiveAttempts, KindOf,
           Holding, Locations
  <1>8. KnowledgeOK'
    BY <1>1, <1>2, <1>4, <1>5, <1>6
       DEF Core, Workers, LoopsOK, KnowledgeOK, KindOf, IsCurrent, Holding,
           Locations, remoteVars
  <1>9. MarkerCoversTheCall'
    <2>1. \A m \in Loops \ {l} :
             pc[m] \in {"calling", "awaiting"}
                 => claim[m].update # claim[l].update
      BY <1>2, <1>4, <1>5
         DEF Core, Workers, LoopsOK, MarkerCoversTheCall, Claim, Holding,
             Locations
    <2> QED
      BY <1>1, <1>2, <1>4, <1>5, <1>6, <2>1
         DEF Core, Workers, LoopsOK, MarkerCoversTheCall, Holding, Locations
  <1> QED
    BY <1>2, <1>3, <1>7, <1>8, <1>9 DEF Core, Workers

-----------------------------------------------------------------------------
(* Steps of the table that no loop takes.                                  *)

\* A row that appears, ages, or is recovered keeps its kind, its attempt and
\* its marker; if it goes back to the queue, it had no marker, so it has no
\* request and no loop that calls Singularity for it.
RowDrifts(u) ==
    /\ inbox'[u].kind = inbox[u].kind
    /\ inbox'[u].attempt = inbox[u].attempt
    /\ inbox'[u].marked = inbox[u].marked
    /\ \/ inbox'[u].status = inbox[u].status
       \/ inbox[u].status = "absent" /\ inbox'[u].status = "pending"
       \/ /\ inbox[u].status = "processing"
          /\ ~inbox[u].marked
          /\ inbox'[u].status = "pending"
       \/ /\ inbox[u].status = "processing"
          /\ inbox[u].marked
          /\ inbox'[u].status = "uncertain"

LEMMA DriftKeeps ==
    ASSUME Core, \A u \in Updates : RowDrifts(u),
           UNCHANGED <<claim, result, remoteVars, replied>>,
           \A l \in Loops : pc'[l] = pc[l] \/ {pc[l], pc'[l]} \cap Holding = {}
    PROVE  Records' /\ Workers'
  <1> USE DEF remoteVars
  <1>1. /\ \A r \in sent \cup replied : r.update \in Updates
        /\ \A l \in Loops : claim[l] # NoClaim => claim[l].update \in Updates
    BY DEF Core, TypeOK, Claim
  <1>2. Records'
    BY <1>1
       DEF Core, RowDrifts, Records, RequestsOK, RowsOK, UncertainMeansMarked,
           SucceededMeansApplied, RepliesFollowSuccess, RequestsOf
  <1>3. LoopsOK' /\ ClaimsOK' /\ ExclusiveAttempts'
    BY <1>1
       DEF Core, RowDrifts, Workers, LoopsOK, ClaimsOK, ExclusiveAttempts,
           KindOf, Holding, Locations
  <1>4. \A l \in Loops :
           pc'[l] \in Holding =>
              /\ pc'[l] = pc[l]
              /\ claim[l].update \in Updates
              /\ RowDrifts(claim[l].update)
    BY <1>1 DEF Core, Workers, LoopsOK
  <1>5. KnowledgeOK'
    BY <1>4
       DEF Core, RowDrifts, Workers, KnowledgeOK, KindOf, IsCurrent, Holding,
           Locations
  <1>6. MarkerCoversTheCall'
    BY <1>4 DEF Core, RowDrifts, Workers, MarkerCoversTheCall, Holding, Locations
  <1> QED
    BY <1>2, <1>3, <1>5, <1>6 DEF Workers

LEMMA RecoveryDrifts ==
    ASSUME InboxTypeOK, RecoverAbandonedUpdates
    PROVE  InboxTypeOK' /\ \A u \in Updates : RowDrifts(u)
  BY RecoveredRows DEF RowDrifts

LEMMA UpdateStepsKeep ==
    ASSUME Core, NEW u \in Updates, UpdateStep(u)
    PROVE  Core'
  <1> USE DEF UpdateStep, Accept, RetryTimePasses, AbandonedClaimExpires,
              LiveClaimExpires
  <1>1. /\ InsertUpdate(u) \/ BecomeDue(u) \/ ClaimExpires(u)
        /\ UNCHANGED <<procVars, loopVars, remoteVars, replied>>
        /\ UNCHANGED faults \/ Adverse
        /\ InboxTypeOK
    BY DEF Core, TypeOK
  <1>2. InboxTypeOK' /\ \A v \in Updates : RowDrifts(v)
    BY <1>1, InsertedRow, AgedRow DEF RowDrifts, OtherRowsUnchanged
  <1>3. TypeOK'
    BY <1>1, <1>2, FaultsAssumption
       DEF Core, TypeOK, procVars, loopVars, remoteVars, Adverse
  <1> QED
    BY <1>1, <1>2, <1>3, DriftKeeps DEF Core, loopVars

LEMMA RecoveryStepsKeep ==
    ASSUME Core, NEW p \in Processes, RecoveryStep(p)
    PROVE  Core'
  <1> USE DEF RecoveryStep, BeginRecovery, Recover, RecoverFails, RecoveryExits,
              GotoRecovery
  <1>1. /\ RecoverAbandonedUpdates \/ UNCHANGED inbox
        /\ UNCHANGED <<proc, loopVars, remoteVars, replied>>
        /\ UNCHANGED faults \/ Adverse
        /\ recovery' \in [Processes -> {"stopped", "waiting", "recovering"}]
    BY DEF Core, TypeOK, Smooth
  <1>2. InboxTypeOK' /\ \A u \in Updates : RowDrifts(u)
    BY <1>1, RecoveryDrifts DEF Core, TypeOK, InboxTypeOK, RowDrifts
  <1>3. TypeOK'
    BY <1>1, <1>2, FaultsAssumption
       DEF Core, TypeOK, loopVars, remoteVars, Adverse
  <1> QED
    BY <1>1, <1>2, <1>3, DriftKeeps DEF Core, loopVars

-----------------------------------------------------------------------------
(* Processes.                                                              *)

\* The loops of p end, and their claims with them; the records stay.
LEMMA EndedLoops ==
    ASSUME Core, NEW p \in Processes, UNCHANGED <<inbox, remoteVars, replied>>,
           EndLoops(p)
    PROVE  Records' /\ Workers'
  <1>1. \A l \in Loops :
           \/ pc'[l] = pc[l] /\ claim'[l] = claim[l] /\ result'[l] = result[l]
           \/ pc'[l] = "stopped" /\ claim'[l] = NoClaim
    BY DEF EndLoops, EndProcessing
  <1>2. Workers'
    BY <1>1
       DEF Core, Workers, LoopsOK, ClaimsOK, ExclusiveAttempts, KnowledgeOK,
           MarkerCoversTheCall, KindOf, IsCurrent, Holding, Locations,
           remoteVars
  <1> QED
    BY <1>2, RecordsUntouched DEF Core

LEMMA ProcessStepsKeep ==
    ASSUME Core, DownMeansStopped, NEW p \in Processes, ProcessStep(p)
    PROVE  Core'
  <1> USE FaultsAssumption
      DEF Core, TypeOK, InboxTypeOK, procVars, loopVars, remoteVars, Smooth,
          Adverse, Locations, Results
  <1>1. CASE StartWorker(p)
    <2>1. InboxTypeOK' /\ \A u \in Updates : RowDrifts(u)
      BY <1>1, RecoveryDrifts DEF StartWorker
    <2>2. /\ pc' \in [Loops -> Locations]
          /\ \A l \in Loops :
                pc'[l] = pc[l] \/ {pc[l], pc'[l]} \cap Holding = {}
      BY <1>1 DEF StartWorker, DownMeansStopped, Holding
    <2>3. TypeOK'
      BY <1>1, <2>1, <2>2 DEF StartWorker
    <2> QED
      BY <1>1, <2>1, <2>2, <2>3, DriftKeeps DEF StartWorker
  <1>2. CASE StartFails(p)
    <2>1. InboxTypeOK' /\ \A u \in Updates : RowDrifts(u)
      BY <1>2, RecoveryDrifts DEF StartFails
    <2> QED
      BY <1>2, <2>1, DriftKeeps DEF StartFails
  <1>3. CASE StopWorker(p)
    BY <1>3, RecordsUntouched, WorkersUntouched DEF StopWorker
  <1>4. CASE ExitWorker(p)
    BY <1>4, RecordsUntouched, WorkersUntouched DEF ExitWorker
  <1>5. CASE GraceExpires(p) \/ Crash(p)
    <2>1. TypeOK'
      BY <1>5 DEF GraceExpires, Crash, EndLoops, EndProcessing, EndProcessing
    <2> QED
      BY <1>5, <2>1, EndedLoops DEF GraceExpires, Crash
  <1> QED
    BY <1>1, <1>2, <1>3, <1>4, <1>5 DEF ProcessStep

-----------------------------------------------------------------------------
(* The invariants of the specification.                                    *)

\* Only processes start and end loops.
LEMMA DownMeansStoppedKept ==
    ASSUME TypeOK, DownMeansStopped, [Next]_vars
    PROVE  DownMeansStopped'
  <1> USE DEF TypeOK, DownMeansStopped
  <1>1. CASE UNCHANGED vars
    BY <1>1 DEF vars, procVars, loopVars
  <1>2. ASSUME NEW l \in Loops, LoopStep(l) PROVE DownMeansStopped'
    <2>1. UNCHANGED proc /\ pc[l] # "stopped"
      BY <1>2
         DEF LoopStep, BeginClaim, ClaimUpdate, ClaimNothing, ClaimFails,
             ReturnClaim, Dispatch, MarkStarted, MarkRefused, MarkFails,
             SendRequest, CallNotSent, CallBreaks, Confirm, Reject, LoseTrack,
             ReadTasks, ReadUnavailable, Persist, PersistUnacknowledged,
             PersistRefused, Reply, LoopExits, AfterPersisting, Moves, Goto,
             Conclude, LetGo, Local, InboxOnly, procVars
    <2>2. \A m \in Loops \ {l} : pc'[m] = pc[m]
      BY <1>2
         DEF LoopStep, BeginClaim, ClaimUpdate, ClaimNothing, ClaimFails,
             ReturnClaim, Dispatch, MarkStarted, MarkRefused, MarkFails,
             SendRequest, CallNotSent, CallBreaks, Confirm, Reject, LoseTrack,
             ReadTasks, ReadUnavailable, Persist, PersistUnacknowledged,
             PersistRefused, Reply, LoopExits, AfterPersisting, Moves, Goto,
             Conclude, LetGo, loopVars
    <2> QED
      BY <2>1, <2>2
  <1>3. ASSUME NEW p \in Processes, RecoveryStep(p) PROVE DownMeansStopped'
    BY <1>3 DEF RecoveryStep, BeginRecovery, Recover, RecoverFails,
                RecoveryExits, loopVars
  <1>4. ASSUME NEW p \in Processes, ProcessStep(p) PROVE DownMeansStopped'
    <2>1. \A l \in Loops : l[1] \in Processes
      BY DEF Loops
    <2>2. CASE StartWorker(p)
      BY <2>1, <2>2 DEF StartWorker
    <2>3. CASE GraceExpires(p) \/ Crash(p)
      BY <2>1, <2>3 DEF GraceExpires, Crash, EndLoops, EndProcessing, EndProcessing
    <2>4. CASE ExitWorker(p)
      BY <2>1, <2>4 DEF ExitWorker, Finished, LoopsOf, loopVars
    <2>5. CASE StartFails(p) \/ StopWorker(p)
      BY <2>1, <2>5 DEF StartFails, StopWorker, loopVars, procVars
    <2> QED
      BY <1>4, <2>2, <2>3, <2>4, <2>5 DEF ProcessStep
  <1>5. ASSUME NEW u \in Updates, UpdateStep(u) PROVE DownMeansStopped'
    BY <1>5 DEF UpdateStep, Accept, RetryTimePasses, AbandonedClaimExpires,
                LiveClaimExpires, loopVars, procVars
  <1>6. ASSUME NEW request \in sent, CreateTask(request) \/ RefuseTask(request)
        PROVE  DownMeansStopped'
    BY <1>6 DEF CreateTask, RefuseTask, loopVars, procVars
  <1> QED
    BY <1>1, <1>2, <1>3, <1>4, <1>5, <1>6 DEF Next

LEMMA CoreKept ==
    ASSUME Core, DownMeansStopped, [Next]_vars
    PROVE  Core'
  <1>1. CASE UNCHANGED vars
    <2>1. TypeOK'
      BY <1>1 DEF Core, TypeOK, InboxTypeOK, vars, procVars, loopVars, remoteVars
    <2> QED
      BY <1>1, <2>1, RecordsUntouched, WorkersUntouched DEF Core, vars
  <1>2. ASSUME NEW l \in Loops, LoopStep(l) PROVE Core'
    BY <1>2, LocalStepsKeep, ClaimUpdateKeeps, ClaimFailsKeeps, MarkStartedKeeps,
       MarkFailsKeeps, SendRequestKeeps, PersistKeeps, ReplyKeeps
       DEF LoopStep, LocalStep
  <1>3. ASSUME NEW p \in Processes, RecoveryStep(p) \/ ProcessStep(p) PROVE Core'
    BY <1>3, RecoveryStepsKeep, ProcessStepsKeep
  <1>4. ASSUME NEW u \in Updates, UpdateStep(u) PROVE Core'
    BY <1>4, UpdateStepsKeep
  <1>5. ASSUME NEW request \in sent, CreateTask(request) \/ RefuseTask(request)
        PROVE  Core'
    BY <1>5, SingularityKeeps
  <1> QED
    BY <1>1, <1>2, <1>3, <1>4, <1>5 DEF Next

\* The inductive invariant holds of every behaviour of the workers.
THEOREM Invariance == Spec => []IInv
  <1>1. Init => IInv
    BY InitEstablishes DEF Init, IInv, DownMeansStopped
  <1>2. IInv /\ [Next]_vars => IInv'
    BY CoreKept, DownMeansStoppedKept DEF IInv, Core
  <1> QED
    BY <1>1, <1>2, PTL DEF Spec

\* Every variable keeps its type.
THEOREM TypeCorrect == Spec => []TypeOK
  <1>1. IInv => TypeOK
    BY DEF IInv, Core
  <1> QED
    BY <1>1, Invariance, PTL

\* A message is never captured twice: however often its update is claimed,
\* recovered or rescheduled, one attempt at most sends a creation request.
THEOREM CapturedAtMostOnce == Spec => []AtMostOneRequest
  <1>1. IInv => AtMostOneRequest
    BY DEF IInv, Core, TypeOK, Records, RequestsOK, AtMostOneRequest, Claim
  <1> QED
    BY <1>1, Invariance, PTL

\* A row that can be claimed again never had a request.
THEOREM RetriesAreSafe == Spec => []NoBlindRetry
  <1>1. IInv => NoBlindRetry
    BY DEF IInv, Core, Records, RequestsOK, NoBlindRetry, RequestsOf
  <1> QED
    BY <1>1, Invariance, PTL

\* succeeded is true of every capture.
THEOREM SuccessIsTrue == Spec => []SucceededMeansApplied
  <1>1. IInv => SucceededMeansApplied
    BY DEF IInv, Core, Records
  <1> QED
    BY <1>1, Invariance, PTL

\* failed is true of every update, for good.
THEOREM FailureIsTrue == Spec => []FailedMeansRefused
  <1>1. IInv => FailedMeansRefused
    BY DEF IInv, Core, Records, RequestsOK, FailedMeansRefused, RequestsOf
  <1> QED
    BY <1>1, Invariance, PTL

\* uncertain is left to captures that had passed the marker.
THEOREM UncertainIsReserved == Spec => []UncertainMeansMarked
  <1>1. IInv => UncertainMeansMarked
    BY DEF IInv, Core, Records
  <1> QED
    BY <1>1, Invariance, PTL

\* No call without the marker of its own attempt.
THEOREM CallsAreCovered == Spec => []MarkerCoversTheCall
  <1>1. IInv => MarkerCoversTheCall
    BY DEF IInv, Core, Workers
  <1> QED
    BY <1>1, Invariance, PTL

\* No two loops share an attempt.
THEOREM AttemptsAreExclusive == Spec => []ExclusiveAttempts
  <1>1. IInv => ExclusiveAttempts
    BY DEF IInv, Core, Workers
  <1> QED
    BY <1>1, Invariance, PTL

\* Replies come after a recorded success only.
THEOREM RepliesAreTrue == Spec => []RepliesFollowSuccess
  <1>1. IInv => RepliesFollowSuccess
    BY DEF IInv, Core, Records
  <1> QED
    BY <1>1, Invariance, PTL
=============================================================================
