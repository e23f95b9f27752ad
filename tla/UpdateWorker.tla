---------------------------- MODULE UpdateWorker ----------------------------
(***************************************************************************)
(* The worker processes of the bot on one inbox: every process runs a set  *)
(* of processing loops and a recovery loop, claims updates, dispatches     *)
(* them to the capture and /next handlers, calls Singularity and records   *)
(* the outcome under the fence of the attempt.                             *)
(*                                                                         *)
(* A step is what happens between two awaits that other actors can see.    *)
(* A transaction that fails before its commit and is tried again changes   *)
(* nothing: those failures are the stuttering steps of this module.  What  *)
(* fails after its commit (a lost acknowledgement) is an action.           *)
(***************************************************************************)
EXTENDS Inbox, FiniteSets

CONSTANTS Processes,      \* worker processes
          Slots,          \* names of the processing loops of one process
          MaxFaults,      \* bound on the adverse events of a behaviour
          NoClaim

ASSUME FaultsAssumption == MaxFaults \in Nat
ASSUME NoClaimAssumption == NoClaim \notin Claim
ASSUME SlotsAssumption == IsFiniteSet(Slots)

Loops == Processes \X Slots
LoopsOf(p) == {l \in Loops : l[1] = p}

VARIABLES
  proc,       \* the state of each process
  recovery,   \* the recovery loop of each process
  pc,         \* where each processing loop is
  claim,      \* the update a loop is processing, and under which attempt
  result,     \* the outcome a loop has to persist
  sent,       \* creation requests that left a worker, named by their attempt
  applied,    \* those that created a task in Singularity
  refused,    \* those that never will
  replied,    \* attempts whose answer reached the chat
  faults      \* adverse events so far

loopVars == <<pc, claim, result>>
remoteVars == <<sent, applied, refused>>
procVars == <<proc, recovery>>
vars == <<inbox, procVars, loopVars, remoteVars, replied, faults>>

\* calling: the marker is committed, the request not yet handed over.
\* awaiting: the request may be on its way, its answer is not here.
Locations == { "stopped", "polling", "claiming", "claimed", "marking",
               "calling", "awaiting", "reading", "persisting", "replying" }

\* answered: success with a reply to send once the success is recorded.
Results == { "none", "reschedule", "failed", "uncertain", "succeeded",
             "answered" }

TypeOK ==
    /\ InboxTypeOK
    /\ proc \in [Processes -> {"down", "running", "stopping"}]
    /\ recovery \in [Processes -> {"stopped", "waiting", "recovering"}]
    /\ pc \in [Loops -> Locations]
    /\ claim \in [Loops -> Claim \cup {NoClaim}]
    /\ result \in [Loops -> Results]
    /\ sent \in SUBSET Claim
    /\ applied \in SUBSET Claim
    /\ refused \in SUBSET Claim
    /\ replied \in SUBSET Claim
    /\ faults \in Nat

Init ==
    /\ InboxInit
    /\ proc = [p \in Processes |-> "down"]
    /\ recovery = [p \in Processes |-> "stopped"]
    /\ pc = [l \in Loops |-> "stopped"]
    /\ claim = [l \in Loops |-> NoClaim]
    /\ result = [l \in Loops |-> "none"]
    /\ sent = {} /\ applied = {} /\ refused = {} /\ replied = {}
    /\ faults = 0

Running(l) == proc[l[1]] = "running"
Stopping(l) == proc[l[1]] = "stopping"

KindOf(l) == inbox[claim[l].update].kind

Adverse == faults < MaxFaults /\ faults' = faults + 1
Smooth == UNCHANGED faults

\* What a step of a loop leaves alone, unless it says otherwise.
Local == UNCHANGED <<inbox, procVars, remoteVars, replied>>
InboxOnly == UNCHANGED <<procVars, remoteVars, replied>>

Moves(l, from, to) == pc[l] = from /\ pc' = [pc EXCEPT ![l] = to]

Goto(l, from, to) == Moves(l, from, to) /\ UNCHANGED <<claim, result>>

Conclude(l, from, outcome) ==
    /\ Moves(l, from, "persisting")
    /\ result' = [result EXCEPT ![l] = outcome]
    /\ UNCHANGED claim

LetGo(l, to) ==
    /\ pc' = [pc EXCEPT ![l] = to]
    /\ claim' = [claim EXCEPT ![l] = NoClaim]
    /\ result' = [result EXCEPT ![l] = "none"]

-----------------------------------------------------------------------------
(* The webhook process, as far as the workers see it.                      *)

Accept(u) ==
    /\ InsertUpdate(u)
    /\ UNCHANGED <<procVars, loopVars, remoteVars, replied, faults>>

-----------------------------------------------------------------------------
(* Claiming.                                                               *)

\* Mutant: the stop event is not looked at between two updates.
BeginClaimRegardless(l) ==
    /\ Goto(l, "polling", "claiming")
    /\ Smooth /\ Local

BeginClaim(l) ==
    /\ Running(l)
    /\ Goto(l, "polling", "claiming")
    /\ Smooth /\ Local

\* The claim transaction was under way; it commits whatever happened to the
\* stop event since.
ClaimUpdate(l, u) ==
    /\ Moves(l, "claiming", "claimed")
    /\ ClaimPendingUpdate(u)
    /\ claim' = [claim EXCEPT ![l] =
                   [update |-> u, attempt |-> inbox'[u].attempt]]
    /\ Smooth
    /\ UNCHANGED <<procVars, result, remoteVars, replied>>

ClaimNothing(l) ==
    /\ \A u \in Updates : ~Claimable(u)
    /\ Goto(l, "claiming", "polling")
    /\ Smooth /\ Local

\* The query fails, or every due row is locked by claims that roll back, or
\* the commit is acknowledged to nobody and the claim has no worker.
ClaimFails(l) ==
    /\ Adverse
    /\ Goto(l, "claiming", "polling")
    /\ UNCHANGED inbox \/ \E u \in Updates : ClaimPendingUpdate(u)
    /\ InboxOnly

\* The stop event was set while the claim was under way.
ReturnClaim(l) ==
    /\ Stopping(l)
    /\ Conclude(l, "claimed", "reschedule")
    /\ Smooth /\ Local

-----------------------------------------------------------------------------
(* Dispatching a claimed update to its handler.                            *)

\* Mutant: the stop event is not looked at again once the claim has returned.
DispatchRegardless(l) ==
    /\ \/ Goto(l, "claimed", "marking") /\ KindOf(l) = "capture"
       \/ Goto(l, "claimed", "reading") /\ KindOf(l) = "next_action"
       \/ Conclude(l, "claimed", "succeeded") /\ KindOf(l) = "ignored"
       \/ Conclude(l, "claimed", "failed") /\ KindOf(l) = "invalid"
    /\ Smooth /\ Local

\* _process_update: validation, then the filters of the handlers.
Dispatch(l) ==
    /\ Running(l)
    /\ \/ Goto(l, "claimed", "marking") /\ KindOf(l) = "capture"
       \/ Goto(l, "claimed", "reading") /\ KindOf(l) = "next_action"
       \/ Conclude(l, "claimed", "succeeded") /\ KindOf(l) = "ignored"
       \/ Conclude(l, "claimed", "failed") /\ KindOf(l) = "invalid"
    /\ Smooth /\ Local

-----------------------------------------------------------------------------
(* The capture handler: commit the marker, then create the task.           *)

MarkStarted(l) ==
    /\ Goto(l, "marking", "calling")
    /\ MarkExternalMutationStarted(claim[l])
    /\ Smooth /\ InboxOnly

\* Mutant: the stale marker is logged and the handler goes on.
MarkRefusedButCalls(l) ==
    /\ Goto(l, "marking", "calling")
    /\ ~CanMark(claim[l])
    /\ Smooth /\ Local

\* The attempt was recovered meanwhile: UpdateTransitionError, which the
\* attempt object turns into MutationMarkerPersistenceError.
MarkRefused(l) ==
    /\ Conclude(l, "marking", "reschedule")
    /\ ~CanMark(claim[l])
    /\ Smooth /\ Local

\* The database fails before the commit, or after it.
MarkFails(l) ==
    /\ Adverse
    /\ Conclude(l, "marking", "reschedule")
    /\ UNCHANGED inbox \/ MarkExternalMutationStarted(claim[l])
    /\ InboxOnly

SendRequest(l) ==
    /\ Goto(l, "calling", "awaiting")
    /\ sent' = sent \cup {claim[l]}
    /\ Smooth
    /\ UNCHANGED <<inbox, procVars, applied, refused, replied>>

\* No connection: the only failure the client knows to precede the request.
CallNotSent(l) ==
    /\ Adverse
    /\ Conclude(l, "calling", "reschedule")
    /\ Local

\* Any other exception once the marker is set.
CallBreaks(l) ==
    /\ Conclude(l, "calling", "uncertain")
    /\ Smooth /\ Local

\* A 2xx answer; without a reply when its body cannot be used.
Confirm(l) ==
    /\ \E r \in {"answered", "succeeded"} : Conclude(l, "awaiting", r)
    /\ claim[l] \in applied
    /\ Smooth /\ Local

\* A 4xx answer.
Reject(l) ==
    /\ Conclude(l, "awaiting", "failed")
    /\ claim[l] \in refused
    /\ Smooth /\ Local

\* Mutants: an unknown outcome is retried, taken for success, for failure.
LoseTrackRetries(l) ==
    /\ Conclude(l, "awaiting", "reschedule")
    /\ Smooth /\ Local

LoseTrackSucceeds(l) ==
    /\ Conclude(l, "awaiting", "succeeded")
    /\ Smooth /\ Local

LoseTrackFails(l) ==
    /\ Conclude(l, "awaiting", "failed")
    /\ Smooth /\ Local

\* Any other answer, a timeout or a broken connection, whatever became of the
\* request.
LoseTrack(l) ==
    /\ Conclude(l, "awaiting", "uncertain")
    /\ Smooth /\ Local

-----------------------------------------------------------------------------
(* Singularity, which serves a request once and whenever it likes, also    *)
(* after the worker that sent it gave up or died.                          *)

InFlight == sent \ (applied \cup refused)

CreateTask(request) ==
    /\ request \in InFlight
    /\ applied' = applied \cup {request}
    /\ UNCHANGED <<inbox, procVars, loopVars, sent, refused, replied, faults>>

RefuseTask(request) ==
    /\ request \in InFlight
    /\ refused' = refused \cup {request}
    /\ UNCHANGED <<inbox, procVars, loopVars, sent, applied, replied, faults>>

-----------------------------------------------------------------------------
(* The /next handler only reads.                                           *)

ReadTasks(l) ==
    /\ \E r \in {"answered", "failed"} : Conclude(l, "reading", r)
    /\ Smooth /\ Local

ReadUnavailable(l) ==
    /\ Adverse
    /\ Conclude(l, "reading", "reschedule")
    /\ Local

-----------------------------------------------------------------------------
(* Recording the outcome, again and again until the database answers.      *)

StatusOf(outcome) == IF outcome = "answered" THEN "succeeded" ELSE outcome

Transition(l) == IF result[l] = "reschedule"
                 THEN Reschedule(claim[l])
                 ELSE MarkTerminal(claim[l], StatusOf(result[l]))

AfterPersisting(l) ==
    IF result[l] = "answered"
    THEN Goto(l, "persisting", "replying")
    ELSE LetGo(l, "polling")

Persist(l) ==
    /\ pc[l] = "persisting"
    /\ Transition(l)
    /\ AfterPersisting(l)
    /\ Smooth /\ InboxOnly

\* The commit is not acknowledged: the loop tries again.
PersistUnacknowledged(l) ==
    /\ pc[l] = "persisting"
    /\ Transition(l)
    /\ UNCHANGED <<procVars, loopVars, remoteVars, replied, faults>>

\* Mutant: the refused transition is logged and the reply sent.
PersistRefusedButReplies(l) ==
    /\ pc[l] = "persisting"
    /\ ~IsCurrent(claim[l])
    /\ AfterPersisting(l)
    /\ Smooth /\ Local

\* UpdateTransitionError: the row is no longer this attempt's.  The outcome is
\* logged and dropped.  A claim that goes back because of the stop event is
\* outside that try: there the error ends the task of the loop, which would
\* have stopped at "polling" without another step; the process goes on to stop
\* either way.
PersistRefused(l) ==
    /\ pc[l] = "persisting"
    /\ ~IsCurrent(claim[l])
    /\ LetGo(l, "polling")
    /\ Smooth /\ Local

\* Best effort: a reply that fails is logged.
Reply(l) ==
    /\ pc[l] = "replying"
    /\ LetGo(l, "polling")
    /\ replied' \in {replied, replied \cup {claim[l]}}
    /\ Smooth
    /\ UNCHANGED <<inbox, procVars, remoteVars>>

-----------------------------------------------------------------------------
(* The recovery loop.                                                      *)

GotoRecovery(p, from, to) ==
    /\ recovery[p] = from
    /\ recovery' = [recovery EXCEPT ![p] = to]

BeginRecovery(p) ==
    /\ proc[p] = "running"
    /\ GotoRecovery(p, "waiting", "recovering")
    /\ Smooth
    /\ UNCHANGED <<inbox, proc, loopVars, remoteVars, replied>>

Recover(p) ==
    /\ GotoRecovery(p, "recovering", "waiting")
    /\ RecoverAbandonedUpdates
    /\ Smooth
    /\ UNCHANGED <<proc, loopVars, remoteVars, replied>>

RecoverFails(p) ==
    /\ Adverse
    /\ GotoRecovery(p, "recovering", "waiting")
    /\ UNCHANGED <<inbox, proc, loopVars, remoteVars, replied>>

-----------------------------------------------------------------------------
(* Processes.                                                              *)

\* start: one recovery pass, then the loops.
StartWorker(p) ==
    /\ proc[p] = "down"
    /\ RecoverAbandonedUpdates
    /\ proc' = [proc EXCEPT ![p] = "running"]
    /\ recovery' = [recovery EXCEPT ![p] = "waiting"]
    /\ pc' = [l \in Loops |-> IF l[1] = p THEN "polling" ELSE pc[l]]
    /\ Smooth
    /\ UNCHANGED <<claim, result, remoteVars, replied>>

\* The initial recovery raises after its commit: the process ends.
StartFails(p) ==
    /\ proc[p] = "down"
    /\ RecoverAbandonedUpdates
    /\ UNCHANGED <<procVars, loopVars, remoteVars, replied, faults>>

StopWorker(p) ==
    /\ Adverse
    /\ proc[p] = "running"
    /\ proc' = [proc EXCEPT ![p] = "stopping"]
    /\ UNCHANGED <<inbox, recovery, loopVars, remoteVars, replied>>

LoopExits(l) ==
    /\ Stopping(l)
    /\ Goto(l, "polling", "stopped")
    /\ Smooth /\ Local

RecoveryExits(p) ==
    /\ proc[p] = "stopping"
    /\ GotoRecovery(p, "waiting", "stopped")
    /\ Smooth
    /\ UNCHANGED <<inbox, proc, loopVars, remoteVars, replied>>

\* Every loop of p ends where it is, its claim with it.
EndProcessing(p) ==
    /\ pc' = [l \in Loops |-> IF l[1] = p THEN "stopped" ELSE pc[l]]
    /\ claim' = [l \in Loops |-> IF l[1] = p THEN NoClaim ELSE claim[l]]
    /\ result' = [l \in Loops |-> IF l[1] = p THEN "none" ELSE result[l]]

EndLoops(p) ==
    /\ EndProcessing(p)
    /\ recovery' = [recovery EXCEPT ![p] = "stopped"]

Finished(p) == recovery[p] = "stopped" /\ \A l \in LoopsOf(p) : pc[l] = "stopped"

\* Mutant: only the processing loops are cancelled.
GraceExpiresForLoops(p) ==
    /\ proc[p] = "stopping"
    /\ \E l \in LoopsOf(p) : pc[l] # "stopped"
    /\ EndProcessing(p) /\ UNCHANGED recovery
    /\ Smooth
    /\ UNCHANGED <<inbox, proc, remoteVars, replied>>

\* The grace period is over: what has not finished is cancelled.
GraceExpires(p) ==
    /\ proc[p] = "stopping"
    /\ ~Finished(p)
    /\ EndLoops(p)
    /\ Smooth
    /\ UNCHANGED <<inbox, proc, remoteVars, replied>>

\* Mutant: the process leaves without waiting for its loops.
ExitWorkerAtOnce(p) ==
    /\ proc[p] = "stopping"
    /\ proc' = [proc EXCEPT ![p] = "down"]
    /\ Smooth
    /\ UNCHANGED <<inbox, recovery, loopVars, remoteVars, replied>>

ExitWorker(p) ==
    /\ proc[p] = "stopping"
    /\ Finished(p)
    /\ proc' = [proc EXCEPT ![p] = "down"]
    /\ Smooth
    /\ UNCHANGED <<inbox, recovery, loopVars, remoteVars, replied>>

Crash(p) ==
    /\ Adverse
    /\ proc[p] # "down"
    /\ proc' = [proc EXCEPT ![p] = "down"]
    /\ EndLoops(p)
    /\ UNCHANGED <<inbox, remoteVars, replied>>

-----------------------------------------------------------------------------
(* Time.                                                                   *)

RetryTimePasses(u) ==
    /\ BecomeDue(u)
    /\ UNCHANGED <<procVars, loopVars, remoteVars, replied, faults>>

Held(u) == \E l \in Loops :
              claim[l] = [update |-> u, attempt |-> inbox[u].attempt]

AbandonedClaimExpires(u) ==
    /\ ~Held(u)
    /\ ClaimExpires(u)
    /\ UNCHANGED <<procVars, loopVars, remoteVars, replied, faults>>

\* The claim times out under a loop that still works on it.
LiveClaimExpires(u) ==
    /\ Adverse
    /\ Held(u)
    /\ ClaimExpires(u)
    /\ UNCHANGED <<procVars, loopVars, remoteVars, replied>>

-----------------------------------------------------------------------------
LoopStep(l) ==
    \/ BeginClaim(l) \/ ClaimNothing(l) \/ ClaimFails(l) \/ ReturnClaim(l)
    \/ \E u \in Updates : ClaimUpdate(l, u)
    \/ Dispatch(l)
    \/ MarkStarted(l) \/ MarkRefused(l) \/ MarkFails(l)
    \/ SendRequest(l) \/ CallNotSent(l) \/ CallBreaks(l)
    \/ Confirm(l) \/ Reject(l) \/ LoseTrack(l)
    \/ ReadTasks(l) \/ ReadUnavailable(l)
    \/ Persist(l) \/ PersistUnacknowledged(l) \/ PersistRefused(l) \/ Reply(l)
    \/ LoopExits(l)

RecoveryStep(p) ==
    BeginRecovery(p) \/ Recover(p) \/ RecoverFails(p) \/ RecoveryExits(p)

ProcessStep(p) ==
    \/ StartWorker(p) \/ StartFails(p) \/ StopWorker(p)
    \/ GraceExpires(p) \/ ExitWorker(p) \/ Crash(p)

UpdateStep(u) ==
    \/ Accept(u) \/ RetryTimePasses(u)
    \/ AbandonedClaimExpires(u) \/ LiveClaimExpires(u)

Next ==
    \/ \E l \in Loops : LoopStep(l)
    \/ \E p \in Processes : RecoveryStep(p) \/ ProcessStep(p)
    \/ \E u \in Updates : UpdateStep(u)
    \/ \E request \in sent : CreateTask(request) \/ RefuseTask(request)

Spec == Init /\ [][Next]_vars

-----------------------------------------------------------------------------
(* Liveness.                                                               *)

\* Loops and recovery loops keep running, a call ends by its answer or its
\* timeout, the database works again after the bounded failures, a supervisor
\* restarts a process that ended, and time passes.
Fairness ==
    /\ \A l \in Loops : WF_vars(LoopStep(l))
    /\ \A p \in Processes :
          /\ WF_vars(RecoveryStep(p))
          /\ WF_vars(StartWorker(p))
          /\ WF_vars(GraceExpires(p) \/ ExitWorker(p))
    /\ \A u \in Updates :
          WF_vars(RetryTimePasses(u)) /\ WF_vars(AbandonedClaimExpires(u))

FairSpec == Spec /\ Fairness

\* Nothing is assumed of the loops, the database or Singularity: only that the
\* grace period ends and that a process without tasks leaves.
ShutdownSpec ==
    Spec /\ \A p \in Processes : WF_vars(GraceExpires(p)) /\ WF_vars(ExitWorker(p))
=============================================================================
