------------------------- MODULE UpdateWorkerProps -------------------------
(* What the workers must and must not do, whatever fails and however they  *)
(* interleave.                                                             *)
EXTENDS UpdateWorker

(* Safety.                                                                 *)

RequestsOf(u) == {r \in sent : r.update = u}

\* However an update is claimed, recovered, rescheduled or abandoned, at most
\* one of its attempts ever sends a creation request: a message is never
\* captured twice.
AtMostOneRequest == \A r, s \in sent : r.update = s.update => r = s

\* A row that a worker may claim has never had a request: what is retried,
\* by the worker or by recovery, is known not to have been sent.
NoBlindRetry ==
    \A u \in Updates :
        inbox[u].status \in {"absent", "pending"} => RequestsOf(u) = {}

\* A captured message recorded as succeeded has its task in Singularity.
SucceededMeansApplied ==
    \A u \in Updates :
        inbox[u].status = "succeeded" /\ inbox[u].kind = "capture"
            => RequestsOf(u) \cap applied # {}

\* A failed update has no task, and no request that could still create one.
FailedMeansRefused ==
    \A u \in Updates :
        inbox[u].status = "failed" => RequestsOf(u) \subseteq refused

\* uncertain is reserved for captures that had passed the mutation marker.
UncertainMeansMarked ==
    \A u \in Updates :
        inbox[u].status = "uncertain"
            => inbox[u].marked /\ inbox[u].kind = "capture"

\* While a handler calls Singularity, its row either still carries the marker
\* of this very attempt or was closed as uncertain: nobody else can have it.
MarkerCoversTheCall ==
    \A l \in Loops :
        pc[l] \in {"calling", "awaiting"} =>
            LET row == inbox[claim[l].update] IN
            /\ row.marked
            /\ row.attempt = claim[l].attempt
            /\ row.status \in {"processing", "uncertain"}

\* An attempt that still owns its row can set its marker: none was left by an
\* earlier attempt that was given back or recovered, or set by another loop.
MarkersAreFresh ==
    \A l \in Loops :
        pc[l] \in {"claimed", "marking"} /\ IsCurrent(claim[l])
            => CanMark(claim[l])

\* Two loops, of one process or of two, never work on the same attempt.
ExclusiveAttempts ==
    \A l, m \in Loops :
        claim[l] # NoClaim /\ claim[l] = claim[m] => l = m

\* A chat is answered only for an update whose success is recorded, by the
\* attempt that recorded it: once.
RepliesFollowSuccess ==
    \A c \in replied :
        /\ inbox[c.update].status = "succeeded"
        /\ inbox[c.update].attempt = c.attempt

\* Nothing is tried again without cause.  The code knows no attempt limit;
\* what limits the attempts of an update is that each but the first is owed to
\* an adverse event, and that an event costs it no more attempts than a
\* process has loops: those that claim it, one after the other, while their
\* process stops, and give it back.
AttemptsAreOwed ==
    \A u \in Updates : inbox[u].attempt <= 1 + Cardinality(Slots) * faults

-----------------------------------------------------------------------------
(* What no step may do.                                                    *)

\* A terminal row never changes again, whoever still holds a claim on it.
TerminalIsFinal ==
    [][\A u \in Updates :
          inbox[u].status \in TerminalStatuses => inbox'[u] = inbox[u]]_vars

\* A step of a loop whose attempt was superseded leaves the row alone.
OldAttemptsAreFenced ==
    [][\A l \in Loops :
          /\ pc'[l] # pc[l]
          /\ claim[l] # NoClaim
          /\ claim[l].attempt # inbox[claim[l].update].attempt
          => inbox'[claim[l].update] = inbox[claim[l].update]]_vars

\* Until its claim expires, an attempt has its row to itself: whatever other
\* loops, processes and recovery passes do, the row stays its own, or takes
\* the outcome that this loop has to record.  The two findings below need an
\* expired claim.
UnexpiredClaimsHold ==
    [][\A l \in Loops :
          /\ claim[l] # NoClaim
          /\ IsCurrent(claim[l])
          /\ ~inbox[claim[l].update].expired
          => \/ inbox'[claim[l].update].status = "processing"
             \/ /\ pc[l] = "persisting"
                /\ inbox'[claim[l].update].status =
                      IF result[l] = "reschedule" THEN "pending"
                                                  ELSE StatusOf(result[l])]_vars

\* How far a loop is from its end, in steps that change its place, once its
\* process stops.
StepsLeft(place, outcome) ==
    CASE place = "stopped" -> 0
      [] place = "polling" -> 1
      [] place = "persisting" /\ outcome = "reschedule" -> 2
      [] place = "claimed" -> 3
      [] place = "claiming" -> 4
      [] place = "replying" -> 5
      [] place = "persisting" /\ outcome # "reschedule" -> 6
      [] place \in {"awaiting", "reading"} -> 7
      [] place = "calling" -> 8
      [] place = "marking" -> 9

\* After the stop event a loop only winds down: it finishes the handler it is
\* in, begins no other, claims nothing but what it was claiming, and gives that
\* back unworked.  Every step brings it nearer its end, whatever fails; only
\* the retries of a transition take it nowhere.
StoppingWindsDown ==
    [][\A l \in Loops :
          Stopping(l) /\ pc'[l] # pc[l] =>
              StepsLeft(pc'[l], result'[l]) < StepsLeft(pc[l], result[l])]_vars

-----------------------------------------------------------------------------
(* What the documents say and the code does not keep.                      *)

\* "A confirmed mutation is recorded as succeeded", "the worker does not
\* discard the result": while a loop tries to record a confirmed creation, the
\* row may not be closed as uncertain under it.  Recovery does so when the
\* claim expires before the database takes the result.
ConfirmedIsNotUncertain ==
    [][\A l \in Loops :
          /\ pc[l] = "persisting" /\ pc'[l] = "persisting"
          /\ result[l] \in {"succeeded", "answered"}
          /\ IsCurrent(claim[l])
          => inbox'[claim[l].update].status # "uncertain"]_vars

\* "failures known to occur before a mutation could be sent must not become
\* uncertain": recovery may close so an attempt that waits to be rescheduled.
UnsentIsNotUncertain ==
    [][\A l \in Loops :
          /\ pc[l] = "persisting" /\ pc'[l] = "persisting"
          /\ result[l] = "reschedule"
          /\ IsCurrent(claim[l])
          => inbox'[claim[l].update].status # "uncertain"]_vars

-----------------------------------------------------------------------------
(* The lifecycle of every update, as UpdateLifecycle promises it.          *)

\* What became of the requests of an update.
Effect(requests, done, refusals) ==
    CASE requests = {} -> "none"
      [] requests \cap done # {} -> "applied"
      [] requests # {} /\ requests \subseteq refusals -> "refused"
      [] OTHER -> "issued"

EffectOf(u) == Effect(RequestsOf(u), applied, refused)

Lifecycle == INSTANCE UpdateLifecycle WITH
    captures <- {u \in Updates : inbox[u].kind = "capture"},
    status <- [u \in Updates |-> inbox[u].status],
    effect <- [u \in Updates |-> EffectOf(u)]

\* Every step of workers, recovery, crashes, clocks and Singularity is a step
\* of the lifecycle or leaves it as it is.
ImplementsLifecycle == Lifecycle!Spec

-----------------------------------------------------------------------------
(* Liveness.                                                               *)

\* Whatever is abandoned, lost or retried on the way, an accepted update
\* reaches a terminal status: none stays pending or processing for ever.
UpdatesSettle ==
    \A u \in Updates :
        inbox[u].status = "pending" ~> inbox[u].status \in TerminalStatuses

\* A stop ends, even when the database never answers a loop that persists an
\* outcome without watching the stop event.
ShutdownEnds ==
    \A p \in Processes : proc[p] = "stopping" ~> proc[p] = "down"

-----------------------------------------------------------------------------
(* The inductive invariant behind the safety properties.                   *)

Holding == Locations \ {"stopped", "polling", "claiming"}

\* What a loop holds fits the place it is at.
LoopsOK ==
    \A l \in Loops :
        /\ (claim[l] # NoClaim) <=> (pc[l] \in Holding)
        /\ pc[l] = "persisting" => result[l] # "none"
        /\ pc[l] = "replying" => result[l] = "answered"
        /\ pc[l] \in {"marking", "calling", "awaiting"} => KindOf(l) = "capture"
        /\ pc[l] = "reading" => KindOf(l) = "next_action"

\* A process that is down has no loop left.
DownMeansStopped ==
    \A l \in Loops : proc[l[1]] = "down" => pc[l] = "stopped"

\* No claim is ahead of its row: the next claim gets a fresh attempt.
ClaimsOK ==
    \A l \in Loops :
        claim[l] # NoClaim => claim[l].attempt <= inbox[claim[l].update].attempt

\* What a request tells about its row.
RequestsOK ==
    /\ applied \subseteq sent
    /\ refused \subseteq sent
    /\ applied \cap refused = {}
    /\ \A r \in sent :
          /\ inbox[r.update].attempt = r.attempt
          /\ inbox[r.update].marked
          /\ inbox[r.update].kind = "capture"
          /\ inbox[r.update].status \notin {"absent", "pending"}
          /\ inbox[r.update].status = "failed" => r \in refused

\* What a loop knows about its own request, up to the moment it persists it.
KnowledgeOK ==
    \A l \in Loops :
        /\ pc[l] \in {"claimed", "marking", "reading", "calling"}
              => claim[l] \notin sent
        /\ pc[l] = "awaiting" => claim[l] \in sent
        /\ pc[l] = "persisting" =>
              /\ result[l] = "reschedule" => claim[l] \notin sent
              /\ result[l] = "failed" => claim[l] \notin (sent \ refused)
              /\ result[l] = "uncertain" =>
                    /\ KindOf(l) = "capture"
                    /\ IsCurrent(claim[l]) => inbox[claim[l].update].marked
              /\ result[l] \in {"succeeded", "answered"} =>
                    (KindOf(l) = "capture" => claim[l] \in applied)
        /\ pc[l] = "replying" =>
              /\ inbox[claim[l].update].status = "succeeded"
              /\ inbox[claim[l].update].attempt = claim[l].attempt

\* Rows that carry the marker are captures.
RowsOK ==
    \A u \in Updates :
        inbox[u].status \in {"processing", "uncertain"} /\ inbox[u].marked
            => inbox[u].kind = "capture"

\* What rows and requests say of each other.
Records ==
    /\ RequestsOK
    /\ RowsOK
    /\ UncertainMeansMarked
    /\ SucceededMeansApplied
    /\ RepliesFollowSuccess

\* What a loop may rely on about its row and its request.
Workers ==
    /\ LoopsOK
    /\ ClaimsOK
    /\ ExclusiveAttempts
    /\ KnowledgeOK
    /\ MarkerCoversTheCall

Core == TypeOK /\ Records /\ Workers

\* An attempt that will end with its result, unless an adverse event comes.
Secure(u) ==
    /\ inbox[u].status = "processing"
    /\ ~inbox[u].expired
    /\ \E l \in Loops :
          /\ claim[l] = [update |-> u, attempt |-> inbox[u].attempt]
          /\ Running(l)
          /\ ~(pc[l] = "persisting" /\ result[l] = "reschedule")

\* The attempts an update may still get without another adverse event.
Charge(u) == IF inbox[u].status \in TerminalStatuses \/ Secure(u) THEN 0 ELSE 1

\* Loops that will claim an update only to give it back.
Returning == {l \in Loops : Stopping(l) /\ pc[l] = "claiming"}

\* The attempts of an update, made or to be expected, are paid for.
AttemptsCharged ==
    /\ IsFiniteSet(Returning)
    /\ \A u \in Updates :
          inbox[u].attempt + Charge(u) + Cardinality(Returning)
              <= 1 + Cardinality(Slots) * faults

\* Types, what rows and requests say of each other, what each loop relies on,
\* and no loop in a process that is down: together they are inductive.
IInv == Core /\ DownMeansStopped
=============================================================================
