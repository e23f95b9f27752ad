--------------------------- MODULE WorkerProcess ---------------------------
(***************************************************************************)
(* The life of a worker process: startup, the watch for a signal or for    *)
(* the failure of a loop, the stop of the loops and the closing of what    *)
(* they use.                                                               *)
(*                                                                         *)
(* All of it runs on one asyncio event loop, whose callbacks run in the    *)
(* order they were scheduled: ready is that queue, as far as it concerns   *)
(* the watch.  Which of two events the watch sees depends on it.           *)
(***************************************************************************)
EXTENDS Naturals, Sequences

CONSTANT Loops            \* the processing loops and the recovery loop

VARIABLES phase,          \* where run_telegram_update_worker is
          loops,
          watch,          \* the two tasks of the watch
          resolved,       \* the wait for the first of them is over
          shutdown_event,
          ready,
          raised,         \* the exceptions on their way out, chained
          closed          \* what was told to close

pvars == <<phase, loops, watch, resolved, shutdown_event, ready, raised, closed>>

ASSUME LoopsAssumption == Loops # {}

\* Closed in this order.
Resources == {"dispatcher", "session", "client", "engine"}

Phases == {"startup", "recovery", "watch", "watched", "stop", "grace", "cancelled",
           "ended"} \cup Resources

NextPhase == [ dispatcher |-> "session", session |-> "client",
               client |-> "engine", engine |-> "ended" ]

\* ended    its task has ended after the stop event was set
\* failed   its task has ended before, by an exception or otherwise
LoopStates == {"none", "running", "failed", "ended"}

\* woken    what it waits for has happened; it has not run yet
TaskStates == {"none", "starting", "waiting", "woken", "done", "cancelled"}

Callbacks == {"set_event", "shutdown_starts", "shutdown_runs", "shutdown_done",
              "worker_starts", "loop_done", "worker_runs", "worker_done", "watch_runs"}

ProcessInit ==
    /\ phase = "startup"
    /\ loops = [l \in Loops |-> "none"]
    /\ watch = [shutdown |-> "none", worker |-> "none"]
    /\ resolved = FALSE
    /\ shutdown_event = FALSE
    /\ ready = <<>>
    /\ raised = {}
    /\ closed = {}

-----------------------------------------------------------------------------
\* Startup.

EmitStartup ==
    /\ phase = "startup"
    /\ phase' = "recovery"
    /\ UNCHANGED <<loops, watch, resolved, shutdown_event, ready, raised, closed>>

\* The worker was not started: it is not stopped.
StartupFails ==
    /\ phase = "startup"
    /\ phase' = "dispatcher"
    /\ raised' = raised \cup {"startup"}
    /\ UNCHANGED <<loops, watch, resolved, shutdown_event, ready, closed>>

\* The initial recovery is over: the loops start, and the watch.
StartWorker ==
    /\ phase = "recovery"
    /\ phase' = "watch"
    /\ loops' = [l \in Loops |-> "running"]
    /\ watch' = [shutdown |-> "starting", worker |-> "starting"]
    /\ ready' = ready \o <<"shutdown_starts", "worker_starts">>
    /\ UNCHANGED <<resolved, shutdown_event, raised, closed>>

\* Mutant: the loops are created first.
StartFailsLate ==
    /\ phase = "recovery"
    /\ phase' = "stop"
    /\ loops' = [l \in Loops |-> "running"]
    /\ raised' = raised \cup {"recovery"}
    /\ UNCHANGED <<watch, resolved, shutdown_event, ready, closed>>

StartFails ==
    /\ phase = "recovery"
    /\ phase' = "stop"
    /\ raised' = raised \cup {"recovery"}
    /\ UNCHANGED <<loops, watch, resolved, shutdown_event, ready, closed>>

-----------------------------------------------------------------------------
\* The event loop.

Queued(callback) == \E i \in DOMAIN ready : ready[i] = callback

\* A second signal sets an event that is set.
Signal ==
    /\ phase # "ended"
    /\ ~shutdown_event
    /\ ~Queued("set_event")
    /\ ready' = Append(ready, "set_event")
    /\ UNCHANGED <<phase, loops, watch, resolved, shutdown_event, raised, closed>>

\* A loop ends although nobody asked it to.
LoopFails(l) ==
    /\ phase \in {"watch", "watched"}
    /\ loops[l] = "running"
    /\ loops' = [loops EXCEPT ![l] = "failed"]
    /\ ready' = IF watch.worker = "waiting" /\ ~Queued("loop_done")
                THEN Append(ready, "loop_done") ELSE ready
    /\ UNCHANGED <<phase, watch, resolved, shutdown_event, raised, closed>>

\* The first callback in the queue runs and schedules others.
Run(callback, scheduled) ==
    /\ ready # <<>>
    /\ Head(ready) = callback
    /\ ready' = Tail(ready) \o scheduled

SetEvent ==
    /\ shutdown_event' = TRUE
    /\ IF watch.shutdown = "waiting"
       THEN /\ Run("set_event", <<"shutdown_runs">>)
            /\ watch' = [watch EXCEPT !.shutdown = "woken"]
       ELSE Run("set_event", <<>>) /\ UNCHANGED watch
    /\ UNCHANGED <<phase, loops, resolved, raised, closed>>

\* shutdown_event.wait() returns at once when the event is set.
ShutdownTaskStarts ==
    /\ watch.shutdown = "starting"
    /\ IF shutdown_event
       THEN /\ Run("shutdown_starts", <<"shutdown_done">>)
            /\ watch' = [watch EXCEPT !.shutdown = "done"]
       ELSE /\ Run("shutdown_starts", <<>>)
            /\ watch' = [watch EXCEPT !.shutdown = "waiting"]
    /\ UNCHANGED <<phase, loops, resolved, shutdown_event, raised, closed>>

ShutdownTaskRuns ==
    /\ IF watch.shutdown = "woken"
       THEN /\ Run("shutdown_runs", <<"shutdown_done">>)
            /\ watch' = [watch EXCEPT !.shutdown = "done"]
       ELSE Run("shutdown_runs", <<>>) /\ UNCHANGED watch
    /\ UNCHANGED <<phase, loops, resolved, shutdown_event, raised, closed>>

\* Mutant: a loop that has failed already is not looked for.
WorkerTaskStartsBlind ==
    /\ watch.worker = "starting"
    /\ Run("worker_starts", <<>>)
    /\ watch' = [watch EXCEPT !.worker = "waiting"]
    /\ UNCHANGED <<phase, loops, resolved, shutdown_event, raised, closed>>

\* wait() of the worker: it also learns of a loop that has failed already.
WorkerTaskStarts ==
    /\ watch.worker = "starting"
    /\ Run("worker_starts",
           IF \E l \in Loops : loops[l] = "failed" THEN <<"loop_done">> ELSE <<>>)
    /\ watch' = [watch EXCEPT !.worker = "waiting"]
    /\ UNCHANGED <<phase, loops, resolved, shutdown_event, raised, closed>>

LoopDone ==
    /\ IF watch.worker = "waiting"
       THEN /\ Run("loop_done", <<"worker_runs">>)
            /\ watch' = [watch EXCEPT !.worker = "woken"]
       ELSE Run("loop_done", <<>>) /\ UNCHANGED watch
    /\ UNCHANGED <<phase, loops, resolved, shutdown_event, raised, closed>>

\* However the loop ended, wait() raises: the stop event is not set yet.
WorkerTaskRuns ==
    /\ IF watch.worker = "woken"
       THEN /\ Run("worker_runs", <<"worker_done">>)
            /\ watch' = [watch EXCEPT !.worker = "done"]
       ELSE Run("worker_runs", <<>>) /\ UNCHANGED watch
    /\ UNCHANGED <<phase, loops, resolved, shutdown_event, raised, closed>>

\* The first task that is done resolves the wait of the watch.
TaskDone(callback) ==
    /\ Run(callback, IF resolved THEN <<>> ELSE <<"watch_runs">>)
    /\ resolved' = TRUE
    /\ UNCHANGED <<phase, loops, watch, shutdown_event, raised, closed>>

Cancelled(task) == IF task = "done" THEN "done" ELSE "cancelled"

CancelWatch ==
    watch' = [ shutdown |-> Cancelled(watch.shutdown),
               worker |-> Cancelled(watch.worker) ]

\* Mutant: the end of the wait is an error in any case.
WatchRaises ==
    /\ phase = "watch"
    /\ Run("watch_runs", <<>>)
    /\ phase' = "watched"
    /\ raised' = raised \cup {"loop"}
    /\ CancelWatch
    /\ UNCHANGED <<loops, resolved, shutdown_event, closed>>

\* Mutant: a signal is looked for first.
WatchPrefersSignal ==
    /\ phase = "watch"
    /\ Run("watch_runs", <<>>)
    /\ phase' = "watched"
    /\ raised' = IF watch.shutdown = "done" THEN raised ELSE raised \cup {"loop"}
    /\ CancelWatch
    /\ UNCHANGED <<loops, resolved, shutdown_event, closed>>

\* Mutant: either event ends the watch without an error.
WatchIgnoresWorker ==
    /\ phase = "watch"
    /\ Run("watch_runs", <<>>)
    /\ phase' = "watched"
    /\ CancelWatch
    /\ UNCHANGED <<loops, resolved, shutdown_event, raised, closed>>

\* Mutant: the task that is not done is left waiting.
WatchLeavesTasks ==
    /\ phase = "watch"
    /\ Run("watch_runs", <<>>)
    /\ phase' = "watched"
    /\ raised' = IF watch.worker = "done" THEN raised \cup {"loop"} ELSE raised
    /\ UNCHANGED <<loops, watch, resolved, shutdown_event, closed>>

\* What is done is looked up only now.
WatchRuns ==
    /\ phase = "watch"
    /\ Run("watch_runs", <<>>)
    /\ phase' = "watched"
    /\ raised' = IF watch.worker = "done" THEN raised \cup {"loop"} ELSE raised
    /\ CancelWatch
    /\ UNCHANGED <<loops, resolved, shutdown_event, closed>>

\* gather: both tasks of the watch are over.
EndWatch ==
    /\ phase = "watched"
    /\ watch.shutdown \in {"done", "cancelled"}
    /\ watch.worker \in {"done", "cancelled"}
    /\ phase' = "stop"
    /\ UNCHANGED <<loops, watch, resolved, shutdown_event, ready, raised, closed>>

-----------------------------------------------------------------------------
\* stop() of the worker.

Running == {l \in Loops : loops[l] = "running"}

\* Without tasks it returns at once.
StopNothing ==
    /\ phase = "stop"
    /\ \A l \in Loops : loops[l] = "none"
    /\ phase' = "dispatcher"
    /\ UNCHANGED <<loops, watch, resolved, shutdown_event, ready, raised, closed>>

StopWorker ==
    /\ phase = "stop"
    /\ \E l \in Loops : loops[l] # "none"
    /\ phase' = "grace"
    /\ UNCHANGED <<loops, watch, resolved, shutdown_event, ready, raised, closed>>

\* With a result or an exception, asked or cancelled: gather takes them all.
LoopEnds(l) ==
    /\ phase \in {"grace", "cancelled"}
    /\ loops[l] = "running"
    /\ loops' = [loops EXCEPT ![l] = "ended"]
    /\ UNCHANGED <<phase, watch, resolved, shutdown_event, ready, raised, closed>>

GraceExpires ==
    /\ phase = "grace"
    /\ Running # {}
    /\ phase' = "cancelled"
    /\ UNCHANGED <<loops, watch, resolved, shutdown_event, ready, raised, closed>>

\* Mutant: cancelled loops are not waited for.
EndStopWithoutGather ==
    /\ phase \in {"grace", "cancelled"}
    /\ phase = "grace" => Running = {}
    /\ phase' = "dispatcher"
    /\ UNCHANGED <<loops, watch, resolved, shutdown_event, ready, raised, closed>>

EndStop ==
    /\ phase \in {"grace", "cancelled"}
    /\ Running = {}
    /\ phase' = "dispatcher"
    /\ UNCHANGED <<loops, watch, resolved, shutdown_event, ready, raised, closed>>

-----------------------------------------------------------------------------
\* The nested finally clauses.

Close(resource) ==
    /\ phase = resource
    /\ closed' = closed \cup {resource}
    /\ phase' = NextPhase[resource]
    /\ UNCHANGED <<loops, watch, resolved, shutdown_event, ready, raised>>

\* Mutant: one finally clause closes them one after the other.
CloseFailsForAll(resource) ==
    /\ phase = resource
    /\ closed' = closed \cup {resource}
    /\ phase' = "ended"
    /\ raised' = raised \cup {resource}
    /\ UNCHANGED <<loops, watch, resolved, shutdown_event, ready>>

CloseFails(resource) ==
    /\ phase = resource
    /\ closed' = closed \cup {resource}
    /\ phase' = NextPhase[resource]
    /\ raised' = raised \cup {resource}
    /\ UNCHANGED <<loops, watch, resolved, shutdown_event, ready>>

-----------------------------------------------------------------------------

Callback ==
    \/ SetEvent \/ ShutdownTaskStarts \/ ShutdownTaskRuns
    \/ WorkerTaskStarts \/ LoopDone \/ WorkerTaskRuns
    \/ TaskDone("shutdown_done") \/ TaskDone("worker_done") \/ WatchRuns

Startup == EmitStartup \/ StartupFails \/ StartWorker \/ StartFails

Stop == EndWatch \/ StopNothing \/ StopWorker \/ GraceExpires \/ EndStop

Closing == \E resource \in Resources : Close(resource) \/ CloseFails(resource)

Ended == phase = "ended" /\ UNCHANGED pvars

ProcessNext ==
    \/ Startup \/ Signal \/ Callback \/ Stop \/ Closing \/ Ended
    \/ \E l \in Loops : LoopFails(l) \/ LoopEnds(l)

ProcessSpec == ProcessInit /\ [][ProcessNext]_pvars

\* The event loop runs; startup and closing return or raise; a cancelled
\* loop ends.  No loop has to fail, and none to end because it was asked to.
ProcessFairness ==
    /\ WF_pvars(Startup) /\ WF_pvars(Callback) /\ WF_pvars(Stop) /\ WF_pvars(Closing)
    /\ \A l \in Loops : WF_pvars(phase = "cancelled" /\ LoopEnds(l))

FairProcessSpec == ProcessSpec /\ ProcessFairness

-----------------------------------------------------------------------------

Signalled == shutdown_event \/ Queued("set_event")

\* Type invariant; loops, and the watch over them, exist from the moment the
\* initial recovery has succeeded.
ProcessTypeOK ==
    /\ phase \in Phases
    /\ loops \in [Loops -> LoopStates]
    /\ watch \in [shutdown : TaskStates, worker : TaskStates]
    /\ resolved \in BOOLEAN
    /\ shutdown_event \in BOOLEAN
    /\ ready \in Seq(Callbacks)
    /\ raised \subseteq {"startup", "recovery", "loop"} \cup Resources
    /\ closed \subseteq Resources
    /\ \A l \in Loops : loops[l] = "none" <=> watch.worker = "none"

\* Dispatcher, bot session, Singularity client and engine are closed only
\* when no loop can use them any more, whichever way the process ends.
NothingClosedUnderALoop ==
    closed # {} \/ phase \in Resources \cup {"ended"} => Running = {}

\* At the end everything was told to close, whatever was raised on the way:
\* by startup, by recovery, by a loop or by another close.
EverythingIsClosed == phase = "ended" => closed = Resources

\* Without a signal a worker process never ends with success: its supervisor
\* sees that it has to be replaced.
SuccessMeansSignal == phase = "ended" /\ raised = {} => shutdown_event

\* A process that was told to stop and whose loops end because they were
\* told to, or are cancelled, ends without an error of the watch.
OnlyFailuresAreErrors ==
    "loop" \in raised => \E l \in Loops : loops[l] = "failed"

\* No event gets lost between the tasks of the watch, however signals and
\* failures fall between their callbacks: when the event loop of a watching
\* process has nothing to run, nothing has happened that the watch waits for.
IdleMeansQuiet ==
    phase = "watch" /\ ready = <<>>
        => ~shutdown_event /\ \A l \in Loops : loops[l] = "running"

\* A loop that fails before anybody asked the process to stop ends it, and
\* the failure is reported, even if the signal comes before the watch
\* has seen it.
FailureIsReported ==
    (\E l \in Loops : loops[l] = "failed") /\ ~Signalled
        ~> phase = "ended" /\ "loop" \in raised

\* A signal ends the process, whenever it comes.
SignalEndsTheProcess == Signalled ~> phase = "ended"
=============================================================================
