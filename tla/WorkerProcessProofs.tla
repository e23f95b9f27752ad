------------------------- MODULE WorkerProcessProofs -------------------------
(***************************************************************************)
(* What holds of a worker process with any number of loops.  The invariant *)
(* has three parts: the order of the phases (what exists, runs and is      *)
(* closed in each), the queue (what a callback that waits in it says of    *)
(* the tasks), and the causes (why a task is done, and why nothing was     *)
(* raised).                                                                *)
(***************************************************************************)
EXTENDS WorkerProcess, SequenceTheorems, TLAPS

Before == {"startup", "recovery"}
Watching == {"watch", "watched"}
Stopping == {"stop", "grace", "cancelled"}
Last == Resources \cup {"ended"}

PhasesOK ==
    /\ phase \in Before => watch.worker = "none" /\ watch.shutdown = "none"
    /\ phase \in Watching \cup {"grace", "cancelled"} => watch.worker # "none"
    /\ phase \in Last => Running = {}
    /\ phase \notin Last => closed = {}
    /\ phase \in {"session", "client", "engine", "ended"} => "dispatcher" \in closed
    /\ phase \in {"client", "engine", "ended"} => "session" \in closed
    /\ phase \in {"engine", "ended"} => "client" \in closed
    /\ phase = "ended" => "engine" \in closed

SomeLoopFailed == \E l \in Loops : loops[l] = "failed"

QueueOK ==
    /\ Queued("shutdown_done") => watch.shutdown = "done"
    /\ Queued("worker_done") => watch.worker = "done"
    /\ Queued("watch_runs") => resolved
    /\ Queued("loop_done") => SomeLoopFailed

CausesOK ==
    /\ watch.shutdown \in {"woken", "done"} => shutdown_event
    /\ watch.worker \in {"woken", "done"} => SomeLoopFailed
    /\ resolved => watch.shutdown = "done" \/ watch.worker = "done"
    /\ "loop" \in raised => SomeLoopFailed
    /\ phase \notin Before \cup {"watch"} /\ raised = {} => shutdown_event

ProcessInv == ProcessTypeOK /\ PhasesOK /\ QueueOK /\ CausesOK

-----------------------------------------------------------------------------
\* The queue.

In(s, callback) == \E i \in DOMAIN s : s[i] = callback

LEMMA InAppended ==
    ASSUME NEW S, NEW s \in Seq(S), NEW t \in Seq(S), NEW c, In(s \o t, c)
    PROVE  In(s, c) \/ In(t, c)
  <1>1. PICK i \in 1 .. Len(s) + Len(t) : (s \o t)[i] = c
    BY ConcatProperties DEF In
  <1>2. CASE i <= Len(s)
    <2>1. i \in DOMAIN s /\ s[i] = c
      BY <1>1, <1>2, ConcatProperties, LenProperties
    <2> QED
      BY <2>1 DEF In
  <1>3. CASE i > Len(s)
    <2>1. i - Len(s) \in DOMAIN t /\ t[i - Len(s)] = c
      BY <1>1, <1>3, ConcatProperties, LenProperties
    <2> QED
      BY <2>1 DEF In
  <1> QED
    BY <1>2, <1>3, LenProperties

LEMMA InTail ==
    ASSUME NEW S, NEW s \in Seq(S), s # <<>>, NEW c, In(Tail(s), c)
    PROVE  In(s, c)
  <1>1. PICK i \in DOMAIN Tail(s) : Tail(s)[i] = c
    BY DEF In
  <1>2. i + 1 \in DOMAIN s /\ s[i + 1] = c
    BY <1>1, HeadTailProperties, LenProperties
  <1> QED
    BY <1>2 DEF In

\* What waits after a callback has run waited before or was scheduled by it.
LEMMA AfterRun ==
    ASSUME ready \in Seq(Callbacks), NEW callback, NEW scheduled \in Seq(Callbacks),
           Run(callback, scheduled)
    PROVE  /\ ready' \in Seq(Callbacks)
           /\ Queued(callback)
           /\ \A c : Queued(c)' => Queued(c) \/ In(scheduled, c)
  <1>1. /\ ready # <<>>
        /\ Head(ready) = callback
        /\ ready' = Tail(ready) \o scheduled
        /\ Tail(ready) \in Seq(Callbacks)
    BY HeadTailProperties DEF Run
  <1>2. ready' \in Seq(Callbacks)
    BY <1>1, ConcatProperties
  <1>3. Queued(callback)
    <2>1. 1 \in DOMAIN ready /\ ready[1] = callback
      BY <1>1, HeadTailProperties, EmptySeq, LenProperties
    <2> QED
      BY <2>1 DEF Queued
  <1>4. ASSUME NEW c, Queued(c)'
        PROVE  Queued(c) \/ In(scheduled, c)
    <2>1. In(Tail(ready) \o scheduled, c)
      BY <1>1, <1>4 DEF Queued, In
    <2>2. In(Tail(ready), c) \/ In(scheduled, c)
      BY <2>1, <1>1, InAppended
    <2>3. In(Tail(ready), c) => In(ready, c)
      BY <1>1, InTail
    <2> QED
      BY <2>2, <2>3 DEF Queued, In
  <1> QED
    BY <1>2, <1>3, <1>4

LEMMA NothingScheduled == <<>> \in Seq(Callbacks) /\ \A c : ~In(<<>>, c)
  BY DEF In

LEMMA OneScheduled ==
    ASSUME NEW e \in Callbacks
    PROVE  <<e>> \in Seq(Callbacks) /\ \A c : In(<<e>>, c) => c = e
  BY DEF In

LEMMA AfterAppend ==
    ASSUME ready \in Seq(Callbacks), NEW e \in Callbacks, ready' = Append(ready, e)
    PROVE  /\ ready' \in Seq(Callbacks)
           /\ \A c : Queued(c)' => Queued(c) \/ c = e
  <1>1. ready' \in Seq(Callbacks)
    BY AppendProperties
  <1>2. ASSUME NEW c, Queued(c)'
        PROVE  Queued(c) \/ c = e
    <2>1. PICK i \in 1 .. Len(ready) + 1 : ready'[i] = c
      BY <1>2, AppendProperties, LenProperties DEF Queued
    <2>2. CASE i <= Len(ready)
      BY <2>1, <2>2, AppendProperties, LenProperties DEF Queued
    <2>3. CASE i = Len(ready) + 1
      BY <2>1, <2>3, AppendProperties
    <2> QED
      BY <2>1, <2>2, <2>3, LenProperties
  <1> QED
    BY <1>1, <1>2
-----------------------------------------------------------------------------

THEOREM ProcessInitInv == ProcessInit => ProcessInv
  <1> SUFFICES ASSUME ProcessInit PROVE ProcessInv
    OBVIOUS
  <1>1. ready \in Seq(Callbacks) /\ \A c : ~Queued(c)
    BY DEF ProcessInit, Queued
  <1>2. ProcessTypeOK
    BY <1>1 DEF ProcessInit, ProcessTypeOK, Phases, LoopStates, TaskStates, Resources
  <1>3. PhasesOK
    BY DEF ProcessInit, PhasesOK, Before, Watching, Last, Resources
  <1>4. QueueOK
    BY <1>1 DEF QueueOK
  <1>5. CausesOK
    BY DEF ProcessInit, CausesOK, Before
  <1> QED
    BY <1>2, <1>3, <1>4, <1>5 DEF ProcessInv

\* A callback of one of the two tasks of the watch: the phase stays.
LEMMA TaskStep ==
    ASSUME ProcessInv, NEW callback, NEW scheduled \in Seq(Callbacks),
           Run(callback, scheduled),
           UNCHANGED <<phase, loops, raised, closed>>,
           watch' \in [shutdown : TaskStates, worker : TaskStates],
           watch'.worker = "none" <=> watch.worker = "none",
           watch.shutdown = "none" => watch'.shutdown = "none",
           resolved' \in BOOLEAN, shutdown_event' \in BOOLEAN,
           shutdown_event => shutdown_event',
           resolved => resolved',
           watch.shutdown = "done" => watch'.shutdown = "done",
           watch.worker = "done" => watch'.worker = "done",
           In(scheduled, "shutdown_done") => watch'.shutdown = "done",
           In(scheduled, "worker_done") => watch'.worker = "done",
           In(scheduled, "watch_runs") => resolved',
           In(scheduled, "loop_done") => SomeLoopFailed,
           watch'.shutdown \in {"woken", "done"} => shutdown_event',
           watch'.worker \in {"woken", "done"} => SomeLoopFailed,
           resolved' => watch'.shutdown = "done" \/ watch'.worker = "done"
    PROVE  ProcessInv'
  <1>1. /\ ready' \in Seq(Callbacks)
        /\ \A c : Queued(c)' => Queued(c) \/ In(scheduled, c)
    BY AfterRun DEF ProcessInv, ProcessTypeOK
  <1>2. SomeLoopFailed' = SomeLoopFailed
    BY DEF SomeLoopFailed
  <1>3. ProcessTypeOK'
    BY <1>1 DEF ProcessInv, ProcessTypeOK
  <1>4. PhasesOK'
    BY DEF ProcessInv, PhasesOK, Running
  <1>5. QueueOK'
    BY <1>1, <1>2 DEF ProcessInv, QueueOK
  <1>6. CausesOK'
    BY <1>2 DEF ProcessInv, CausesOK
  <1> QED
    BY <1>3, <1>4, <1>5, <1>6 DEF ProcessInv

LEMMA CallbackInv ==
    ASSUME ProcessInv, Callback
    PROVE  ProcessInv'
  <1>0. /\ watch \in [shutdown : TaskStates, worker : TaskStates]
        /\ shutdown_event \in BOOLEAN /\ resolved \in BOOLEAN
        /\ ready \in Seq(Callbacks)
        /\ CausesOK /\ QueueOK
    BY DEF ProcessInv, ProcessTypeOK
  <1> DEFINE Nothing == <<>>
             One(e) == <<e>>
  <1>N. Nothing \in Seq(Callbacks) /\ \A c : ~In(Nothing, c)
    BY NothingScheduled
  <1>O. \A e \in Callbacks : One(e) \in Seq(Callbacks) /\ \A c : In(One(e), c) => c = e
    BY OneScheduled
  <1>1. CASE SetEvent
    <2>1. CASE watch.shutdown = "waiting"
      <3>1. /\ Run("set_event", One("shutdown_runs"))
            /\ watch' = [watch EXCEPT !.shutdown = "woken"]
            /\ shutdown_event'
            /\ UNCHANGED <<phase, loops, resolved, raised, closed>>
        BY <1>1, <2>1 DEF SetEvent
      <3> HIDE DEF One
      <3> QED
        BY <1>0, <1>O, <2>1, <3>1, TaskStep DEF TaskStates, Callbacks, CausesOK
    <2>2. CASE watch.shutdown # "waiting"
      <3>1. /\ Run("set_event", Nothing)
            /\ watch' = watch
            /\ shutdown_event'
            /\ UNCHANGED <<phase, loops, resolved, raised, closed>>
        BY <1>1, <2>2 DEF SetEvent
      <3> HIDE DEF Nothing
      <3> QED
        BY <1>0, <1>N, <3>1, TaskStep DEF CausesOK
    <2> QED
      BY <2>1, <2>2
  <1>2. CASE ShutdownTaskStarts
    <2>1. CASE shutdown_event
      <3>1. /\ Run("shutdown_starts", One("shutdown_done"))
            /\ watch.shutdown = "starting"
            /\ watch' = [watch EXCEPT !.shutdown = "done"]
            /\ UNCHANGED <<phase, loops, resolved, shutdown_event, raised, closed>>
        BY <1>2, <2>1 DEF ShutdownTaskStarts
      <3> HIDE DEF One
      <3> QED
        BY <1>0, <1>O, <2>1, <3>1, TaskStep DEF TaskStates, Callbacks, CausesOK
    <2>2. CASE ~shutdown_event
      <3>1. /\ Run("shutdown_starts", Nothing)
            /\ watch.shutdown = "starting"
            /\ watch' = [watch EXCEPT !.shutdown = "waiting"]
            /\ UNCHANGED <<phase, loops, resolved, shutdown_event, raised, closed>>
        BY <1>2, <2>2 DEF ShutdownTaskStarts
      <3> HIDE DEF Nothing
      <3> QED
        BY <1>0, <1>N, <3>1, TaskStep DEF TaskStates, CausesOK
    <2> QED
      BY <2>1, <2>2
  <1>3. CASE ShutdownTaskRuns
    <2>1. CASE watch.shutdown = "woken"
      <3>1. /\ Run("shutdown_runs", One("shutdown_done"))
            /\ watch' = [watch EXCEPT !.shutdown = "done"]
            /\ UNCHANGED <<phase, loops, resolved, shutdown_event, raised, closed>>
        BY <1>3, <2>1 DEF ShutdownTaskRuns
      <3> HIDE DEF One
      <3> QED
        BY <1>0, <1>O, <2>1, <3>1, TaskStep DEF TaskStates, Callbacks, CausesOK
    <2>2. CASE watch.shutdown # "woken"
      <3>1. /\ Run("shutdown_runs", Nothing)
            /\ watch' = watch
            /\ UNCHANGED <<phase, loops, resolved, shutdown_event, raised, closed>>
        BY <1>3, <2>2 DEF ShutdownTaskRuns
      <3> HIDE DEF Nothing
      <3> QED
        BY <1>0, <1>N, <3>1, TaskStep DEF CausesOK
    <2> QED
      BY <2>1, <2>2
  <1>4. CASE WorkerTaskStarts
    <2>1. /\ watch.worker = "starting"
          /\ watch' = [watch EXCEPT !.worker = "waiting"]
          /\ UNCHANGED <<phase, loops, resolved, shutdown_event, raised, closed>>
      BY <1>4 DEF WorkerTaskStarts
    <2>2. CASE SomeLoopFailed
      <3>1. Run("worker_starts", One("loop_done"))
        BY <1>4, <2>2 DEF WorkerTaskStarts, SomeLoopFailed
      <3> HIDE DEF One
      <3> QED
        BY <1>0, <1>O, <2>1, <2>2, <3>1, TaskStep DEF TaskStates, Callbacks, CausesOK
    <2>3. CASE ~SomeLoopFailed
      <3>1. Run("worker_starts", Nothing)
        BY <1>4, <2>3 DEF WorkerTaskStarts, SomeLoopFailed
      <3> HIDE DEF Nothing
      <3> QED
        BY <1>0, <1>N, <2>1, <3>1, TaskStep DEF TaskStates, CausesOK
    <2> QED
      BY <2>2, <2>3
  <1>5. CASE LoopDone
    <2>1. CASE watch.worker = "waiting"
      <3>1. /\ Run("loop_done", One("worker_runs"))
            /\ watch' = [watch EXCEPT !.worker = "woken"]
            /\ UNCHANGED <<phase, loops, resolved, shutdown_event, raised, closed>>
        BY <1>5, <2>1 DEF LoopDone
      <3> HIDE DEF One
      <3>2. Queued("loop_done")
        BY <1>0, <1>O, <3>1, AfterRun DEF Callbacks
      <3> QED
        BY <1>0, <1>O, <2>1, <3>1, <3>2, TaskStep
           DEF TaskStates, Callbacks, CausesOK, QueueOK
    <2>2. CASE watch.worker # "waiting"
      <3>1. /\ Run("loop_done", Nothing)
            /\ watch' = watch
            /\ UNCHANGED <<phase, loops, resolved, shutdown_event, raised, closed>>
        BY <1>5, <2>2 DEF LoopDone
      <3> HIDE DEF Nothing
      <3> QED
        BY <1>0, <1>N, <3>1, TaskStep DEF CausesOK
    <2> QED
      BY <2>1, <2>2
  <1>6. CASE WorkerTaskRuns
    <2>1. CASE watch.worker = "woken"
      <3>1. /\ Run("worker_runs", One("worker_done"))
            /\ watch' = [watch EXCEPT !.worker = "done"]
            /\ UNCHANGED <<phase, loops, resolved, shutdown_event, raised, closed>>
        BY <1>6, <2>1 DEF WorkerTaskRuns
      <3> HIDE DEF One
      <3> QED
        BY <1>0, <1>O, <2>1, <3>1, TaskStep DEF TaskStates, Callbacks, CausesOK
    <2>2. CASE watch.worker # "woken"
      <3>1. /\ Run("worker_runs", Nothing)
            /\ watch' = watch
            /\ UNCHANGED <<phase, loops, resolved, shutdown_event, raised, closed>>
        BY <1>6, <2>2 DEF WorkerTaskRuns
      <3> HIDE DEF Nothing
      <3> QED
        BY <1>0, <1>N, <3>1, TaskStep DEF CausesOK
    <2> QED
      BY <2>1, <2>2
  <1>7. ASSUME NEW callback \in {"shutdown_done", "worker_done"}, TaskDone(callback)
        PROVE  ProcessInv'
    <2>1. PICK scheduled \in {Nothing, One("watch_runs")} : Run(callback, scheduled)
      BY <1>7 DEF TaskDone
    <2>2. /\ resolved'
          /\ UNCHANGED <<phase, loops, watch, shutdown_event, raised, closed>>
      BY <1>7 DEF TaskDone
    <2> HIDE DEF Nothing, One
    <2>3. /\ scheduled \in Seq(Callbacks)
          /\ \A c : In(scheduled, c) => c = "watch_runs"
      BY <1>N, <1>O DEF Callbacks
    <2>4. Queued(callback)
      BY <1>0, <2>1, <2>3, AfterRun
    <2> QED
      BY <1>0, <2>1, <2>2, <2>3, <2>4, TaskStep DEF CausesOK, QueueOK
  <1>8. CASE WatchRuns
    <2>1. /\ phase = "watch"
          /\ Run("watch_runs", Nothing)
          /\ phase' = "watched"
          /\ raised' = IF watch.worker = "done" THEN raised \cup {"loop"} ELSE raised
          /\ watch' = [ shutdown |-> Cancelled(watch.shutdown),
                        worker |-> Cancelled(watch.worker) ]
          /\ UNCHANGED <<loops, resolved, shutdown_event, closed>>
      BY <1>8 DEF WatchRuns, CancelWatch
    <2> HIDE DEF Nothing
    <2>2. /\ ready' \in Seq(Callbacks)
          /\ Queued("watch_runs")
          /\ \A c : Queued(c)' => Queued(c)
      BY <1>0, <1>N, <2>1, AfterRun
    <2>3. /\ watch' \in [shutdown : TaskStates, worker : TaskStates]
          /\ watch'.worker # "none"
          /\ watch'.shutdown = "done" <=> watch.shutdown = "done"
          /\ watch'.worker = "done" <=> watch.worker = "done"
          /\ watch'.shutdown # "woken" /\ watch'.worker # "woken"
      BY <2>1 DEF Cancelled, TaskStates
    <2>4. watch.worker # "none" /\ SomeLoopFailed' = SomeLoopFailed
      BY <2>1 DEF ProcessInv, PhasesOK, Watching, SomeLoopFailed
    <2>5. ProcessTypeOK'
      BY <2>1, <2>2, <2>3, <2>4 DEF ProcessInv, ProcessTypeOK, Phases
    <2>6. PhasesOK'
      BY <2>1, <2>3
         DEF ProcessInv, PhasesOK, Before, Watching, Last, Resources, Running
    <2>7. QueueOK'
      BY <1>0, <2>1, <2>2, <2>3, <2>4 DEF QueueOK
    <2>8. CausesOK'
      <3>1. resolved
        BY <1>0, <2>2 DEF QueueOK
      <3>2. raised' = {} => watch.worker # "done"
        BY <2>1
      <3>3. "loop" \in raised' => watch.worker = "done" \/ "loop" \in raised
        BY <2>1
      <3>4. raised' = {} => shutdown_event
        BY <1>0, <3>1, <3>2 DEF CausesOK
      <3> QED
        BY <1>0, <2>1, <2>3, <2>4, <3>3, <3>4 DEF CausesOK
    <2> QED
      BY <2>5, <2>6, <2>7, <2>8 DEF ProcessInv
  <1> QED
    BY <1>1, <1>2, <1>3, <1>4, <1>5, <1>6, <1>7, <1>8 DEF Callback

\* A step that leaves the queue and the tasks of the watch alone.
LEMMA QueueAndCausesStay ==
    ASSUME QueueOK, CausesOK,
           UNCHANGED <<watch, resolved, shutdown_event, ready>>,
           SomeLoopFailed => SomeLoopFailed',
           "loop" \in raised' => "loop" \in raised,
           phase' \notin Before \cup {"watch"} /\ raised' = {} => shutdown_event
    PROVE  QueueOK' /\ CausesOK'
  <1>1. \A c : Queued(c)' = Queued(c)
    BY DEF Queued
  <1> QED
    BY <1>1 DEF QueueOK, CausesOK

LEMMA StartupInv ==
    ASSUME ProcessInv, Startup
    PROVE  ProcessInv'
  <1> USE DEF Before, Watching, Last, Resources, Phases
  <1>0. /\ phase \in Before
        /\ QueueOK /\ CausesOK
        /\ watch.worker = "none" /\ watch.shutdown = "none"
        /\ \A l \in Loops : loops[l] = "none"
    BY DEF Startup, EmitStartup, StartupFails, StartWorker, StartFails,
           ProcessInv, ProcessTypeOK, PhasesOK
  <1>1. CASE EmitStartup
    <2>1. QueueOK' /\ CausesOK'
      BY <1>0, <1>1, QueueAndCausesStay DEF EmitStartup, SomeLoopFailed
    <2> QED
      BY <1>1, <2>1 DEF EmitStartup, ProcessInv, ProcessTypeOK, PhasesOK, Running
  <1>2. CASE StartupFails
    <2>1. QueueOK' /\ CausesOK'
      BY <1>0, <1>2, QueueAndCausesStay DEF StartupFails, SomeLoopFailed
    <2> QED
      BY <1>0, <1>2, <2>1
         DEF StartupFails, ProcessInv, ProcessTypeOK, PhasesOK, Running
  <1>3. CASE StartFails
    <2>1. QueueOK' /\ CausesOK'
      BY <1>0, <1>3, QueueAndCausesStay DEF StartFails, SomeLoopFailed
    <2> QED
      BY <1>0, <1>3, <2>1
         DEF StartFails, ProcessInv, ProcessTypeOK, PhasesOK, Running
  <1>4. CASE StartWorker
    <2> DEFINE both == <<"shutdown_starts", "worker_starts">>
    <2>1. /\ both \in Seq(Callbacks)
          /\ \A c : In(both, c) => c \in {"shutdown_starts", "worker_starts"}
      BY DEF In, Callbacks
    <2>2. /\ phase' = "watch"
          /\ loops' = [l \in Loops |-> "running"]
          /\ watch' = [shutdown |-> "starting", worker |-> "starting"]
          /\ ready' = ready \o both
          /\ UNCHANGED <<resolved, shutdown_event, raised, closed>>
      BY <1>4 DEF StartWorker
    <2> HIDE DEF both
    <2>3. ready \in Seq(Callbacks)
      BY DEF ProcessInv, ProcessTypeOK
    <2>4. ready' \in Seq(Callbacks)
      BY <2>1, <2>2, <2>3, ConcatProperties
    <2>5. ASSUME NEW c, Queued(c)'
          PROVE  Queued(c) \/ c \in {"shutdown_starts", "worker_starts"}
      <3>1. In(ready \o both, c)
        BY <2>2, <2>5 DEF Queued, In
      <3>2. In(ready, c) \/ In(both, c)
        BY <2>1, <2>3, <3>1, InAppended
      <3> QED
        BY <2>1, <3>2 DEF Queued, In
    <2>6. ProcessTypeOK'
      BY <2>2, <2>4 DEF ProcessInv, ProcessTypeOK, LoopStates, TaskStates
    <2>7. PhasesOK'
      BY <1>0, <2>2 DEF ProcessInv, PhasesOK
    <2>8. ~SomeLoopFailed
      BY <1>0 DEF SomeLoopFailed
    <2>9. /\ watch.worker # "done" /\ "loop" \notin raised
          /\ ~Queued("worker_done") /\ ~Queued("loop_done")
      BY <1>0, <2>8 DEF CausesOK, QueueOK
    <2>10. ~resolved /\ ~Queued("shutdown_done") /\ ~Queued("watch_runs")
      BY <1>0, <2>9 DEF CausesOK, QueueOK
    <2>11. QueueOK'
      BY <2>5, <2>9, <2>10 DEF QueueOK
    <2>12. CausesOK'
      BY <2>2, <2>9, <2>10 DEF CausesOK
    <2> QED
      BY <2>6, <2>7, <2>11, <2>12 DEF ProcessInv
  <1> QED
    BY <1>1, <1>2, <1>3, <1>4 DEF Startup
LEMMA SignalInv ==
    ASSUME ProcessInv, Signal
    PROVE  ProcessInv'
  <1>1. /\ ready' = Append(ready, "set_event")
        /\ UNCHANGED <<phase, loops, watch, resolved, shutdown_event, raised, closed>>
    BY DEF Signal
  <1>2. /\ ready' \in Seq(Callbacks)
        /\ \A c : Queued(c)' => Queued(c) \/ c = "set_event"
    BY <1>1, AfterAppend DEF ProcessInv, ProcessTypeOK, Callbacks
  <1>3. QueueOK'
    BY <1>1, <1>2 DEF ProcessInv, QueueOK, SomeLoopFailed
  <1> QED
    BY <1>1, <1>2, <1>3
       DEF ProcessInv, ProcessTypeOK, PhasesOK, CausesOK, Running, SomeLoopFailed

LEMMA LoopFailsInv ==
    ASSUME ProcessInv, NEW l \in Loops, LoopFails(l)
    PROVE  ProcessInv'
  <1>1. /\ phase \in Watching
        /\ loops[l] = "running"
        /\ loops' = [loops EXCEPT ![l] = "failed"]
        /\ ready' = ready \/ ready' = Append(ready, "loop_done")
        /\ UNCHANGED <<phase, watch, resolved, shutdown_event, raised, closed>>
    BY DEF LoopFails, Watching
  <1>2. /\ ready' \in Seq(Callbacks)
        /\ \A c : Queued(c)' => Queued(c) \/ c = "loop_done"
    <2>1. CASE ready' = ready
      BY <2>1 DEF ProcessInv, ProcessTypeOK, Queued
    <2>2. CASE ready' = Append(ready, "loop_done")
      BY <2>2, AfterAppend DEF ProcessInv, ProcessTypeOK, Callbacks
    <2> QED
      BY <1>1, <2>1, <2>2
  <1>3. SomeLoopFailed'
    BY <1>1 DEF SomeLoopFailed, ProcessInv, ProcessTypeOK
  <1>4. ProcessTypeOK'
    BY <1>1, <1>2 DEF ProcessInv, ProcessTypeOK, LoopStates
  <1>5. PhasesOK'
    BY <1>1 DEF ProcessInv, PhasesOK, Before, Watching, Last, Resources
  <1>6. QueueOK' /\ CausesOK'
    BY <1>1, <1>2, <1>3 DEF ProcessInv, QueueOK, CausesOK
  <1> QED
    BY <1>4, <1>5, <1>6 DEF ProcessInv

LEMMA LoopEndsInv ==
    ASSUME ProcessInv, NEW l \in Loops, LoopEnds(l)
    PROVE  ProcessInv'
  <1>1. /\ phase \in {"grace", "cancelled"}
        /\ loops[l] = "running"
        /\ loops' = [loops EXCEPT ![l] = "ended"]
        /\ UNCHANGED <<phase, watch, resolved, shutdown_event, ready, raised, closed>>
    BY DEF LoopEnds
  <1>2. SomeLoopFailed => SomeLoopFailed'
    BY <1>1 DEF SomeLoopFailed, ProcessInv, ProcessTypeOK
  <1>3. QueueOK' /\ CausesOK'
    BY <1>1, <1>2, QueueAndCausesStay DEF ProcessInv, CausesOK
  <1>4. ProcessTypeOK'
    BY <1>1 DEF ProcessInv, ProcessTypeOK, LoopStates
  <1>5. PhasesOK'
    BY <1>1 DEF ProcessInv, PhasesOK, Before, Watching, Last, Resources
  <1> QED
    BY <1>3, <1>4, <1>5 DEF ProcessInv

LEMMA StopInv ==
    ASSUME ProcessInv, Stop
    PROVE  ProcessInv'
  <1> USE DEF Before, Watching, Last, Resources, Phases
  <1>1. /\ phase \notin Before \cup {"watch"} \cup Last
        /\ phase' \notin Before \cup {"watch"}
        /\ UNCHANGED <<loops, watch, resolved, shutdown_event, ready, raised, closed>>
    BY DEF Stop, EndWatch, StopNothing, StopWorker, GraceExpires, EndStop
  <1>2. QueueOK' /\ CausesOK'
    <2>1. SomeLoopFailed => SomeLoopFailed'
      BY <1>1 DEF SomeLoopFailed
    <2> QED
      BY <1>1, <2>1, QueueAndCausesStay DEF ProcessInv, CausesOK
  <1>3. /\ phase' \in {"stop", "grace", "cancelled", "dispatcher"}
        /\ phase' = "dispatcher" => Running = {}
    BY DEF Stop, EndWatch, StopNothing, StopWorker, GraceExpires, EndStop, Running
  <1>4. phase' \in {"grace", "cancelled"} => watch.worker # "none"
    BY DEF Stop, EndWatch, StopNothing, StopWorker, GraceExpires, EndStop,
           ProcessInv, ProcessTypeOK, PhasesOK
  <1>5. ProcessTypeOK'
    BY <1>1, <1>3 DEF ProcessInv, ProcessTypeOK
  <1>6. PhasesOK'
    BY <1>1, <1>3, <1>4 DEF ProcessInv, PhasesOK, Running
  <1> QED
    BY <1>2, <1>5, <1>6 DEF ProcessInv

LEMMA ClosingInv ==
    ASSUME ProcessInv, Closing
    PROVE  ProcessInv'
  <1> USE DEF Before, Watching, Last, Resources, Phases
  <1>1. PICK resource \in Resources : Close(resource) \/ CloseFails(resource)
    BY DEF Closing
  <1>2. /\ phase = resource
        /\ phase' = NextPhase[resource]
        /\ closed' = closed \cup {resource}
        /\ raised' \in {raised, raised \cup {resource}}
        /\ UNCHANGED <<loops, watch, resolved, shutdown_event, ready>>
    BY <1>1 DEF Close, CloseFails
  <1>3. /\ phase' \in {"session", "client", "engine", "ended"}
        /\ phase' = "session" => resource = "dispatcher"
        /\ phase' = "client" => resource = "session"
        /\ phase' = "engine" => resource = "client"
        /\ phase' = "ended" => resource = "engine"
    BY <1>2 DEF NextPhase
  <1>4. QueueOK' /\ CausesOK'
    <2>1. SomeLoopFailed => SomeLoopFailed'
      BY <1>2 DEF SomeLoopFailed
    <2>2. "loop" \in raised' => "loop" \in raised
      BY <1>2
    <2>3. raised' = {} => shutdown_event
      BY <1>2 DEF ProcessInv, CausesOK
    <2> QED
      BY <1>2, <2>1, <2>2, <2>3, QueueAndCausesStay DEF ProcessInv
  <1>5. ProcessTypeOK'
    <2>1. raised' \subseteq {"startup", "recovery", "loop"} \cup Resources
      BY <1>2 DEF ProcessInv, ProcessTypeOK
    <2> QED
      BY <1>2, <1>3, <2>1 DEF ProcessInv, ProcessTypeOK
  <1>6. PhasesOK'
    <2>1. Running' = {}
      BY <1>2 DEF ProcessInv, PhasesOK, Running
    <2> QED
      BY <1>2, <1>3, <2>1 DEF ProcessInv, PhasesOK
  <1> QED
    BY <1>4, <1>5, <1>6 DEF ProcessInv

LEMMA ProcessStutter ==
    ASSUME ProcessInv, UNCHANGED pvars
    PROVE  ProcessInv'
  <1>1. \A c : Queued(c)' = Queued(c)
    BY DEF Queued, pvars
  <1> QED
    BY <1>1 DEF pvars, ProcessInv, ProcessTypeOK, PhasesOK, QueueOK, CausesOK,
                Running, SomeLoopFailed

THEOREM ProcessNextInv == ProcessInv /\ [ProcessNext]_pvars => ProcessInv'
  BY StartupInv, SignalInv, CallbackInv, StopInv, ClosingInv, LoopFailsInv,
     LoopEndsInv, ProcessStutter DEF ProcessNext, Ended

THEOREM ProcessInvariance == ProcessSpec => []ProcessInv
  BY ProcessInitInv, ProcessNextInv, PTL DEF ProcessSpec

-----------------------------------------------------------------------------

\* Types, and: no loop exists before the initial recovery has succeeded.
THEOREM ProcessTyped == ProcessSpec => []ProcessTypeOK
  <1>1. ProcessInv => ProcessTypeOK
    BY DEF ProcessInv
  <1> QED
    BY <1>1, ProcessInvariance, PTL

\* Nothing is closed while a loop may use it.
THEOREM LoopsEndFirst == ProcessSpec => []NothingClosedUnderALoop
  <1>1. ProcessInv => NothingClosedUnderALoop
    BY DEF ProcessInv, PhasesOK, Last, NothingClosedUnderALoop
  <1> QED
    BY <1>1, ProcessInvariance, PTL

\* Whatever is raised, everything is told to close.
THEOREM AllResourcesClose == ProcessSpec => []EverythingIsClosed
  <1>1. ProcessInv => EverythingIsClosed
    BY DEF ProcessInv, ProcessTypeOK, PhasesOK, Resources, EverythingIsClosed
  <1> QED
    BY <1>1, ProcessInvariance, PTL

\* Without a signal the process does not end with success.
THEOREM SuccessIsAsked == ProcessSpec => []SuccessMeansSignal
  <1>1. ProcessInv => SuccessMeansSignal
    BY DEF ProcessInv, CausesOK, Before, SuccessMeansSignal
  <1> QED
    BY <1>1, ProcessInvariance, PTL

\* The watch raises only when a loop has failed.
THEOREM WatchErrorsAreFailures == ProcessSpec => []OnlyFailuresAreErrors
  <1>1. ProcessInv => OnlyFailuresAreErrors
    BY DEF ProcessInv, CausesOK, SomeLoopFailed, OnlyFailuresAreErrors
  <1> QED
    BY <1>1, ProcessInvariance, PTL

-----------------------------------------------------------------------------
(* Wakeups.                                                                *)

\* What each task of a watch waits for is on its way through the queue.
WakeupsOK ==
    phase = "watch" =>
        /\ watch.shutdown \in {"starting", "waiting", "woken", "done"}
        /\ watch.shutdown = "starting" => Queued("shutdown_starts")
        /\ watch.shutdown = "waiting" => ~shutdown_event
        /\ watch.shutdown = "woken" => Queued("shutdown_runs")
        /\ watch.shutdown = "done" => resolved \/ Queued("shutdown_done")
        /\ watch.worker \in {"starting", "waiting", "woken", "done"}
        /\ watch.worker = "starting" => Queued("worker_starts")
        /\ watch.worker = "waiting" /\ SomeLoopFailed => Queued("loop_done")
        /\ watch.worker = "woken" => Queued("worker_runs")
        /\ watch.worker = "done" => resolved \/ Queued("worker_done")
        /\ resolved => Queued("watch_runs")
        /\ \A l \in Loops : loops[l] \in {"running", "failed"}

\* What waits, but for the callback that runs, goes on waiting.
LEMMA InConcat ==
    ASSUME NEW S, NEW s \in Seq(S), NEW t \in Seq(S), NEW c, In(s, c) \/ In(t, c)
    PROVE  In(s \o t, c)
  <1>1. CASE In(s, c)
    <2>1. PICK i \in DOMAIN s : s[i] = c
      BY <1>1 DEF In
    <2>2. i \in DOMAIN (s \o t) /\ (s \o t)[i] = c
      BY <2>1, ConcatProperties, LenProperties
    <2> QED
      BY <2>2 DEF In
  <1>2. CASE In(t, c)
    <2>1. PICK i \in DOMAIN t : t[i] = c
      BY <1>2 DEF In
    <2>2. Len(s) + i \in DOMAIN (s \o t) /\ (s \o t)[Len(s) + i] = c
      BY <2>1, ConcatProperties, LenProperties
    <2> QED
      BY <2>2 DEF In
  <1> QED
    BY <1>1, <1>2

LEMMA RunKeeps ==
    ASSUME ready \in Seq(Callbacks), NEW callback, NEW scheduled \in Seq(Callbacks),
           Run(callback, scheduled)
    PROVE  \A c : (Queued(c) /\ c # callback) \/ In(scheduled, c) => Queued(c)'
  <1>1. /\ ready # <<>>
        /\ Head(ready) = callback
        /\ ready' = Tail(ready) \o scheduled
        /\ Tail(ready) \in Seq(Callbacks)
    BY HeadTailProperties DEF Run
  <1>2. ASSUME NEW c, Queued(c), c # callback
        PROVE  In(Tail(ready), c)
    <2>1. PICK i \in DOMAIN ready : ready[i] = c
      BY <1>2 DEF Queued
    <2>2. i # 1
      BY <1>1, <1>2, <2>1, HeadTailProperties
    <2>3. i - 1 \in DOMAIN Tail(ready) /\ Tail(ready)[i - 1] = c
      BY <1>1, <2>1, <2>2, HeadTailProperties, LenProperties
    <2> QED
      BY <2>3 DEF In
  <1>3. ASSUME NEW c, In(Tail(ready), c) \/ In(scheduled, c)
        PROVE  Queued(c)'
    <2>1. In(Tail(ready) \o scheduled, c)
      BY <1>1, <1>3, InConcat
    <2> QED
      BY <1>1, <2>1 DEF Queued, In
  <1> QED
    BY <1>2, <1>3

LEMMA AppendKeeps ==
    ASSUME ready \in Seq(Callbacks), NEW e \in Callbacks, ready' = Append(ready, e)
    PROVE  \A c : Queued(c) \/ c = e => Queued(c)'
  <1>1. ASSUME NEW c, Queued(c)
        PROVE  Queued(c)'
    <2>1. PICK i \in DOMAIN ready : ready[i] = c
      BY <1>1 DEF Queued
    <2>2. i \in DOMAIN ready' /\ ready'[i] = c
      BY <2>1, AppendProperties, LenProperties
    <2> QED
      BY <2>2 DEF Queued
  <1>2. Queued(e)'
    <2>1. Len(ready) + 1 \in DOMAIN ready' /\ ready'[Len(ready) + 1] = e
      BY AppendProperties, LenProperties
    <2> QED
      BY <2>1 DEF Queued
  <1> QED
    BY <1>1, <1>2

LEMMA ScheduledIsIn == \A e : In(<<e>>, e)
  BY DEF In

\* The tasks start with the watch; nothing has happened to them yet.
LEMMA StartWakes ==
    ASSUME ProcessInv, StartWorker
    PROVE  WakeupsOK'
  <1> DEFINE both == <<"shutdown_starts", "worker_starts">>
  <1>1. /\ both \in Seq(Callbacks)
        /\ In(both, "shutdown_starts") /\ In(both, "worker_starts")
    BY DEF In, Callbacks
  <1>2. /\ phase = "recovery"
        /\ loops' = [l \in Loops |-> "running"]
        /\ watch' = [shutdown |-> "starting", worker |-> "starting"]
        /\ ready' = ready \o both
        /\ resolved' = resolved
    BY DEF StartWorker
  <1> HIDE DEF both
  <1>3. ready \in Seq(Callbacks)
    BY DEF ProcessInv, ProcessTypeOK
  <1>4. In(ready \o both, "shutdown_starts") /\ In(ready \o both, "worker_starts")
    BY <1>1, <1>3, InConcat
  <1>5. Queued("shutdown_starts")' /\ Queued("worker_starts")'
    BY <1>2, <1>4 DEF Queued, In
  <1>6. ~resolved
    BY <1>2 DEF ProcessInv, PhasesOK, CausesOK, Before
  <1> QED
    BY <1>2, <1>5, <1>6 DEF WakeupsOK

LEMMA SignalWakes ==
    ASSUME ProcessInv, WakeupsOK, Signal
    PROVE  WakeupsOK'
  <1>1. \A c : Queued(c) => Queued(c)'
    BY AppendKeeps DEF Signal, ProcessInv, ProcessTypeOK, Callbacks
  <1>2. SomeLoopFailed' = SomeLoopFailed
    BY DEF Signal, SomeLoopFailed
  <1> QED
    BY <1>1, <1>2 DEF Signal, WakeupsOK

\* The task that waits is told, unless it is being told already.
LEMMA FailureWakes ==
    ASSUME ProcessInv, WakeupsOK, NEW l \in Loops, LoopFails(l)
    PROVE  WakeupsOK'
  <1>1. /\ loops' = [loops EXCEPT ![l] = "failed"]
        /\ UNCHANGED <<phase, watch, resolved, shutdown_event>>
    BY DEF LoopFails
  <1>2. /\ \A c : Queued(c) => Queued(c)'
        /\ watch.worker = "waiting" => Queued("loop_done")'
    <2>1. CASE watch.worker = "waiting" /\ ~Queued("loop_done")
      <3>1. ready' = Append(ready, "loop_done")
        BY <2>1 DEF LoopFails
      <3> QED
        BY <3>1, AppendKeeps DEF ProcessInv, ProcessTypeOK, Callbacks
    <2>2. CASE ~(watch.worker = "waiting" /\ ~Queued("loop_done"))
      <3>1. ready' = ready
        BY <2>2 DEF LoopFails
      <3> QED
        BY <2>2, <3>1 DEF Queued
    <2> QED
      BY <2>1, <2>2
  <1>3. \A k \in Loops : loops'[k] \in {loops[k], "failed"}
    BY <1>1 DEF ProcessInv, ProcessTypeOK
  <1> QED
    BY <1>1, <1>2, <1>3 DEF WakeupsOK

\* A callback of the watch hands on what woke it.
LEMMA CallbackWakes ==
    ASSUME ProcessInv, WakeupsOK, Callback
    PROVE  WakeupsOK'
  <1>0. /\ ready \in Seq(Callbacks)
        /\ watch \in [shutdown : TaskStates, worker : TaskStates]
        /\ QueueOK /\ CausesOK
    BY DEF ProcessInv, ProcessTypeOK
  <1> DEFINE Nothing == <<>>
             One(e) == <<e>>
             Hands(callback, scheduled) ==
                 \A c : (Queued(c) /\ c # callback) \/ In(scheduled, c) => Queued(c)'
  <1>N. \A callback : Run(callback, Nothing) => Hands(callback, Nothing)
    BY <1>0, NothingScheduled, RunKeeps
  <1>O. \A callback, e : e \in Callbacks /\ Run(callback, One(e))
            => Hands(callback, Nothing) /\ Queued(e)'
    <2>1. ASSUME NEW callback, NEW e \in Callbacks, Run(callback, One(e))
          PROVE  Hands(callback, Nothing) /\ Queued(e)'
      <3>1. Hands(callback, One(e)) /\ In(One(e), e)
        BY <1>0, <2>1, OneScheduled, ScheduledIsIn, RunKeeps
      <3> QED
        BY <3>1, NothingScheduled
    <2> QED
      BY <2>1
  <1> HIDE DEF Nothing, One
  <1>F. loops' = loops => SomeLoopFailed' = SomeLoopFailed
    BY DEF SomeLoopFailed
  <1>1. CASE SetEvent
    <2>1. /\ UNCHANGED <<phase, loops, resolved>>
          /\ Hands("set_event", Nothing)
          /\ IF watch.shutdown = "waiting"
             THEN Queued("shutdown_runs")' /\ watch' = [watch EXCEPT !.shutdown = "woken"]
             ELSE watch' = watch
      BY <1>1, <1>N, <1>O DEF SetEvent, Callbacks, Nothing, One
    <2> QED
      BY <1>0, <1>F, <2>1 DEF WakeupsOK
  <1>2. CASE ShutdownTaskStarts
    <2>1. /\ UNCHANGED <<phase, loops, resolved, shutdown_event>>
          /\ Hands("shutdown_starts", Nothing)
          /\ IF shutdown_event
             THEN Queued("shutdown_done")' /\ watch' = [watch EXCEPT !.shutdown = "done"]
             ELSE watch' = [watch EXCEPT !.shutdown = "waiting"]
      BY <1>2, <1>N, <1>O DEF ShutdownTaskStarts, Callbacks, Nothing, One
    <2> QED
      BY <1>0, <1>F, <2>1 DEF WakeupsOK
  <1>3. CASE ShutdownTaskRuns
    <2>1. /\ UNCHANGED <<phase, loops, resolved, shutdown_event>>
          /\ Hands("shutdown_runs", Nothing)
          /\ IF watch.shutdown = "woken"
             THEN Queued("shutdown_done")' /\ watch' = [watch EXCEPT !.shutdown = "done"]
             ELSE watch' = watch
      BY <1>3, <1>N, <1>O DEF ShutdownTaskRuns, Callbacks, Nothing, One
    <2> QED
      BY <1>0, <1>F, <2>1 DEF WakeupsOK
  <1>4. CASE WorkerTaskStarts
    <2>1. /\ UNCHANGED <<phase, loops, resolved, shutdown_event>>
          /\ Hands("worker_starts", Nothing)
          /\ SomeLoopFailed => Queued("loop_done")'
          /\ watch' = [watch EXCEPT !.worker = "waiting"]
      BY <1>4, <1>N, <1>O
         DEF WorkerTaskStarts, SomeLoopFailed, Callbacks, Nothing, One
    <2> QED
      BY <1>0, <1>F, <2>1 DEF WakeupsOK
  <1>5. CASE LoopDone
    <2>1. /\ UNCHANGED <<phase, loops, resolved, shutdown_event>>
          /\ Hands("loop_done", Nothing)
          /\ IF watch.worker = "waiting"
             THEN Queued("worker_runs")' /\ watch' = [watch EXCEPT !.worker = "woken"]
             ELSE watch' = watch
      BY <1>5, <1>N, <1>O DEF LoopDone, Callbacks, Nothing, One
    <2> QED
      BY <1>0, <1>F, <2>1 DEF WakeupsOK
  <1>6. CASE WorkerTaskRuns
    <2>1. /\ UNCHANGED <<phase, loops, resolved, shutdown_event>>
          /\ Hands("worker_runs", Nothing)
          /\ IF watch.worker = "woken"
             THEN Queued("worker_done")' /\ watch' = [watch EXCEPT !.worker = "done"]
             ELSE watch' = watch
      BY <1>6, <1>N, <1>O DEF WorkerTaskRuns, Callbacks, Nothing, One
    <2> QED
      BY <1>0, <1>F, <2>1 DEF WakeupsOK
  <1>7. ASSUME NEW callback \in {"shutdown_done", "worker_done"}, TaskDone(callback)
        PROVE  WakeupsOK'
    <2>1. /\ UNCHANGED <<phase, loops, watch, shutdown_event>>
          /\ Hands(callback, Nothing)
          /\ resolved'
          /\ ~resolved => Queued("watch_runs")'
      BY <1>7, <1>N, <1>O DEF TaskDone, Callbacks, Nothing, One
    <2> QED
      BY <1>0, <1>F, <2>1 DEF WakeupsOK
  <1>8. CASE WatchRuns
    BY <1>8 DEF WatchRuns, WakeupsOK
  <1> QED
    BY <1>1, <1>2, <1>3, <1>4, <1>5, <1>6, <1>7, <1>8 DEF Callback

LEMMA WakeupsNext ==
    ASSUME ProcessInv, WakeupsOK, [ProcessNext]_pvars
    PROVE  WakeupsOK'
  <1>1. CASE EmitStartup \/ StartupFails \/ StartFails
    BY <1>1 DEF EmitStartup, StartupFails, StartFails, WakeupsOK
  <1>2. CASE Stop
    BY <1>2 DEF Stop, EndWatch, StopNothing, StopWorker, GraceExpires, EndStop, WakeupsOK
  <1>3. CASE Closing
    <2>1. phase' \in {"session", "client", "engine", "ended"}
      BY <1>3 DEF Closing, Close, CloseFails, Resources, NextPhase
    <2> QED
      BY <2>1 DEF WakeupsOK
  <1>4. ASSUME NEW l \in Loops, LoopEnds(l)
        PROVE  WakeupsOK'
    BY <1>4 DEF LoopEnds, WakeupsOK
  <1>5. CASE UNCHANGED pvars
    <2>1. \A c : Queued(c)' = Queued(c)
      BY <1>5 DEF Queued, pvars
    <2> QED
      BY <1>5, <2>1 DEF WakeupsOK, SomeLoopFailed, pvars
  <1> QED
    BY <1>1, <1>2, <1>3, <1>4, <1>5, StartWakes, SignalWakes, FailureWakes, CallbackWakes
       DEF ProcessNext, Startup, Ended

\* However signals and failures fall between the callbacks of the watch, an
\* idle event loop means that the watch has missed none of them.
THEOREM NoWakeupIsLost == ProcessSpec => []IdleMeansQuiet
  <1>1. ProcessInit => WakeupsOK
    BY DEF ProcessInit, WakeupsOK
  <1>2. ProcessTypeOK /\ WakeupsOK => IdleMeansQuiet
    <2>1. ready = <<>> => \A c : ~Queued(c)
      BY DEF Queued
    <2>2. SUFFICES ASSUME ProcessTypeOK, WakeupsOK, phase = "watch", ready = <<>>
                   PROVE  ~shutdown_event /\ \A l \in Loops : loops[l] = "running"
      BY DEF IdleMeansQuiet
    <2>3. watch.shutdown = "waiting" /\ watch.worker = "waiting"
      BY <2>1, <2>2 DEF WakeupsOK
    <2>4. ~shutdown_event /\ ~SomeLoopFailed
      BY <2>1, <2>2, <2>3 DEF WakeupsOK
    <2> QED
      BY <2>2, <2>4 DEF WakeupsOK, SomeLoopFailed
  <1>3. ProcessInv => ProcessTypeOK
    BY DEF ProcessInv
  <1> QED
    BY <1>1, <1>2, <1>3, ProcessInvariance, WakeupsNext, PTL DEF ProcessSpec
=============================================================================
