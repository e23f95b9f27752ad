# Productivity bot in TLA+: from the webhook to the task

The bot accepts Telegram updates through a webhook, stores each in a PostgreSQL
inbox, and lets worker processes turn them into tasks in Singularity or into an
answer to `/next`. Singularity offers no idempotency key. The heart of the
program is therefore a protocol: *an accepted message creates its task at most
once, whatever dies, times out or is retried, and its row never lies about it.*
That protocol is what these modules model, check and prove; and around it what
it stands on: that the transactions of the inbox are as atomic as the protocol
takes them to be, that an update Telegram was told is accepted really is, that a
worker process ends in order and says why, and that `/next` answers as documented.

Paths below are relative to `src/src/productivity_bot/` unless they start with
`src/`.

## 1. The system

| component | state | operations | interacts with |
|---|---|---|---|
| **Update inbox** `adapters/postgres/telegram_update_inbox_repository.py`, `models.py` | one row per update: `status`, `attempt_count`, `available_at`, `claimed_at`, `external_mutation_started_at` | insert, claim, mark mutation started, reschedule, mark succeeded / failed / uncertain, recover | all processes, through transactions |
| **Update worker** `entrypoints/telegram/update_worker.py` | stop event, tasks; per loop the claimed update and its attempt | `start`, `stop`, `wait`, processing loops, recovery loop | inbox, dispatcher, handlers, Telegram |
| **Task capture** `handlers/capture_task.py`, `use_cases/capture_task.py` | none | commit the marker, create the task | attempt object, Singularity |
| **Next action** `handlers/next_action.py`, `use_cases/get_next_action.py` | none | read the active tasks, select one | Singularity, selector |
| **Singularity adapter and client** `adapters/singularity/` | connection pool, closed flag | `create_task`, `list_active_tasks`, `complete_task` (no caller), classification of failures | Singularity |
| **Task selector** `domain/services/task_selector.py` | none | `select_next_task` | - |
| **Webhook** `entrypoints/telegram/webhook.py` | none | authenticate, validate, insert, answer | Telegram, inbox |
| **Worker process** `bootstrap/telegram_update_worker.py`, `telegram_update_worker.py` | shutdown event, resources | start, watch, stop, close | worker, signals |
| **HTTP application** `bootstrap/application.py` | - | lifespan: register the webhook, serve, close | Telegram, webhook |
| **Configuration, migrations** | - | settings; the schema | - |

What is hard, and what each part must get right:

* *Inbox.* A claim is exclusive; every later write is fenced by status and
  attempt; recovery never returns to the queue what may have been sent - all of
  it under READ COMMITTED, with row locks, `SKIP LOCKED`, and a recovery of two
  statements.
* *Worker.* Recovery - of another process or of its own - overtakes loops
  between any two awaits; commits lose their acknowledgement; the process dies
  or is cancelled anywhere. The outcome a loop records must be true, and an
  update must settle in the end. A stop must end.
* *Capture.* The marker is durable before the request, and belongs to the
  attempt that calls.
* *Singularity.* A request that timed out may still take effect later.
* *Webhook.* 200 only for what is durable, also when two requests insert the
  same update at once; a redelivery changes nothing; nobody but Telegram fills a
  row.
* *Worker process.* Nothing is closed under a running loop, everything is closed
  whatever raises, a failed worker is not taken for a shutdown nor a shutdown
  for a failure, at whatever moment the signal comes.
* *Next action.* Pages of a list that changes while it is read; one repeatable
  task, in the order the documents give.

How the parts are composed: `UpdateWorker`, `InboxTransactions` and `Webhook` all
extend `Inbox` and act on its table. `UpdateWorker` sees the webhook as `Accept`,
`Webhook` sees the workers as `WorkersMove` (any operation, any order), and
`InboxTransactions` shows that both may take an operation as one step. What they
share is `InboxSpec`, the table by itself under any sequence of operations. The
first two are written with the operators of `Inbox`, so they keep to it by
construction; that the transactions do is a refinement, checked and proved.

`PROJECT.json` lists every component, also those left out, and under `hazards`
what is hard to test, each at its line.

## 2. Modules

| module | role |
|---|---|
| `Inbox` | the table, one operator per repository operation, and `InboxSpec`: the table under any sequence of them |
| `UpdateWorker` | processes, loops, recovery, handlers, Singularity; composes `Inbox` |
| `UpdateLifecycle` | abstract: what is promised about one accepted update |
| `UpdateWorkerProps` | properties, refinement mapping, inductive invariant of the workers |
| `InboxTransactions` | the repository's transactions, statement by statement, against `Inbox` |
| `Webhook` | HTTP processes, requests, Telegram's delivery; composes `Inbox` |
| `WorkerProcess` | `run_telegram_update_worker` on an event loop: startup, watch, stop, closing |
| `TaskSelector` | dates, sort key and choice; beside it the documented policy |
| `NextAction` | the paginated read, the changing list, the answer; uses `TaskSelector` |
| `MC...` | symmetry sets and the constants of the runs |
| `InboxProofs` | a lemma per repository operation; what `InboxSpec` never does |
| `UpdateWorkerProofs`, `UpdateLifecycleProofs` | safety of the workers; action properties and refinement |
| `InboxTransactionsProofs`, `WebhookProofs`, `WorkerProcessProofs`, `TaskSelectorProofs`, `NextActionProofs` | the theorems of the module they are named after |

### Inbox

A row is `[status, kind, attempt, marked, due, expired]`. `marked` is
`external_mutation_started_at IS NOT NULL`. Timestamps are kept as the two
comparisons the statements make: `due` (`available_at <= now()`, read while
pending) and `expired` (`claimed_at <= claimed_before`, read while processing).
Both become true at *any* moment, so every configuration of timeouts and any
skew between the clocks of workers and database is included (but see
`InboxTransactions`). `kind` is what the
payload turns out to be: a capture, `/next`, something no handler takes, or a
payload the worker's validation rejects (stored by another release). `InboxInit`
is the empty table the migrations leave.

An operation is one atomic step. `SKIP LOCKED` appears as the freedom to claim
any due row, and to claim none (`ClaimFails`). `Reschedule` leaves the marker in
the row as the code does; `Claimed` clears it.

`InboxSpec` lets anybody do any operation at any time, a transition with any claim
that was ever handed out, and a recovery of any set of abandoned rows (each
recovery has its own `claimed_before`). It is the abstract specification that
`InboxTransactions` implements.

### InboxTransactions

Why that is sound. A transaction runs a statement: a snapshot of the rows that
match (`Execute`), then row by row `ComeTo`, and `Write`, `PassBy` or, in the
claim alone, `SkipLocked`. A row another transaction has written is waited for;
after the wait its latest version is looked at, and the `WHERE` clause is
evaluated on it again. `Commit` applies the `SET` lists (`Written`), `Abort` is a
lost connection, a death, a cancellation or a deadlock victim. The claim writes
back the count it had loaded (`read + 1`), as the ORM does, and recovery goes
through its two statements with a snapshot each. `inbox` holds committed rows
only. `claimed_before` is a value fixed before the first statement, so recovery
carries the set of claims that were expired then. In this module that set, the
value and the first snapshot are taken in one step, and no claim made later
matches: the clocks of the workers differ by less than the claim timeout. (The
code compares timestamps; a claim stamped by a clock further behind would match
at once. `Inbox` and `UpdateWorker`, where a claim may expire at any moment, do
not need the assumption.)

### UpdateWorker

`pc` says at which await a loop stands:

    polling -> claiming -> claimed -> marking -> calling -> awaiting -> persisting -> replying -> polling
                                   \-> reading ----------------------/

* `claiming`: `claim_pending_update` is under way. It commits even if the stop
  event is set meanwhile (`ReturnClaim` then gives the row back).
* `marking`, `calling`, `awaiting`: before the marker, between marker and
  request, between request and answer. `create_task`'s classification is
  `CallNotSent` (three transport errors), `Reject` (4xx), `Confirm` (2xx, usable
  body or not), `LoseTrack` (everything else).
* `persisting`: `_persist_processing_transition`. `result` is the outcome to
  record. A failure before the commit changes nothing (a stuttering step); a
  commit without acknowledgement is `PersistUnacknowledged`; a refused transition
  drops the result (`PersistRefused`). For a claim that goes back because of the
  stop event the refusal escapes from the loop and ends its task (171-176 have no
  `try`); the model lets that loop go to `polling`, where a stopping loop only exits.
* `sent`, `applied`, `refused` are the world outside: requests named by the
  attempt that sent them. Singularity serves a request at any later time, also
  after the worker is gone.

`StartWorker` is a recovery pass and the start of all loops, `StopWorker` the
stop event, `GraceExpires` the cancellation after the grace period, `ExitWorker`
the end of a process whose tasks are over, `Crash` its death at any point. The
recovery loop exists per process, with its query in flight as a state of its own
(`recovering`), so that a stop or a crash can hit it.

`CallBreaks`, `LoseTrack`, `Reject` after `SendRequest` cover all exceptions
that leave the handler; an exception before the marker is `failed`.

### Webhook

A request goes `received -> inserting -> inserted | duplicate -> ok`, or to
`refused` (401, 422) or `error` (500). `inserted` is a row written and not
committed: another request for the same update can neither insert nor find it
until that transaction has ended, as the unique index makes it. `payload` records
whose payload a row holds and `valid` which updates pass pydantic; anybody may
post under any id (`Intrude`). Telegram sends an update until it has seen a 200,
without waiting for earlier answers. A process registers the webhook before it
serves; it may die at any point (`EndServer`), which rolls back what its requests
had not committed and loses the answers to what they had.

Assumed: `WEBHOOK_BASE_URL` is set, and Telegram repeats an update that was not
answered with 200, as ADR 0001 takes it to do.

### WorkerProcess

`phase` follows `run_telegram_update_worker` into its nested `finally` clauses,
where a phase is named after what is closed in it. `raised` collects what is on
its way out. The watch is modelled callback by callback: `ready` is asyncio's
queue as far as it concerns `shutdown_event`, the two tasks and `asyncio.wait`.
That is where the races are: the event is set by a callback, wakes a task by
another, whose completion schedules a third, which at last lets the watch run -
and only then `worker_task in done` is evaluated, when a second task may be done
too. The model begins at the `try`: building bot, engine and handlers comes before
it, and an exception there ends the process with nothing closed. `stop()` gathers
its tasks with `return_exceptions=True`; it raises only when it is cancelled
itself, which is not modelled, so `raised` holds failures of startup, of the
initial recovery, of the watch and of what is closed.

### TaskSelector and NextAction

Instants and ids are numbers. A date of Singularity has an offset or not;
`LocalToUtc` is any function from readings of the user's clock to instants, so
gaps and repetitions of clock changes are included. `SelectionKey` is the tuple
of the code, `KeyLess` Python's order of tuples, `SelectNextTask` the first
minimum. `RanksBefore` is the policy of `src/docs/architecture.md:496-527`,
written from its words and not from the code.

`NextAction` reads `remote`, the active tasks in the order of the API, page by
page; tasks are added, removed or moved between two requests. `throughout`, the
tasks that were active since the read began, and `disturbed`, the number of tasks
removed or moved since, are observers. A failed read drops what it had. The
handler takes `now` before the first request (`BeginRead`) and nothing looks at the
clock again; `answeredAt`, any instant from `now` on, is an observer of what the
clock shows when the answer is ready.

## 3. Properties

The workers (`UpdateWorkerProps`):

| property | says |
|---|---|
| `AtMostOneRequest` | at most one attempt of an update ever sends a creation request |
| `NoBlindRetry` | a row that may be claimed has never sent one |
| `SucceededMeansApplied` | a succeeded capture has its task |
| `FailedMeansRefused` | a failed update has no task, and no request that could still create one |
| `MarkerCoversTheCall` | while a loop calls, its row carries the marker of this attempt or is closed as uncertain |
| `MarkersAreFresh` | no earlier attempt left a marker that would stop the current one |
| `ExclusiveAttempts` | no two loops share an attempt |
| `RepliesFollowSuccess` | only the attempt that recorded a success answers |
| `TerminalIsFinal` | a terminal row never changes |
| `OldAttemptsAreFenced` | a superseded attempt leaves the row alone |
| `UnexpiredClaimsHold` | until its claim expires, a row is its loop's, or takes the outcome this loop records: nothing else closes or returns it |
| `AttemptsAreOwed` | every attempt but the first is owed to an adverse event, and an event costs an update at most one attempt per loop of a process |
| `StoppingWindsDown` | after the stop event no handler is started, no claim is begun and a late one goes back unworked: every change of a loop's place brings it nearer its end (`StepsLeft`, nine at most) |
| `ImplementsLifecycle` | the workers refine `UpdateLifecycle` |
| `IInv` | the inductive invariant of section 5; among its parts `TypeOK` and `UncertainMeansMarked` (only captures past their marker are uncertain) |
| `UpdatesSettle` | an accepted update reaches a terminal status |
| `ShutdownEnds` | a stop ends |

What they stand on and what stands beside them:

| property | says |
|---|---|
| `CommitsAreOperations` | the transactions refine `InboxSpec`: what they commit is always a whole operation, on the rows as they are at the commit |
| `RefusedMeansLost` | `UpdateTransitionError` only if the attempt has lost its row, not because somebody held the row for a while |
| `RecoveryLeavesNone` | no claim slips between the two snapshots of a recovery |
| `OnlyRecoveriesDeadlock` | claims, markers and results are never victims of a deadlock |
| `AnsweredIsStored` | 200, also to a duplicate, means a committed row |
| `StoredIsTelegrams` | a row holds Telegram's valid payload; nobody can occupy an id first |
| `RedeliveryIsHarmless` | after its insertion only workers change a row |
| `UpdatesAreAcknowledged` | a valid update Telegram keeps sending is acknowledged |
| `NothingClosedUnderALoop` | dispatcher, session, client and engine outlive the loops |
| `EverythingIsClosed` | at the end all were told to close, whatever raised |
| `SuccessMeansSignal`, `OnlyFailuresAreErrors` | exit without error only after a signal; an error of the watch only after a failure |
| `IdleMeansQuiet` | no signal and no failure gets lost between the callbacks of the watch: when a watching process has nothing to run, none has come |
| `FailureIsReported`, `SignalEndsTheProcess` | a loop that fails first ends the process with an error; a signal ends it at any time |
| `AnswerIsTimely` | by the clock at which the answer is given, only a task that started or became overdue during the read ranks before it; in a read that takes no time it is the policy's choice |
| `EachDisturbanceHidesOne` | of the tasks active throughout, the read misses at most one for each task removed or moved meanwhile, and none for those that appear |
| `NothingBetterWasActive` | unless tasks were removed or moved, none that was active throughout ranks before the answer |
| `ReadIsBounded` | the read ends, however the list changes |

Proved without a run of their own: `LostStaysLost` (an attempt that is not current
is never current again) and `MarkersOutlast` (a marker stays for as long as its
attempt is the row's last), of `InboxSpec` and of the workers;
`AnswerFollowsPolicy` (the answer is the policy's choice among the tasks read, at
the reference time the handler took), which `AnswerIsTimely` contains.

`UpdateLifecycle` is the promise in a page: `absent -> pending -> processing ->`
back or to a terminal status, beside the effect `none -> issued -> applied |
refused` of the only request. It allows the request of an *uncertain* update to
be issued late: recovery may close the row between the marker and the call, and
the loop does not look at the row again. The refinement mapping computes the
effect of an update from `sent`, `applied` and `refused`. One recovery pass moves
many rows, so a step of `UpdateLifecycle` may advance several updates.

## 4. Runs

| run | instance | checks |
|---|---|---|
| `safety` | 2 processes of 1 loop, 2 updates, 2 faults; about 1.1 million states | eight safety invariants, `TerminalIsFinal`, `OldAttemptsAreFenced`, `UnexpiredClaimsHold` |
| `lifecycle` | 1 process of 2 loops, 2 updates, 2 faults; about 600 000 | `ImplementsLifecycle`, `StoppingWindsDown`, `AttemptsAreOwed`, `IInv` |
| `liveness` | 2 processes of 1 loop, 1 update, 2 faults; about 64 000 | `UpdatesSettle` |
| `shutdown` | 1 process of 2 loops, 2 updates, 1 fault; about 335 000 | `ShutdownEnds` |
| `transactions` | 2 connections, 2 rows, 2 attempts; about 860 000 | type invariant, `CommitsAreOperations`, `RefusedMeansLost`, `RecoveryLeavesNone`, `OnlyRecoveriesDeadlock` |
| `webhook_safety` | 2 processes of 2 requests, 1 update, 2 faults; about 77 000 | type invariant, `AnsweredIsStored`, `StoredIsTelegrams`, `RedeliveryIsHarmless` |
| `webhook_liveness` | 2 processes of 1 request, 1 update, 2 faults; about 6 700 | `UpdatesAreAcknowledged` |
| `worker_process` | 2 processing loops and the recovery loop; about 3 200 | the type invariant, five invariants and two liveness properties of the process |
| `next_action_answers` | 3 tasks, pages of 2, 4 instants, 288 catalogs, 2 changes; about 5.9 million | type invariant, the four properties of the answer |
| `confirmed_uncertain`, `unsent_uncertain` | 2 processes, 1 update, 2 faults | *violated*: section 6 |
| `next_action_active` | as `next_action_answers`, 1 change | *violated*: section 6 |

Bounds of the workers. `MaxFaults` bounds the adverse events of a behaviour:
crashes, stops, claims that expire under a live loop, failed claims, markers and
recoveries, calls that could not be sent, unavailable reads. Everything else is
unbounded: the answers of Singularity, abandoned claims expiring, lost
acknowledgements of transitions, failed starts. Attempts grow only with faults
(`AttemptsAreOwed`, proved), which keeps the state space finite. Two faults are what the worst stories need: a
claim that expires under its loop and a second failure of the loop, process or
marker that follows. Two actors on one row are enough for a race over it, since a
row knows only its current attempt; a second update shows that rows do not
disturb each other and lets a recovery pass move two at once. Two processes and
two loops of one process are separate runs because they share different things
(the recovery loop and the stop event).

Bounds elsewhere. Two connections and two rows are the smallest instance in which
recoveries deadlock, a claim skips a locked row, and a marker is committed between
the two statements of recovery; `MaxAttempts` = 2 lets an attempt be superseded.
Aborts are not bounded. In `webhook_safety` two requests in each of two processes
race for one update, two faults fail an insert and lose an answer or end a
process; rows do not interact at the webhook, so one update is enough, and one
attempt shows a worker moving it. A page of two and three tasks give a full page
followed by a short one, a full page followed by an empty one, and with an added
task a third request; two changes let a task be added and another one removed.
The three tasks take the dates and priorities that separate the components of the
key, with an overdue, a due-now and a local date whose order on the clock is not
their order in time. `WorkerProcess` has no bound but the number of loops.

Symmetry over updates, processes, loops, connections and requests is used in
safety runs and in no liveness run. Deadlock of the *models* is checked
everywhere: workers can always poll, a transaction can always abort, anybody can
post to a server that serves, an ended process stutters by `Ended`, and a read can be begun again.

Fairness. `FairSpec` assumes that the tasks of a running event loop make progress
(`WF` of a loop's steps and of the recovery loop's), that a call ends - the
client has a 10 s timeout, the statements are finite -, that a process that ended
is restarted by its supervisor, that the grace period ends, and that time passes
for `available_at` and for abandoned claims. `LoopStep` is one action, so a loop
may still choose failures for as long as `MaxFaults` allows: `UpdatesSettle` says
that an update settles once the failures stop. There is no attempt limit in the
code, so it would be false without that. Nothing is assumed of Singularity: a
loop in `awaiting` may always lose track. `ShutdownSpec` assumes of all this only
that the grace period ends and that a process without tasks leaves: a stop ends
although a loop retries against a dead database without watching the stop event.
`FairWebhookSpec`: processes are restarted and register, handlers run, an answer
that is not lost arrives (`WF`); Telegram's repeated delivery gets through now and
then - strong fairness, because a busy slot disables it again and again. Nothing
is assumed of the workers. `FairProcessSpec`: the event loop runs, startup, stop
and closing return or raise, a cancelled loop ends; no loop has to fail, and none
to end because it was asked to - the grace period sees to that.

Every property of a passing run has a mutant in `PROJECT.json`: a plausible bug,
written next to the definition it replaces (a fence that forgets the attempt, an
`UPDATE` that skips locked rows, a duplicate answered before it is committed, a
watch that looks for the signal first, a key with two components swapped, ...),
under which TLC finds the property violated.

## 5. Proofs

For all values of the constants:

* `UpdateWorkerProofs`. `Invariance`: `Spec => []IInv`, and from it one theorem
  for the type invariant, for `UncertainMeansMarked` and for seven of the eight
  safety invariants of the run `safety`.
* `UpdateLifecycleProofs`. `MarkersStayFresh`, the eighth, inductive relative to
  `IInv`; `TerminalStays`, `AttemptsAreFenced`, `ClaimsHoldUntilExpired`,
  `StopsWindDown`, action properties; `AttemptsNeedFaults`, the bound on attempts;
  `LifecycleKept` (`Spec => Lifecycle!Spec`), the refinement.
* `InboxProofs`. `LossesAreFinal` and `MarkersStay`, of `InboxSpec`, and so of the
  workers, who do nothing else to the table (`WorkersLossesAreFinal`,
  `WorkersMarkersStay`), and of the transactions.
* `InboxTransactionsProofs`. `TransactionsAreAtomic` (`TxSpec => InboxSpec`),
  `RefusalsAreTrue`, `RecoveryIsComplete`, `DeadlocksAreRecoveries`, for any number
  of connections.
* `WebhookProofs`. `AcknowledgedMeansStored`, `RowsAreTelegrams`,
  `RowsAreLeftToWorkers`, for any number of processes, requests and updates.
* `WorkerProcessProofs`. `LoopsEndFirst`, `AllResourcesClose`, `SuccessIsAsked`,
  `WatchErrorsAreFailures`, `NoWakeupIsLost`, for any set of loops.
* `TaskSelectorProofs`. `KeyIsPolicy`: the tuple and the policy rank any two
  tasks alike. `SelectionFollowsPolicy`: so does the choice, for any list.
  `PolicyIsTransitive`: the documented policy is an order. `OrderDoesNotMatter`:
  two lists of the same tasks give the same choice, so neither the order of the
  API nor a task that is read twice decides the answer.
* `NextActionProofs`. `PaginationIsComplete`, `PaginationIsBounded`,
  `AnswersFollowPolicy`, `AnswersAreTimely`, `AnswersAreBest`, for any page size,
  tasks, dates and duration of the read.

Every module also has the theorem of its type invariant.

Assumptions, all named in the module that declares the constants: bounds are
natural numbers; `NoClaim`, `NoUpdate`, `NoDate`, `NoTask` are outside the sets
they are added to; there is a loop in a process, and a process has finitely many
processing loops (`SlotsAssumption`: the code makes one per unit of its
concurrency; only the count of `AttemptsAreOwed` needs it); the user's tasks are
finitely many, their ids and all instants natural numbers; a page has at least one task.
No other set need be finite.

*The workers.* None of the safety invariants is inductive. That no second request
is sent follows from what loops know about the past: a loop in `calling` has sent
nothing under its attempt, one that will reschedule has not either. `IInv` is

* `TypeOK`;
* `Records`, what rows and requests say of each other - above all `RequestsOK`:
  a request was sent by the *current* attempt of its row, which is marked, a
  capture, and not pending; a failed row's request is refused;
* `Workers`, what each loop relies on: `LoopsOK` (its claim and result fit its
  place), `ClaimsOK` (no claim is ahead of its row), `ExclusiveAttempts`,
  `KnowledgeOK` (what it knows of its request until it records it) and
  `MarkerCoversTheCall`;
* `DownMeansStopped`: a process that is down has no loop.

The heart of the argument is that a marked row never returns to the queue except
by the loop that holds its attempt and knows it sent nothing, and that a claim
takes a fresh attempt; so the attempt of a request never gets a successor.

The proof has a lemma per repository operation (`InboxProofs`: which row it
changes, what it keeps) and a lemma per family of actions: steps that change no
record (`LocalStepsKeep`), steps that write a row, steps of time and recovery
(`DriftKeeps`: any row may drift from processing to pending or uncertain under
any loop), and process steps. `UpdateLifecycleProofs` adds that a loop writes
only a row it claims or one it currently holds (`LoopWrites`, `FencedWrite`), and
that the effect of an update is determined by the invariant in the states where
its status changes (`EffectsKnown`).

*The attempts.* `AttemptsAreOwed` counts, and is proved with a charge account,
`AttemptsCharged`. An update that is neither terminal nor `Secure` - in the hands of
a running loop that will end with an outcome, under a claim that has not expired -
may cost one attempt more (`Charge`); and so may each loop of a stopping process
whose claim is still under way (`Returning`): it will take the row and give it back.
Attempts made, charge and returning loops together never exceed one plus the number
of loops of a process for each adverse event. Every smooth step keeps the sum: a
claim by a running loop turns a charge into an attempt, a claim by a returning loop
removes that loop. Every adverse event, the stop of a process included, pays for what
it adds.

*The claims.* `ClaimsHoldUntilExpired` goes through the writers of a row
(`InboxWriters`): the loop itself, a claim, which takes pending rows only, a clock,
and recovery, which takes expired ones only. Both findings of section 6 that
concern the worker therefore need a claim that outlived its timeout.

*The stop.* `StoppingWindsDown` is a measure over the places of a loop
(`StepsLeft`): a loop is moved by itself (`LoopWindsDown`, action by action) or ended
by its process (`MovedOrEnded`), and both lower it. A dispatch after the stop event
would raise it. The refinement and the bound on attempts would not notice that one:
a handler started too late is still a handler.

*The transactions.* `TxInv` says of each transaction what it knows: the rows it
holds are still as its statement wants them (`HoldsOK` - nobody else can write
them, by `LocksExclude`); a transition reaches its row unless the attempt has lost
it (`FoundOrLost`); a recovery reaches each of its claims or leaves it, marked, to
its second statement (`TakenOrLeft`). The last is the point of the order of the
two statements: a marker can be set between them and is never taken back, so what
the first passes by the second finds. A commit then maps to an operation of
`Inbox`, since the rows it writes satisfy that operation's guard at that moment.

*The webhook.* `WebhookInv`: past the checks a request is genuine and valid, and a
`duplicate` has met a committed row; rows never go away.

*The process.* `ProcessInv` ties phases to what runs and what is closed, every
queued callback to what it implies of the tasks, and every completed task to its
cause. `WakeupsOK`, inductive relative to it, is the converse: whatever a task of the
watch waits for and has happened is on its way through the queue (a task that starts
has its first step there, a woken one its next, a completed one the watch, a failed
loop the callback that wakes the worker task - also when the loop failed before that
task had begun to wait, since `asyncio.wait` looks first).

*The answer.* `AnswersAreTimely` needs that the ranking does not drift by itself
(`RankIsSettled`): all distances of overdue deadlines grow alike, those of others
shrink alike, so two tasks change places only when one of them becomes overdue. That
of the answer may: then it goes further ahead. `KeyIsPolicy` unfolds the order of tuples and goes through the cases
of present and missing dates. `PaginationIsComplete` rests on `FewPassedBy`:
of the tasks active from the start, all but as many as were removed or moved are
read or lie behind the offset. An insertion only pushes tasks back
(`InsertedHidesNone`); a removal pulls at most the first task behind the offset in
front of it (`RemovedHidesOne`), and a move does that or takes the moved task there,
never both.

Only model-checked: the liveness properties (`UpdatesSettle`, `ShutdownEnds`,
`UpdatesAreAcknowledged`, `FailureIsReported`, `SignalEndsTheProcess`), which need
fairness, and that the three properties of the next section fail.

## 6. Where documents and code disagree

* `confirmed_uncertain`. `src/docs/architecture.md:302-308` says that a confirmed
  mutation is recorded as `succeeded` and that a worker does not discard a known
  result it cannot persist yet. Claims are not renewed: if the database refuses
  the transition for longer than the claim timeout, recovery - in any process,
  the worker's own included - closes the marked row as `uncertain` first. The
  worker's next try gets `UpdateTransitionError`, the confirmed result and its
  reply are dropped, and the loop goes on claiming.
* `unsent_uncertain`. ADR 0002
  (`src/docs/decisions/0002-run-telegram-update-worker-as-a-separate-process.md:61-63`)
  says that failures known to precede the request must not become `uncertain`.
  An attempt whose marker was committed without acknowledgement, or whose
  connection failed, waits to be rescheduled with the marker in its row; when its
  claim expires in between, recovery makes it `uncertain`. The ADR grants the
  ambiguity to a crash (lines 67-69), and here nothing crashed.
* `next_action_active`. `list_active_tasks` promises all active tasks
  (`adapters/singularity/adapter.py:72`), but pages by offset: a task that is
  completed or deleted between two requests shifts another one in front of the
  offset, and that one is never read. `/next` may then propose a task although a
  better one was active all the time. It takes more than 1000 active tasks;
  tasks that appear do no harm, and a task removed or moved hides one task at most
  (`EachDisturbanceHidesOne`).

The first two are safe - no task is lost or doubled - and cost a manual review. They
need a claim that expires under its loop (`UnexpiredClaimsHold`).

## 7. Not modelled, and why

* *Time.* Expiry at any moment covers every timeout and every clock skew for
  safety. For how long a live claim is safe, and what skew costs in duplicate
  work, needs clocks in the model. The retry intervals are part of that.
* *The attempt limit there is not.* A permanent connection failure keeps an update
  pending for ever; the documents promise no limit. What is proved instead is that
  nothing but failures causes attempts (`AttemptsAreOwed`).
* *What gateways answer.* Every 4xx counts as a rejection by Singularity itself,
  as in the code. Whether a 408 or 499 of something in between means that is not in
  the repository.
* *Dates at the ends of the calendar.* `astimezone` raises `OverflowError` there,
  which nobody classifies. Its outcome is in the models (`LoseTrack`, the stage
  `unexpected`), the arithmetic of `datetime` is not.
* *`complete_task`* has no caller. Its classification is that of `create_task`.
* *The client's* checks of paths and its lazily made pool: one caller per process,
  constant paths. Its closing is in `WorkerProcess`.
* *Configuration* is parsed before anything runs. *Migrations* run offline; the
  second one closes the `processing` rows of the release before it as `uncertain`,
  rows of a protocol this repository no longer has. `downgrade` is not part of the
  system's operation.
* *Construction* of the two processes (`create_app`, and what
  `run_telegram_update_worker` builds before its `try`): it touches neither the
  table nor Singularity. If it raises, what was built is not closed.
* *A clock that is set back* while `/next` reads: `answeredAt` is not before `now`.
* *The health route* answers a constant. *Logging and texts* decide nothing.
* *Platforms without signal handlers*, where `KeyboardInterrupt` cancels the main
  task instead of setting the event.
* *Authorization* is part of an update's `kind`; the dispatcher of aiogram is
  external: it hands an update to the capture handler, to the `/next` handler or
  to none.

## 8. How to run

    tlc -workers 2 -config MCUpdateWorker_safety.cfg MCUpdateWorker
    tlc -workers 2 -config MCInboxTransactions.cfg MCInboxTransactions
    tlapm UpdateLifecycleProofs.tla
