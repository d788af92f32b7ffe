# A TLA+ model of Ruth

Ruth (`src/`) is a daemon that reads chat messages, turns some of them into
tasks, runs the tasks one at a time with a language-model runtime in a git
worktree, publishes the result for review, and reports back in the chat.  It
also starts work by itself, proposes changes to itself, inherits changes from
its parent, shops in the user's applications, and replaces its own code.  It
has to do that across crashes, restarts, takeovers by a newer daemon, and
services whose answers get lost.  Its core is therefore a set of small durable
protocols, and those are what this directory models, checks with TLC and
proves with TLAPS.

Paths of code below are relative to `src/src/ruth/` unless they begin with
`src/`, `tests/` or `docs/`.

## 1. The system

### Components, state, operations

| component | code | durable state | operations |
|---|---|---|---|
| task queue | `tasks/queue.py` | `task_queue.json`: pending, paused, running, history, next id | enqueue, begin, claim, heartbeat, record publication and evidence, finish, retry, pause, resume, cancel, regress, resolve, reconcile |
| workflow engine | `workflows/local.py` | none of its own; liveness of worker threads | claim, heartbeat, finalize, cancel, recover, reconcile |
| task runner | `app/core.py`, `app/task_workflow.py` | in memory: queue thread, direct threads, cancellation events | main loop, `/task`, `/do`, `/stop`, `/task cancel`, run one task, publish, finalize |
| daemon epoch, effect fence | `app/epoch.py`, `app/effects.py` | the current epoch | begin, guard a transaction or an effect |
| chat inbox | `app/inbox.py`, `app/core.py` | a receipt per event, a cursor | poll, begin, complete, fail, reply, acknowledge |
| notification delivery | `app/notifications.py` | a record per idempotency key | send, edit, recover |
| task events | `tasks/events.py`, `extensions/events.py` | an append-only log, receipts of each extension | append, drain, acknowledge |
| cron, schedules, backlog | `cron.py`, `extensions/schedules.py`, `backlog.py` | due times, claims, keys, items | claim an occurrence, enqueue, record, promote |
| evolution | `evolution/` | logs, scan versions, evidence, candidates, proposals | scan, synthesize, curate, propose, approve, remove |
| lineage | `lineage/` | inbox of the parent's changes, a queue of one assessment | scan, assess, adapt, link, ignore |
| shopping, application SDK | `shopping/`, `src/libraries/app-sdk` | a receipt per message; at the application messages, answers, orders | poll, reason, order, answer, photos |
| task worktrees | `tasks/worktree.py`, `app/task_workflow.py` | a working copy and a branch for each task | prepare, capture, publish, remove, discard, recover |
| immune system | `immune.py`, `validation_environment.py` | the shared validation environment | check, provision |
| private state migration | `private_state.py` | versioned files, a manifest | plan, back up, write, validate, roll back |
| updater, process life | `operations/updater.py`, `application.py`, `channel.py` | the checkout, a record of the last run | start, take over, stop, update, roll back |
| durable files | `state.py`, `storage/local.py` | files | lock, atomic write |
| the rest | memory, providers, identity, task failures, CLI, conformance | text, configuration | no protocol of its own, or pure I/O |

`PROJECT.json` lists every one of them with its status.

### How they interact

    chat provider --events--> inbox --/task, /do, /stop--> task queue --log--> task events -> hooks
                                 |                           ^   |
                                 | reply                     |   | begin, claim, finalize
                                 v                           |   v
                          notification delivery <--final-- task runner -> runtime, worktree, doctor, forge
                                                             ^
           cron, schedules, backlog, /evolve, /inherit, enqueue
           daemon epoch: guards every transaction and effect of the above
           applications <--poll, answer, order-- shopping <--chat turn
           updater, migration: replace the code and the files of all of it

* **Shared state.**  `state.file_transaction` takes a thread lock and an
  `flock`, and `atomic_write` writes a temporary file, syncs and renames it.
  A transaction of one file is thus an atomic step between threads and
  processes, and durable when it returns.  All models take this as given; what
  is spread over several files, or over a read and a later write, is several
  steps.
* **Threads.**  One process has a main thread (reconcile, then poll and handle
  a batch), at most one queue thread, a thread for each direct task, and cron,
  shopping and assessment threads.
* **Epochs.**  Workflow mutations, fenced effects and notification deliveries run
  under `daemon_epoch_guard`, and `begin_daemon_epoch` takes the same lock.

### What is hard

Interleavings of the main thread with task threads between two transactions;
a task started and not yet claimed; reconciliation from an inspection made in
an earlier transaction; a crash between an effect and its record; a run that
lost its task and goes on; an answer lost after a message was shown or an order
placed; one event of a batch that fails; an inbox written back over what
another daemon decided; a daemon that starts while its files are migrated or
its code is replaced.  `PROJECT.json` lists each under `hazards`, at its line,
with the property that covers it.  One has none: the reuse of process ids
(`workflows/local.py:545`); here a worker is alive or it is not.

## 2. Modules

| module | what it is | code |
|---|---|---|
| `TaskLifecycle` | abstract: phases of a task, at most one runs | what the queue promises |
| `TaskQueue` | one action for each transaction of the queue | `tasks/queue.py` |
| `TaskRunner` | EXTENDS `TaskQueue`: the daemon that drives it | `app/core.py`, `app/task_workflow.py`, `app/epoch.py`, `workflows/local.py` |
| `NotificationPromise` | abstract: shown at most once, fate final | what delivery promises |
| `Notifications` | delivery, with every provider and every answer | `app/notifications.py` |
| `ChatInbox` | one channel; replies through `NotificationPromise` | `app/inbox.py`, `app/core.py` |
| `TaskEvents` | the log and its drain; the queue through `TaskLifecycle` | `tasks/events.py`, `extensions/events.py`, `app/core.py` |
| `Scheduling` | passes over cron jobs, schedules and backlog | `cron.py`, `extensions/schedules.py`, `backlog.py`, `app/core.py` |
| `Evolution` | scans, proposals, approvals | `evolution/`, `app/core.py` |
| `Lineage` | inbox, commands and assessments of the parent's changes | `lineage/`, `app/core.py` |
| `Shopping` | one message after the other, through its saved stages | `shopping/`, app and agent SDK |
| `Doctor` | checks and the shared validation environment | `immune.py`, `validation_environment.py` |
| `Workspaces` | EXTENDS `Doctor`: a task's working copy and branch | `tasks/worktree.py`, `app/task_workflow.py` |
| `PrivateState` | versioned files and their migration | `private_state.py` |
| `Operations` | EXTENDS `PrivateState`: processes and updates | `operations/updater.py`, `application.py`, `app/core.py` |
| `*Proofs` | theorems, see section 4; `TaskRunnerProofs` (queue and daemon), `DeliveryProofs` (notifications and task events) and `SelfChangeProofs` (operations and evolution) are about two modules each | |
| `MC*` | definitions for TLC's instances | |

    TaskLifecycle        <- implemented by -  TaskQueue       (LifecycleSpec)
    TaskQueue            <- implemented by -  TaskRunner      (QueueSpec)
    NotificationPromise  <- implemented by -  Notifications   (PromiseSpec)
    NotificationPromise  <- used by        -  ChatInbox       (Replies)
    TaskLifecycle        <- used by        -  TaskEvents      (Life)

Operators that a comment calls a *seeded fault* are mutations of the definition
after them: with the fault in its place TLC finds a property violated.
`PROJECT.json` names the pairs; no specification uses them.

### TaskQueue

`job[j]` is the record of task `j`; `pending`, `paused` and `running` are the
lists of `task_queue.json`, `history` is a set because its order is only
reported.  Each action is one function of `queue.py` under
`_queue_transaction`.  There is no scheduler: any caller may call anything at
any time, with any argument a caller in the source passes, so what holds here
holds for every thread, command and crash.  Of lease ids a reconciler only asks
"the one I saw or another", so two values suffice: `FreshLease` returns one that
differs from the inspected one.  `Inspect` is the reconciler's read;
`Reconcile*` are the outcomes of `reconcile_running_task`, with or without the
inspected identity (`Fenced`).  `Proven` collects what the durable evidence says
of a dead owner's task, `Unsupported` what only a person can decide.  `renewed`
and `pauses` are history variables.  Text, workspaces, result messages, runtime
usage and times are left out: a retry waits with `due` false until `BecomeDue`.

### TaskRunner

`main` is the main thread between two transactions, `loop` the queue thread,
`run[w]` an execution of `_run_action_job` under worker id `w`.  The `pc` of a
run goes through the transactions of the code in their order:

    begun -> claimed -> working -> validated -> captured -> reviewed -> cleaning
       (each may leave with an outcome) -> leaving -> settled -> closing -> telling -> ended

`cancels` is `_task_cancellations`, keyed by task and not by run as in the code;
`signalled` are the runs whose event is set.  `Start` is a new daemon, with or
without a crash before it: runs of the old one become `stale` and can change
nothing, because the epoch guard refuses every transaction and effect, but they
live on until `OldProcessExits`, which is what reconciliation sees.  A run that
closed its task tells the chat in two steps, as the code sends two messages:
`Announce` edits the status message (`told`), which may fail without a trace, and
`Tell` sends the summary under the task's one notification key (`final`), which
becomes `"unsent"` when it cannot be sent or the process ends before it.  Nothing
sends it again.  What comes before them may raise (`ThreadEnds`), and so may what
precedes the work or any transaction of the run (`ThreadFails`).

### Notifications, ChatInbox

`call` is a delivery between two of its transactions, `record` the durable
record.  A provider is four capabilities (durable receipts, reconciliation,
idempotent sends, and `loses`: it may raise a disconnection for a message it has
shown).  `Restart` may happen in the middle of a call, `Interrupt` leaves one by
an exception in the same epoch.  Edits differ only in what the provider is
asked, so `text` stands for all the fields `_intent_mismatch` compares.  A
receipt is assumed honest: "delivered" is said only of a message that was shown.

The inbox's main thread is a `pc` through begin, dispatch, complete (or fail,
give up), reply, send, mark, pass, save and acknowledge; each is one write or
one call.  Most writes may fail, and the process may restart from the saved
cursor between any two.  An event is its own number and its own cursor.

### TaskEvents

The queue moves a task by a step of `TaskLifecycle` (`Change`).  What it has then
still to record is `unwritten`: `Record` writes one line after the other, as
`queue.py` does before it gives its lock back, while drains read.  A line that
fails, or that the process does not come to, is not made good; `lost` are the
tasks this happened to.  `drain[d]` is what daemon `d` has read for the extension
whose `turn` it is: a set of events, handled from the least.  It checks its epoch
(`active`), calls the hook, checks again, acknowledges; `Crash` and `Takeover`
come between any two.  Lifecycle hooks, which are never repeated, are left out.

### Scheduling

Both the cron thread and the task worker run a pass (`pass[p]`): claim what is
due, look whether the last task is outstanding, enqueue, record.  Each is an own
transaction of another file, and the pass goes on with what it read (`todo`,
`chosen`: sets of `Item`s, handled from the first that is due).  `load` says which of the three
kinds an instance uses: they share nothing but the threads.

### Evolution

`run` is the one command or check the main loop is at, with a step for each
write to one of the seven files and each call of the model, whose answer is any
its validation lets through.  `latest` grows meanwhile.  After an exception
(`Raise`) or the end of the process (`ProcessEnds`) a command of the user is
`owed`: it may be delivered again, with the same event.  `tasks` are the pairs of
a candidate and the event whose key the queue admitted.  `read` and `failed` are
history variables: the versions a model was shown, and the candidates with a
handler that failed while their task was in the queue.

### Lineage

`command[d]` is the command a daemon is at and the snapshot of the inbox it
read: `ScanSave` writes it back without looking again, as
`lineage/core.py:525-533` does.  A dismissal looks in one step (`Ignore`) and writes
in another (`Dismiss`), an adoption looks, enqueues and links (`Adapt`,
`EnqueueTask`, `Link`): `lineage/core.py:665-690` writes a decision over whatever
is there.  The daemon that was replaced goes on with all but what is fenced.
`Begin` takes up a command while it is unanswered, so a new daemon repeats the
one its predecessor was at, and the same daemon one whose handler failed before
its attempts were used up (`HandlerFails`).  `worker[d]` is the thread that
assesses.  Two history variables say what the properties except: `astray` are the
changes whose decision was written over by what had been read before it, and
those whose command ended between the enqueue of its task and the link; `base` is
the last change that is older than what the first scan lists (`REFRESH_LIMIT`).

### Shopping

`turn` is the holder of the file's lock: a message, the step it is at, and the
rest of the poll.  Each action ends where `shopping/service.py` saves.  `Stage` is
the cascade of what an answer still needs.  `placed`, `outputs` are the
application's: one order for an idempotency key, one answer for a message.
`Raised` is a `ShoppingError`: the poll leaves the rest of that application for
later, a chat turn ends with an error for an answer.

### Doctor, Workspaces

`space` and `branch` say of each task's workspace only whether it is absent,
clean or dirty, and whether the branch has the change.  `thread` is where the
task's thread is; stages are recorded in `job`, and after a crash `Restart`
continues from them.  `Doctor` runs in each process that checks something:
`env` is the shared environment, `holder` the lock `.provision`.

### PrivateState, Operations

A build is a number, and so is the version of a file; its content is the number
of writes.  `migration` goes through plan, stop check, backup, files, manifest,
validation, or back; it holds the lock of the manifest and none of the files', so
the read of a file (`ReadFile`) and its write (`WriteFile`) are two steps with
other writers between.  `daemon[d]` is a process from launch to its end.  It looks
at the epoch when a turn begins (`BeginTurn`).  Files in `Fenced` (the queue, the
notifications) are written under the lock of the epoch; the others (the inbox, the
cursor) by any turn that has begun, whoever owns the epoch by now, and in the
version of the writer's own build (`Write`).  `update[user]` is the update of a
process's chat, which holds the lock of the epoch to its end, or of a shell, which
takes no lock, so that several go on at once.  After the restore the checkout is
inspected again (`Activate`): an error there ends the update with the new checkout
in place.  A shell runs one command at a time.

History variables: `abandoned` are the builds an update left in the checkout with
no verdict (killed, failed after its restore, could not go back, went back to what
another update had put there), `late` the files a replaced daemon of a later build
wrote under the one at work, `beside` the files a daemon the migration could not
see wrote beside it, `overlapped` that a process recorded its stop after another
had begun.  The properties except exactly these.

## 3. Runs

| run | instance | shows |
|---|---|---|
| `queue_order` | 2 tasks, 1 worker, a key, a lane, 2 attempts, 1 pause | `KeysUnique`, `LaneFifo`; `TaskQueue` implements `TaskLifecycle` |
| `runner_retry` | 2 tasks, 2 runs, 1 epoch, every kind of request | `CompletedWasDone`, `OneRunPerTask`, `FenceSound` |
| `runner_liveness` | 1 task, 2 runs, 2 epochs, 1 pause | `ReviewsBounded`, `SummaryTold`, `PendingStarts`, `RunningEnds`; `TaskRunner` implements `TaskQueue` |
| `notifications_promise` | 2 keys, 2 texts, 2 epochs, every honest provider | `OneText`, `RecoveredClean`; `Notifications` implements `NotificationPromise` |
| `inbox_batches` | 3 events, one of a stranger, batches of 2, 2 faults | `AcknowledgedWasAnswered`, `CompletedNotRerun`, `EventsPass` |
| `task_events` | 2 extensions, 2 tasks, 2 daemons, a log of 4, 1 fault | `HandledInOrder`, `OutcomesTrue`, `EventsDelivered` |
| `scheduling` | 1 cron job, or 1 schedule, or 2 items; 2 passes, time 4 | `OneOutstanding`, `RunKeysRemembered`, `ClaimsSettle` |
| `evolution` | 1 turn, 1 history, 2 events, 2 commands, 2 faults, time 2 | `EvidenceKept`, `ApprovedOnce`, `OneOpenProposal`, `ChecksSettle` |
| `shopping` | 2 applications, 2 website and 2 chat messages, 2 faults | `OrdersTold`, `AnsweredInOrder`, `UploadedOnce`, `WebsiteAnswered` |
| `lineage` | 2 changes, 3 commands, 2 daemons, 1 fault, 1 listed at first | `NothingMissed`, `DecisionsKept`, `AssessmentsSettle` |
| `operations` | 2 files, one of them fenced, 2 builds, 2 processes, a shell, 1 write, 1 kill | `NeverAhead`, `Vetted`, `StopReported`, `ContentKept` |
| `workspaces` | 2 processes that check, 2 tasks, 2 attempts, 1 fault | `WorkKept`, `TestsUndisturbed` |

Each property is stated in words, with the behaviour of the code it is about,
above its definition.

### Why the bounds are enough

The bounds are those at which every action happens and the cases that differ are
all there; for the properties that are proved (section 4) they do not matter.

* **Two tasks** give an ordered pair, a retry and its original, a lane with one
  task before another.  **Two workers** are the old owner and the new one.
* **Two attempts** distinguish "may be retried" from "exhausted".
* **Two epochs, daemons or processes** are the old and the new one; an older one
  differs from the old one in nothing a guard looks at.
* **One pause** is enough to take a task from a run and give it to another.
* **Two keys and two texts**: keys interact only in `recover()`'s sweep, and a
  key's texts only by being the recorded one or another.  `MaxDelivery` is 2
  where the code has 3: the last attempt, and one before it.
* **Three events in batches of two**: a failing event with a later one in its
  batch, and one more in the next.
* **Two website messages, two applications**: both of one application, where
  order matters, or one of each, where a failure of one must leave the other.
  A website message gets one attempt and a turn two calls, where the code has
  three and eight: what counts is the last one and one before it.
* **Time 4 with an interval of 2**: an occurrence, the next one, and one missed.
  One run-now key is remembered where the code remembers 64.
* **Two files**: one migrated and one not yet when something fails, one fenced and
  one not.  With a shell and a chat, two updates overlap; two builds leave only
  one of them with somewhere to go, so that an update which starts from what
  another had not judged (`among`) is met in the proof only.
* **One or two faults**: each action that a fault may hit is hit, and the
  recovery after it is hit again where two are given.

Deadlock is checked where the system cannot stop.  The runs of the daemon, the
inbox, scheduling, evolution, lineage and operations use up their bounded
requests, time, faults and processes, and may stop.  `runner_retry` and
`operations` have no liveness; the first uses the symmetry of worker ids and a
`VIEW` without what the chat was told, which no guard reads and none of its
properties names.

### Fairness

* `TaskRunner`: weak fairness of the main thread, of the queue thread, of every
  run, of time, and of the exit of a process that lost its epoch.  Threads are
  scheduled by the operating system; every call of a run returns, as providers
  have timeouts and a task a deadline; the epoch monitor ends the old process.
* `ChatInbox`, `TaskEvents`, `Evolution`, `Lineage`: weak fairness of the thread
  that proceeds, and in `Evolution` of the loop that looks at the clock and at
  what is delivered again.
* `Scheduling`: weak fairness of each pass, of time, and of the end of tasks.
* `Shopping`: weak fairness of the lock's holder, and strong fairness of the poll,
  which comes every second, and of a chat turn: each waits for the lock, which
  the other has now and then.

Nothing is assumed of users, of the model or of services: requests, commands,
shutdowns, crashes, takeovers, failures and answers are not fair.

`PendingStarts` and `RunningEnds` except the states in which the code waits for
somebody on purpose: paused tasks hold the queue, contradictory or unconfirmed
evidence waits for a person, nothing polls.

## 4. Proofs

Theorems hold for every value of the constants that the named `ASSUME` of each
module admits: `NoWorker`, `NoKey` and the like are none of the things they stand
for the absence of, limits are natural numbers, and sets of choices are among
those the code knows (`ConstantsAssumption`, `RunnerAssumption`,
`ShoppingAssumption`, ...).  Nothing is assumed finite.  The invariants below were
first checked by TLC on the instances of section 3.

| module | theorem | says |
|---|---|---|
| `TaskRunnerProofs` (queue) | `TypeCorrect`, `PlacementCorrect` | types; each task is in exactly one list, the one its status names |
| | `CleanCorrect`, `AttemptsCorrect`, `FenceCorrect` | `QueuedIsClean`, `AttemptsBounded`, `FenceSound` |
| | `LifecycleCorrect` | `Spec => LifecycleSpec` |
| | `KeysCorrect`, `RetriesCorrect`, `LaneFifoCorrect` | `KeysUnique`, `RetriesLinear`, `LaneFifo` |
| `TaskRunnerProofs` (daemon) | `QueueCorrect` | `RunnerSpec => QueueSpec` |
| | `RunnerFenceCorrect`, `OneRunCorrect`, `CompletedCorrect`, `SummaryCorrect`, `ReviewsCorrect` | `FenceSound`, `OneRunPerTask`, `CompletedWasDone`, `SummaryTold`, `ReviewsBounded` |
| `DeliveryProofs` (notifications) | `OneTextCorrect`, `AttemptsCountedCorrect`, `RecoveredCorrect` | `OneText`, `AttemptsCounted`, `RecoveredClean` |
| | `PromiseCorrect` | `Spec => PromiseSpec`, for honest providers |
| `DeliveryProofs` (task events) | `HandledInOrderCorrect`, `OutcomesTrueCorrect` | `HandledInOrder`, `OutcomesTrue` |
| `ChatInboxProofs` | `AcknowledgedCorrect`, `NotRerunCorrect`, `HandlerCorrect` | `AcknowledgedWasAnswered`, `CompletedNotRerun`, `HandlerBounded` |
| `SelfChangeProofs` (operations) | `NeverAheadCorrect`, `VettedCorrect`, `StopReportedCorrect`, `ContentCorrect` | `NeverAhead`, `Vetted`, `StopReported`, `ContentKept` |
| `SelfChangeProofs` (evolution) | `EvidenceKeptCorrect`, `ApprovedOnceCorrect`, `OneOpenProposalCorrect` | `EvidenceKept`, `ApprovedOnce`, `OneOpenProposal` |
| `WorkspacesProofs` | `WorkKeptCorrect`, `CommittedCorrect`, `ProvisionCorrect`, `TestsCorrect` | `WorkKept`, `Committed`, `ProvisionInv`, `TestsUndisturbed` |
| `SchedulingProofs` | `CronCorrect`, `OneOutstandingCorrect` | `CronInv`, `OneOutstanding` |
| | `RunKeysCorrect` | `RunKeysRemembered` |
| `LineageProofs` | `NothingMissedCorrect`, `DecisionsCorrect` | `NothingMissed`, `DecisionsKept` |
| `ShoppingProofs` | `OrdersToldCorrect`, `AnsweredCorrect`, `UploadedCorrect` | `OrdersTold`, `AnsweredInOrder`, `UploadedOnce` |

`TypeOK`, `Placement`, `QueuedIsClean`, `AttemptsBounded`, `RetriesLinear`,
`AttemptsCounted`, `HandlerBounded`, `Committed` and `ProvisionInv` are parts of
these invariants that no run names.

### The queue

**Placement** speaks of three lists and four ranges of statuses at once: a
transaction that takes a task out of one list is safe only because the task was
in no other and only once.  It is inductive together with `TypeOK` (`Inv`).
First come facts on lists; then `Moved`, `Rewritten` and `CreatedPlaced`, which
say once and for all that a transaction that files a task where its new record's
status says keeps `Inv`; then a lemma for each operation.

**Records** (`RecordInv`).  `AttemptsBounded` is not inductive: a waiting task
that has used all its attempts would break it when it starts.  `Records` says
that a waiting task has an attempt left, which a retry and a recovery check, a
pause adds, and a resumption keeps, and that it is clean, as only a task without
terminal evidence is requeued.  `FenceSound` follows step by step: a lease always
differs from the one in the outstanding request, and a task that starts has no
worker, because it waited.

**Life cycle.**  Under `phase[j] = Status(j)` every transaction is a step of
`TaskLifecycle` or changes no phase.  **Origins** (`OriginInv`): a step keeps every
key and parent, or creates one task whose key is not taken and whose parent has
no other live retry.

**Lanes** (`LaneInv`).  `LaneFifo` is about the task that starts; what makes it
true is that the tasks of a lane are listed, pending and paused, in the order of
their requests, whatever is put in front of them, and that a started task is the
first of its lane.

### The daemon

Every step of `TaskRunner` is a step of `TaskQueue` or leaves the queue alone
(`QueueCorrect`), so the queue's invariants hold of the daemon.  `RunsInv` adds
what a run knows of its task (the live run that claimed a task owns it until it
closes or a pause takes it), where each completion, message and publication comes
from, and how many runs each attempt has had.  For the messages (`Told`): a run
that closes with a verdict closes a task that ended so, an ended task does not end
otherwise, and whoever has edited the status message is still to send the summary,
has sent it, failed to, or died.  `SummaryTold` alone is not inductive: it says
nothing of the run that is between its last transaction and its first message.
The proof separates four kinds of
steps: the queue changes and no run does, a run begins, one run acts, or runs
die (`Aside`, `Opens`, `Moves`, `Dies`); each part of the invariant is shown for
each kind, once.

### Delivery and inbox

`NotificationsInv` says that the provider is asked no more than was counted, that
a provider which does not know its keys is asked only for what it never showed,
and that what an earlier epoch left in flight is ahead of the recovery or done.
A step records, takes up, claims, delivers, settles or rests (`Records`, ...).
The refinement holds for *honest* providers: one that may lose an answer
(`loses`) is idempotent.  Without that it is false, and the code accepts it.

`InboxInv` says what the receipt in hand says at each step of the main thread,
that only replies of done events were handed over, and that attempts over the
limit are those a fault undid.  `CompletedNotRerun` and the stability of a settled
reply are action properties proved from it.

### Task events

`EventsInv` has a part for each of the two promises.  Order (`HandledKept`,
`DrainKept`): what an extension has not accepted is ahead of every drain that is
at it, or came to the log after all that this drain has read (`Ahead`).  A drain
handles the least of what it read, so what it hands over is either accepted
already, and then repeated, or after everything accepted.  This is said of each
daemon's drain on its own: one that was replaced may still be in the middle of a
hook, with events it read before its successor acknowledged them.

Outcomes (`OutcomeKept`): as long as no change of a task is `lost`, a task that has
ended has its outcome as the latest one on record, or as the one line still to be
written; a task that has not ended has none.  `OutcomesTrue` alone is not
inductive, because between the save of the queue and its last line the log is
behind.  It rests on `TaskLifecycle`: an ended task never waits or runs again.

### Operations, workspaces

`OperationsInv`: the owner of the epoch has begun it, and a migration that is past
its look at the daemon runs beside none unless one raced it (`Exclusive`); what the
migration has read or backed up is what the files contain, but for those written
beside it (`BackupCurrent`); a build without a verdict is that of an update on its
way or was `abandoned`, and so is one that an update may go back to, unless it was
put there by another update that had no verdict yet (`VettedInv`); the record of a
run says at least that it runs, until its end.  `NeverAhead` needs the first: the
check in the constructor is enough, but for what a replaced daemon still writes
without a fence, only because later builds write only under a later epoch.

`SpacesInv`: `Committed` (from the capture to the removal by force a workspace
holds nothing that is not on its branch) and a place for each task are what
`WorkKept` rests on.  `ProvisionInv`: the lock of the environment excludes, so that
what its holder found unfit is what it removes.

### Scheduling

`CronInv`: every occurrence of a job that was claimed has a task, except perhaps
the one claimed now, and all of them but the last recorded one and the claimed one
have ended (`JobKept`); tasks of a job are tasks of its occurrences
(`OnlyOccurrences`); and what a pass has read of a job is true of it while the job
has the same claim (`PassKept`).  The last part carries the proof: two passes
that both looked before either enqueued enqueue the same occurrence, which the
queue admits once, and a pass whose claim was closed in the meantime finds its
occurrence enqueued already.  Without it `OneOutstanding` is not inductive: a
pass that looked long ago would start a second task.

`HistoryInv`: what is remembered of the run-now keys is the end of what was
accepted, and all of it while it is short.  So a key that is not remembered was
last accepted more than `HistoryLimit` keys ago.

### Evolution

`EvolutionInv` has a part for each property, and one that carries the second.
*Scans* (`ScansKept`): the batch in hand was read, and what was found is on file
before the scan is recorded.  *Proposals* (`OpenKept`): none is open when the next
one is about to be recorded.  *Approvals* (`Deciding`, `Handled`): an approval past
its first look is of a candidate that nobody has decided; and a candidate that
has a task is decided, unless that task is of the approval in hand or of the one
that is owed since the process ended.  That is why the repetition enqueues under
the key of the task that is there, and why a new approval finds nothing to
approve.  A handler that fails instead of dying takes its task out of both, and
`ApprovedOnce` is false without `failed` (section 5); the exception is for the
candidate of that handler only.

### Lineage

`LineageInv`: every snapshot covers the cursor it was read with, from the first
change that was listed, so a stale scan that is written back skips nothing
(`Seen`); at most the last command is open, and the current daemon works only on
an open one (`Asked`); a command makes one task (`OneTaskEach`).  `OneTaskPerChange`
has the rest: unless a change went `astray`, it is linked or adopted, or the command
that made its task is still open (`Holds`); and when the current daemon is about to
enqueue for a change, no other command has a task for it (`Clear`).  The last part
carries the proof: between the look at the candidate and the enqueue a scan or a
dismissal of the replaced daemon may write, and it is `astray` that says of which
changes the look has become worthless.

### Shopping

`ShoppingInv`: an order was requested (`pending`) before it was placed and is noted
(`order`) before the answer that tells of it; an answer leaves no request
unsettled.  So a lost answer to an order can only be settled by asking again
under the same key, and after three attempts a message is given up only if
nothing is pending.  `Queued`: what a poll has taken up is, for each application,
all that is after the cursor and before its last message, and the one in hand is
the least; so when its answer is posted, everything before it has passed.  A
failure that left out only one message, and not the rest of its application,
would break it.  `Holder` says what the receipt in hand says at each stage; at an
upload the photo is already claimed.

### What is only model-checked

* Liveness (`PendingStarts`, `RunningEnds`, `EventsPass`, `EventsDelivered`,
  `ClaimsSettle`, `ChecksSettle`, `WebsiteAnswered`, `AssessmentsSettle`): the
  prover does not reason about fairness or `ENABLED`.

## 5. Where the code, its documents and the models part

Things met on the way, each visible in a model's actions or in the exception of
a property.

* **Recovery of a task that is about to be claimed.**  `skills/work/SKILL.md:63-64`
  says recovery must not requeue a task while its owner process is alive.
  Between `begin_next_task` or `begin_direct_task` and the claim by the thread the
  task has no worker, and `_reconcile_workflow` on the main thread requeues it.
  `OneRunPerTask` limits the damage: the late claim is refused.  The start was
  counted, so an attempt is lost.
* **`/task cancel` of the running task** (`app/core.py:2768-2780`) cancels it, does
  not signal its thread, and reports "Cancelled before running."
* **Final summary after a pause.**  A pause and the end of a task send their
  message under one key, `task:<id>:final`; the second text is refused, while the
  status message says it was sent below (`app/presentation.py:121`).
* **A summary that is never sent.**  The status message and the summary are two
  sends, each with its own look at the epoch, whose failures are swallowed
  (`app/core.py:2473-2497`, `4462-4474`).  A takeover, a crash or a failed send in
  between leaves a status message that points to a summary nobody sends again; an
  exception of what comes before them (`app/core.py:4429-4460`) leaves neither.
  `SummaryTold` excepts these, and holds of what is sent.
* **A task nobody decides.**  A task with a review that was not confirmed, or with
  contradictory evidence, stays running and holds the queue until a person
  resolves it (`tasks/queue.py:1879`).  `PendingStarts` and `RunningEnds` except it.
* **More deliveries than attempts.**  `tests/test_ruth_notifications.py:146` says a
  delivery stops after three attempts; `reclaim_notification` does not look at
  them (`app/notifications.py:187`), and some failures stay retryable.
* **A provider that loses answers and is not idempotent** may show a message
  twice: a disconnection after showing is retried.
* **An event skipped after one failure.**  `app/core.py:832` promises three
  attempts; the next event of the batch moves the cursor past the failed one.
* **Schedules of extensions.**  `skills/work/SKILL.md:41` says at most one task per
  schedule.  That holds of cron jobs (`OneOutstanding`); a schedule of an extension
  may have more, as the look and the enqueue of two passes interleave.
* **A lost answer to an order in a chat turn** ends the turn with an error, and
  nothing comes back to it (`docs/shopping-demo.md:219-221`).
* **Two tasks for a change.**  A dismissal looks at the candidate and then writes
  its decision over whatever is there (`app/commands.py:785-796`,
  `lineage/core.py:665-690`), a scan writes back what it read
  (`lineage/core.py:525-533`): what a replaced daemon does so late turns a linked
  change into one that waits or was ignored, and `/inherit <id>` takes either
  (`app/core.py:4711-4731`) and makes a second task.  A task is also left without a
  link when writing the link raises until the attempts of the event are used up
  (`app/core.py:4755-4768` catches only `LineageError`), or when the repetition
  finds the candidate not assessed, because an assessment that failed late was
  written over.  `DecisionsKept` excepts such changes by `astray`.
* **Two tasks for a candidate.**  The key of an approval (`app/core.py:3626`) makes
  its repetition harmless, as long as the repetition comes to its end.  If
  marking the candidate raises and the next event of the batch moves the cursor,
  or if the process ends after the task was enqueued and the repetition cannot
  enqueue, the candidate still waits; a later `/evolve approve` is another event
  with another key.  The second way takes two faults: the induction asked for it.
  `ApprovedOnce` excepts such a candidate by `failed`.
* **Files without a fence.**  The inbox and the cursor are written after one look at
  the epoch when the turn begins (`app/core.py:788`; `app/inbox.py:68-159`).  A
  daemon that is replaced in the middle of a turn goes on to write them under its
  successor, in the version of its own build; if that is the later build, because
  an update was rolled back, the successor finds files it does not support.
  `NeverAhead` excepts such files (`late`), never the queue and the notifications.
* **Migration** looks for a daemon before it takes its lock and never again, and a
  daemon does not look at the lock: hence `raced`.  The look is at the process of
  the current epoch only (`private_state.py:720-732`), and the lock is not that of
  the files: what a replaced daemon writes between the read of a file
  (`private_state.py:323`) and its write (`324`), or before a rollback restores it,
  is lost.  `ContentKept` excepts files written so (`beside`).
* **Updates.**  When the restore succeeded and the inspection after it fails, or
  finds another revision (`operations/updater.py:66-78`), `/update` answers that it
  could not update, with the new checkout in place, no doctor run and nothing put
  back.  Updates of two shells, or of a shell and the chat, are not excluded from
  one another: one may go back to what the other had put there.  A crash or a
  signal in the middle leaves a checkout the doctor has not passed, and the next
  `/update` says it is up to date.  `Vetted` excepts these builds (`abandoned`).  A
  process launched meanwhile may begin after the rollback with the code it loaded.
  An unsupported build fences the running daemon before it refuses.  The shutdown
  record of an overlapped daemon hides a later crash of its successor.
* **The warning of a crash** is computed once, and a failure to deliver it is
  swallowed (`app/core.py:5046-5049`): `StopReported` is about the computation.
* **A reply that stays retryable** keeps its event unacknowledged for ever, as
  nothing counts its deliveries (`app/notifications.py:328-340`,
  `app/core.py:948-949`).  In `ChatInbox` such a reply is refused for good after
  `MaxRetries`, so `EventsPass` says nothing of one that never is.
* **Workspaces.**  Recovery with another forge than the one that has the branch
  loses a local branch (`providers/forge.py:82`), and the recovery of a completed
  task removes one (`app/core.py:5299-5320`); `WorkKept` is about tasks that are not
  completed.  A runtime that commits by itself,
  or a capture whose record was lost, ends as "No files changed".

## 6. Not modelled, and why

* **TaskRunner**: inline tracked work and regression signals; a run that is asked to
  pause and finds its task pending again (`tasks/queue.py:941-951` pauses it; in
  `Pause` the run has lost it); the publication of a branch alone.  **ChatInbox**:
  photos of a reply, session synchronisation.  **Shopping**: the activity feed;
  the poll's order by creation time is taken as the order of the feed; credentials
  and registrations do not change.  **Evolution**: one source is scanned at a time;
  two daemons do not overlap; the same draft under another title after a crash
  counts as another; a scan takes all the records it has not linked, where the code
  takes 100 at a time (`evolution/evidence.py:287-296`).  **Lineage**: the text of diffs and assessments; a read error
  that returns an empty payload; a thread that dies alone.  **TaskEvents**:
  lifecycle hooks, unreadable receipts.  **Workspaces**: cancelling a running task
  (`TaskRunner` has it), maintenance by the forge, a foreign directory at the path
  of a workspace; `git` is what the code uses of it.  **Doctor**: the probe of a
  whole environment succeeds or times out; one that is killed would have it
  removed (`validation_environment.py:79-87`, `373`).  **Operations**: the threads of
  a process are one, which is in a turn or not; the plan and the check of the
  state read all files in one step; one migration goes on at a time, as others
  wait for the lock of the manifest; an update goes forward only.
* **Disk failures** other than a failed write: see Shared state.
* **Text**: classification of failures, formatting, prompts.  Where a decision
  depends on it, every outcome is explored.
* Providers, memory, CLI, identity, conformance kits: pure I/O or wiring.

## 7. Plan

Modelled: everything the code keeps durable protocols for.  Left: inline tracked work and
regression signals in `TaskRunner`.
