----------------------------- MODULE TaskRunner -----------------------------
(***************************************************************************)
(* The daemon that drives the task queue (src/ruth/app/core.py and         *)
(* task_workflow.py).                                                      *)
(*                                                                         *)
(* One process runs a main loop that reconciles the queue and then handles *)
(* chat events, a queue thread that starts pending tasks one after the     *)
(* other, and one thread for each direct task.  A newer daemon may take    *)
(* over while the old process still exists: the epoch guard then refuses   *)
(* every transaction and every fenced effect of the old one.               *)
(*                                                                         *)
(* A run is one execution of _run_action_job, named by its worker id.  The *)
(* queue is TaskQueue: every step here is one transaction of it, or leaves *)
(* it alone.                                                               *)
(***************************************************************************)
EXTENDS TaskQueue

CONSTANTS Requests,   \* bound: the kinds of request that are made
          MaxEpochs   \* bound: daemon starts

ASSUME RunnerAssumption ==
  /\ Requests \subseteq {"task", "cron", "direct", "unavailable"}
  /\ MaxEpochs \in Nat \ {0}
  /\ Fenced
  /\ Verdicts \subseteq Evidence
  /\ {<<"captured", r>> : r \in Reviews} \union {<<"review_published", "confirmed">>}
       \subseteq Publications

VARIABLES
  main,        \* where the main thread is
  target,      \* the task the main thread is handling
  epoch,       \* generation of the current daemon
  stale,       \* runs of processes whose epoch is over
  loop,        \* the queue thread
  run,         \* what each run is doing
  cancels,     \* _task_cancellations: the run to signal for each task
  signalled,   \* runs of this process whose cancellation event is set
  published,   \* reviews published for each task
  told,        \* what the status message of each task says became of it
  final        \* the final message delivered for each task, or that it could not be

daemonVars == <<main, target, epoch, stale>>
threadVars == <<loop, run, cancels, signalled>>
chatVars   == <<told, final>>
runnerVars == <<vars, daemonVars, threadVars, published, chatVars>>

Outcomes == Verdicts \union {"retryable", "paused", "quiet"}
Working  == {"claimed", "working", "validated", "captured", "reviewed", "cleaning"}
Steps    == Working \union {"unused", "begun", "leaving", "settled", "closing", "telling", "ended"}
NoRun    == [pc |-> "unused", task |-> 0, stage |-> "", outcome |-> "quiet", queued |-> FALSE]

RunnerInit ==
  /\ Init
  /\ main = "starting" /\ target = 0 /\ epoch = 1 /\ stale = {}
  /\ loop = "off"
  /\ run = [w \in Workers |-> NoRun]
  /\ cancels = [j \in Ids |-> NoWorker]
  /\ signalled = {}
  /\ published = [j \in Ids |-> 0]
  /\ told = [j \in Ids |-> "none"] /\ final = [j \in Ids |-> "none"]

Polling == main \in {"reconcile", "reconciling", "handle", "launch", "shelve", "stop"}
Used    == {w \in Workers : run[w].pc # "unused"}

-----------------------------------------------------------------------------
(* The main thread *)

Main(from, to) == main = from /\ main' = to /\ UNCHANGED <<epoch, stale>>

(* The constructor's recover(), before the first poll. *)
Recover ==
  /\ Main("starting", "reconcile")
  /\ Reconcile
  /\ UNCHANGED <<target, threadVars, published, chatVars>>

Look ==
  /\ Main("reconcile", "reconciling")
  /\ Inspect \/ (running = 0 /\ UNCHANGED vars)
  /\ UNCHANGED <<target, threadVars, published, chatVars>>

(* Seeded fault: the result of the inspection is not acted on. *)
ReconcileTurnIdle ==
  /\ Main("reconciling", "handle")
  /\ UNCHANGED <<vars, target, threadVars, published, chatVars>>

ReconcileTurn ==
  /\ Main("reconciling", "handle")
  /\ Reconcile
  /\ UNCHANGED <<target, threadVars, published, chatVars>>

EndTurn ==
  /\ Main("handle", "reconcile")
  /\ UNCHANGED <<vars, target, threadVars, published, chatVars>>

(* /task, /task resume and /task retry. *)
HandleRequest ==
  /\ Main("handle", "handle")
  /\ \/ /\ "task" \in Requests
        /\ \E key \in Keys \union {NoKey}, lane \in Lanes \union {NoLane} : Enqueue(key, lane)
     \/ \E j \in Ids : Resume(j) \/ RetryFailed(j)
     \/ ResumeAll
  /\ UNCHANGED <<target, threadVars, published, chatVars>>

(* /do puts its request in front while a task runs, and the cron thread     *)
(* puts due work there whatever the main thread does.                      *)
CronEnqueues ==
  /\ Polling /\ "cron" \in Requests
  /\ \E key \in Keys \union {NoKey} : EnqueueFront(key)
  /\ UNCHANGED <<daemonVars, threadVars, published, chatVars>>

(* /do creates its task running, then starts the thread that claims it. *)
HandleDirect ==
  /\ Main("handle", "launch") /\ "direct" \in Requests
  /\ paused = <<>>
  /\ \E key \in Keys \union {NoKey} : BeginDirect(key)
  /\ target' = nextId
  /\ UNCHANGED <<threadVars, published, chatVars>>

Begin(w, j, queued) ==
  run' = [run EXCEPT ![w] = [NoRun EXCEPT !.pc = "begun", !.task = j, !.queued = queued]]

Launch(w) ==
  /\ Main("launch", "handle")
  /\ run[w].pc = "unused"
  /\ Begin(w, target, FALSE)
  /\ target' = 0
  /\ UNCHANGED <<vars, loop, cancels, signalled, published, chatVars>>

(* A request made while the runtime is unavailable is queued, then paused. *)
HandleUnavailable ==
  /\ Main("handle", "shelve") /\ "unavailable" \in Requests
  /\ \E key \in Keys \union {NoKey} : Enqueue(key, NoLane) \/ EnqueueFront(key)
  /\ target' = nextId
  /\ UNCHANGED <<threadVars, published, chatVars>>

Shelve ==
  /\ Main("shelve", "handle")
  /\ \/ PauseQueued(target) \/ PauseStarted(target)
     \/ Status(target) \notin {"pending", "running"} /\ UNCHANGED vars
  /\ target' = 0
  /\ UNCHANGED <<threadVars, published, chatVars>>

(* Seeded fault: the running task is marked, but stays the running one. *)
CancelInPlace(j) ==
  \/ CancelPending(j) \/ CancelPaused(j)
  \/ /\ running = j
     /\ job' = [job EXCEPT ![j].status = "cancelled"]
     /\ history' = history \union {j}
     /\ UNCHANGED <<pending, paused, running, nextId, request, live, renewed, pauses>>

(* workflow.cancel: the task is cancelled wherever it is. *)
Cancel(j) == CancelRunning(j) \/ CancelPending(j) \/ CancelPaused(j)

(* /stop signals the thread of the running task, then cancels the task. *)
HandleStop ==
  /\ Main("handle", "stop")
  /\ running # 0
  /\ target' = running
  /\ signalled' = signalled \union ({cancels[running]} \ {NoWorker})
  /\ UNCHANGED <<vars, loop, run, cancels, published, chatVars>>

StopTask ==
  /\ Main("stop", "handle")
  /\ Cancel(target) \/ (Status(target) \in Terminal /\ UNCHANGED vars)
  /\ target' = 0
  /\ UNCHANGED <<threadVars, published, chatVars>>

(* /task cancel signals no thread and says what it expects. *)
HandleCancel(j) ==
  /\ Main("handle", "handle")
  /\ Cancel(j)
  /\ told' = [told EXCEPT ![j] = "cancelled before running"]
  /\ UNCHANGED <<target, threadVars, published, final>>

-----------------------------------------------------------------------------
(* The queue thread *)

(* _maybe_start_task_worker, from the main loop and the cron thread. *)
StartLoop ==
  /\ Polling
  /\ loop = "off" /\ running = 0 /\ paused = <<>> /\ pending # <<>>
  /\ loop' = "next"
  /\ UNCHANGED <<vars, daemonVars, run, cancels, signalled, published, chatVars>>

StartNext(w) ==
  /\ Polling
  /\ loop = "next" /\ loop' = "busy"
  /\ run[w].pc = "unused"
  /\ BeginNext
  /\ Begin(w, running', TRUE)
  /\ UNCHANGED <<daemonVars, cancels, signalled, published, chatVars>>

NothingReady == running # 0 \/ \A i \in DOMAIN pending : ~Ready(i)

EndLoop ==
  /\ main # "down"
  /\ loop = "next" /\ loop' = "off"
  /\ NothingReady \/ main = "stopping"
  /\ UNCHANGED <<vars, daemonVars, run, cancels, signalled, published, chatVars>>

-----------------------------------------------------------------------------
(* One run of _run_action_job *)

Goto(w, pc) == run' = [run EXCEPT ![w].pc = pc]

(* What is left of a run that ended: its task, and whether it completed it. *)
Ended(w) == [NoRun EXCEPT !.pc = "ended", !.task = run[w].task,
                          !.outcome = IF run[w].outcome = "completed" THEN "completed" ELSE "quiet"]

(* The finally block: the cancellation event of the task is dropped. *)
Leave(w, outcome) ==
  /\ run' = [run EXCEPT ![w].pc = "leaving", ![w].outcome = outcome]
  /\ cancels' = [cancels EXCEPT ![run[w].task] = NoWorker]
  /\ UNCHANGED <<loop, signalled, published>>

(* A failed publication is retried; the check after run_direct_work's      *)
(* publication turns any outcome of a signalled run into a cancellation,   *)
(* and an expired deadline any outcome into a failure.                     *)
LeavePublication(w, outcome) ==
  \/ Leave(w, IF w \in signalled /\ run[w].stage = "" THEN "cancelled" ELSE outcome)
  \/ Leave(w, "failed")

(* Ends the run; a message is sent when the task's status is the outcome. *)
Close(w, outcome) ==
  /\ run' = [run EXCEPT ![w].pc = "closing", ![w].outcome = outcome]
  /\ UNCHANGED <<loop, cancels, signalled, published>>

CloseLost(w, outcome) ==
  /\ Close(w, IF Status(run[w].task) = outcome THEN outcome ELSE "quiet")
  /\ UNCHANGED vars

ClaimTask(w) ==
  LET j == run[w].task IN
  /\ run[w].pc = "begun"
  /\ \/ /\ Claim(j, w)
        /\ run' = [run EXCEPT ![w].pc = "claimed", ![w].stage = job[j].stage]
        /\ UNCHANGED <<loop, cancels, signalled, published>>
     \/ ~Claimable(j, w) /\ Close(w, "quiet") /\ UNCHANGED vars

Register(w) ==
  /\ run[w].pc = "claimed"
  /\ cancels' = [cancels EXCEPT ![run[w].task] = w]
  /\ Goto(w, "working")
  /\ UNCHANGED <<vars, loop, signalled, published>>

Progress(w) ==
  /\ run[w].pc = "working"
  /\ Heartbeat(run[w].task, w)
  /\ UNCHANGED <<threadVars, published>>

(* The work ends without anything to publish; a review already recorded    *)
(* leaves only the workspace to clean up, or nothing when the result of an *)
(* earlier run names it.                                                   *)
Work(w) ==
  /\ run[w].pc = "working"
  /\ UNCHANGED vars
  /\ \/ run[w].stage = "" /\ \E o \in {"completed", "failed", "retryable"} : Leave(w, o)
     \/ w \in signalled /\ Leave(w, "cancelled")
     \/ run[w].stage = "" /\ pauses[run[w].task] < MaxPauses /\ Leave(w, "paused")
     \/ run[w].stage = "captured" /\ Goto(w, "captured")
          /\ UNCHANGED <<loop, cancels, signalled, published>>
     \/ run[w].stage = "review_published" /\ Leave(w, "completed")
     \/ run[w].stage = "review_published" /\ Goto(w, "cleaning")
          /\ UNCHANGED <<loop, cancels, signalled, published>>

(* The edit is validated: recording that stage checks the lease. *)
Validate(w) ==
  /\ run[w].pc = "working" /\ run[w].stage = "" /\ w \notin signalled
  /\ IF Owns(run[w].task, w)
     THEN Goto(w, "validated") /\ UNCHANGED <<loop, cancels, signalled, published>>
     ELSE Leave(w, "failed")
  /\ UNCHANGED vars

Capture(w) ==
  LET j == run[w].task IN
  /\ run[w].pc = "validated"
  /\ \/ /\ RecordPublication(j, w, "captured", job[j].review)
        /\ Goto(w, "captured") /\ UNCHANGED <<loop, cancels, signalled, published>>
     \/ ~Owns(j, w) /\ LeavePublication(w, "retryable") /\ UNCHANGED vars
     \/ LeavePublication(w, "failed") /\ UNCHANGED vars

(* Seeded fault: a publication that succeeded is tried again. *)
PublishReviewAgain(w) ==
  /\ run[w].pc = "captured"
  /\ \/ /\ published' = [published EXCEPT ![run[w].task] = @ + 1]
        /\ \E pc \in {"captured", "reviewed"} : Goto(w, pc)
        /\ UNCHANGED <<loop, cancels, signalled>>
     \/ LeavePublication(w, "retryable")
  /\ UNCHANGED vars

(* publish_review checks the epoch, not the lease. *)
PublishReview(w) ==
  /\ run[w].pc = "captured"
  /\ \/ /\ published' = [published EXCEPT ![run[w].task] = @ + 1]
        /\ Goto(w, "reviewed") /\ UNCHANGED <<loop, cancels, signalled>>
     \/ LeavePublication(w, "retryable")
  /\ UNCHANGED vars

RecordReview(w) ==
  LET j == run[w].task IN
  /\ run[w].pc = "reviewed"
  /\ \/ /\ RecordPublication(j, w, "review_published", "confirmed")
        /\ Goto(w, "cleaning") /\ UNCHANGED <<loop, cancels, signalled, published>>
     \/ ~Owns(j, w) /\ LeavePublication(w, "retryable") /\ UNCHANGED vars

CleanUp(w) ==
  /\ run[w].pc = "cleaning"
  /\ \E o \in {"completed", "retryable"} : LeavePublication(w, o)
  /\ UNCHANGED vars

Retries(w) == run[w].outcome = "retryable" /\ job[run[w].task].attempt < MaxAttempts

(* The thread of a run ends by an exception. *)
ThreadEnds(w) ==
  /\ WorkersDie({w}) /\ request' = request
  /\ run' = [run EXCEPT ![w] = Ended(w)]
  /\ loop' = IF run[w].queued THEN "off" ELSE loop
  /\ signalled' = signalled \ {w}
  /\ UNCHANGED <<cancels, published>>

(* _finalize_with_terminal_evidence: the evidence is recorded first.  That *)
(* of an earlier owner is accepted when it is the same, else it raises.    *)
Verdict(w) == IF run[w].outcome = "retryable" THEN "failed" ELSE run[w].outcome

(* Seeded fault: a failure that will be retried is announced as final. *)
SettleAnnouncing(w) ==
  LET j == run[w].task IN
  /\ run[w].pc = "leaving" /\ run[w].outcome # "paused"
  /\ \/ /\ Retries(w)
        /\ RetryRunning(j, w) /\ Close(w, "failed")
     \/ /\ ~Retries(w)
        /\ RecordTerminalEvidence(j, w, Verdict(w))
        /\ run' = [run EXCEPT ![w].pc = "settled", ![w].outcome = Verdict(w)]
        /\ UNCHANGED <<loop, cancels, signalled, published>>
     \/ /\ ~Retries(w) /\ Owns(j, w)
        /\ job[j].verdict = Verdict(w)
        /\ run' = [run EXCEPT ![w].pc = "settled", ![w].outcome = Verdict(w)]
        /\ UNCHANGED <<vars, loop, cancels, signalled, published>>
     \/ /\ ~Retries(w) /\ Owns(j, w)
        /\ job[j].verdict # "none"
        /\ ThreadEnds(w)
     \/ ~Owns(j, w) /\ CloseLost(w, Verdict(w))

Settle(w) ==
  LET j == run[w].task IN
  /\ run[w].pc = "leaving" /\ run[w].outcome # "paused"
  /\ \/ /\ Retries(w)
        /\ RetryRunning(j, w) /\ Close(w, "quiet")
     \/ /\ ~Retries(w)
        /\ RecordTerminalEvidence(j, w, Verdict(w))
        /\ run' = [run EXCEPT ![w].pc = "settled", ![w].outcome = Verdict(w)]
        /\ UNCHANGED <<loop, cancels, signalled, published>>
     \/ /\ ~Retries(w) /\ Owns(j, w)
        /\ job[j].verdict = Verdict(w)
        /\ run' = [run EXCEPT ![w].pc = "settled", ![w].outcome = Verdict(w)]
        /\ UNCHANGED <<vars, loop, cancels, signalled, published>>
     \/ /\ ~Retries(w) /\ Owns(j, w)
        /\ job[j].verdict # "none"
        /\ ThreadEnds(w)
     \/ ~Owns(j, w) /\ CloseLost(w, Verdict(w))

Finalize(w) ==
  LET j == run[w].task IN
  /\ run[w].pc = "settled"
  /\ \/ Finish(j, w, run[w].outcome) /\ Close(w, run[w].outcome)
     \/ ~Owns(j, w) /\ CloseLost(w, run[w].outcome)

Pause(w) ==
  LET j == run[w].task IN
  /\ run[w].pc = "leaving" /\ run[w].outcome = "paused"
  /\ \/ PauseRunning(j, w) /\ Close(w, "paused")
     \/ ~Owns(j, w) /\ CloseLost(w, "paused")

(* The thread goes on to the next task, or ends. *)
Depart(w) ==
  /\ run' = [run EXCEPT ![w] = Ended(w)]
  /\ loop' = IF ~run[w].queued THEN loop
             ELSE IF paused = <<>> /\ main # "stopping" THEN "next" ELSE "off"
  /\ signalled' = signalled \ {w}
  /\ UNCHANGED <<vars, cancels, published>>

(* The status message is edited, if there is one and the edit does not     *)
(* fail.  What comes before, the regression signals and the cleanup of the *)
(* workspace, may raise.                                                   *)
Announce(w) ==
  LET o == run[w].outcome IN
  /\ run[w].pc = "closing"
  /\ \/ o = "quiet" /\ Depart(w) /\ UNCHANGED chatVars
     \/ /\ o # "quiet"
        /\ told' \in {told, [told EXCEPT ![run[w].task] = o]}
        /\ Goto(w, "telling")
        /\ UNCHANGED <<vars, loop, cancels, signalled, published, final>>
     \/ o # "quiet" /\ ThreadEnds(w) /\ UNCHANGED chatVars

Tells(w, j) == run[w].pc = "telling" /\ run[w].task = j

(* Every final message of a task has one notification key: the first text  *)
(* sent is delivered, and a different one is refused as a reused key.  One *)
(* that cannot be sent is not sent again.                                  *)
Tell(w) ==
  LET j == run[w].task IN
  /\ run[w].pc = "telling"
  /\ \E text \in {run[w].outcome, "unsent"} :
       final' = [final EXCEPT ![j] = IF @ = "none" \/ @ = "unsent" THEN text ELSE @]
  /\ Depart(w) /\ UNCHANGED told

Current(w) == main # "down" /\ w \in live \ stale

RunStep(w) ==
  /\ Current(w)
  /\ \/ /\ \/ ClaimTask(w) \/ Register(w) \/ Work(w) \/ Validate(w) \/ Capture(w)
           \/ PublishReview(w) \/ RecordReview(w) \/ CleanUp(w)
           \/ Settle(w) \/ Finalize(w) \/ Pause(w)
        /\ UNCHANGED chatVars
     \/ Announce(w) \/ Tell(w)
  /\ UNCHANGED daemonVars

Beat(w) == Current(w) /\ Progress(w) /\ UNCHANGED <<daemonVars, chatVars>>

(* Seeded fault: the queue thread is not seen to have ended. *)
ThreadFailsUnseen(w) ==
  /\ Current(w)
  /\ run[w].pc \in {"begun", "claimed", "working", "leaving", "settled"}
  /\ WorkersDie({w}) /\ request' = request
  /\ run' = [run EXCEPT ![w] = Ended(w)]
  /\ UNCHANGED <<loop, daemonVars, cancels, signalled, published, chatVars>>

(* A transaction of the run raises, or what it does before its try: its    *)
(* thread ends.                                                            *)
ThreadFails(w) ==
  /\ Current(w)
  /\ run[w].pc \in {"begun", "claimed", "working", "leaving", "settled"}
  /\ ThreadEnds(w)
  /\ UNCHANGED <<daemonVars, chatVars>>

-----------------------------------------------------------------------------
(* Shutdown, crash, restart and takeover *)

(* stop_workers signals every registered run. *)
Shutdown ==
  /\ Polling
  /\ main' = "stopping"
  /\ signalled' = signalled \union ({cancels[j] : j \in Ids} \ {NoWorker})
  /\ UNCHANGED <<vars, target, epoch, stale, loop, run, cancels, published, chatVars>>

Forget ==
  /\ target' = 0
  /\ loop' = "off"
  /\ cancels' = [j \in Ids |-> NoWorker]
  /\ signalled' = {}
  /\ UNCHANGED <<published, told>>

Crash ==
  /\ main # "down" /\ main' = "down"
  /\ WorkersDie(Used \ stale) /\ request' = Unfenced
  /\ run' = [w \in Workers |-> IF w \in Used \ stale THEN Ended(w) ELSE run[w]]
  /\ final' = [j \in Ids |-> IF final[j] = "none" /\ (\E w \in Used \ stale : Tells(w, j))
                             THEN "unsent" ELSE final[j]]
  /\ Forget
  /\ UNCHANGED <<epoch, stale>>

(* A new process begins an epoch; the old one may still exist. *)
Start ==
  /\ epoch < MaxEpochs /\ epoch' = epoch + 1
  /\ main' = "starting"
  /\ stale' = Used
  /\ WorkersDie({}) /\ request' = Unfenced
  /\ Forget /\ UNCHANGED <<run, final>>

OldProcessExits ==
  /\ stale \cap live # {}
  /\ WorkersDie(stale) /\ request' = request
  /\ UNCHANGED <<daemonVars, threadVars, published, chatVars>>

-----------------------------------------------------------------------------
MainStep == \/ Recover \/ Look \/ ReconcileTurn \/ EndTurn \/ Shelve \/ StopTask
            \/ \E w \in Workers : Launch(w)
Handle   == \/ HandleRequest \/ HandleDirect \/ HandleUnavailable \/ HandleStop
            \/ \E j \in Ids : HandleCancel(j)
LoopStep == StartLoop \/ EndLoop \/ \E w \in Workers : StartNext(w)

TimePasses == /\ \E j \in Ids : BecomeDue(j)
              /\ UNCHANGED <<daemonVars, threadVars, published, chatVars>>

RunnerNext ==
  \/ MainStep \/ Handle \/ CronEnqueues \/ LoopStep \/ TimePasses
  \/ \E w \in Workers : RunStep(w) \/ Beat(w) \/ ThreadFails(w)
  \/ Shutdown \/ Crash \/ Start \/ OldProcessExits

(* Threads are scheduled, every call the daemon makes returns (providers   *)
(* have timeouts and a task a deadline), and a process that lost its epoch *)
(* exits.                                                                  *)
RunnerFairness ==
  /\ WF_runnerVars(MainStep) /\ WF_runnerVars(LoopStep) /\ WF_runnerVars(TimePasses)
  /\ \A w \in Workers : WF_runnerVars(RunStep(w))
  /\ WF_runnerVars(OldProcessExits)

RunnerSpec == RunnerInit /\ [][RunnerNext]_runnerVars
FairRunnerSpec == RunnerSpec /\ RunnerFairness

-----------------------------------------------------------------------------
(* Properties *)

(* Across reconciliation, retries, crashes and takeovers, two living runs   *)
(* work on one task only when a pause took it from the first of them.       *)
OneRunPerTask ==
  \A v, w \in live : v # w /\ run[v].task = run[w].task
                      /\ {run[v].pc, run[w].pc} \subseteq Working
                      => pauses[run[w].task] > 0

(* A task publishes at most one review for each time it was started. *)
ReviewsBounded == \A j \in Ids : published[j] <= job[j].attempt

(* A completed task was completed by its own run, or has a published review *)
(* (its own, or that of the failed task it retries): reconciliation never   *)
(* completes what was not done.                                             *)
CompletedWasDone ==
  \A j \in Ids : Status(j) = "completed" =>
    \/ \E w \in Workers : run[w].task = j /\ run[w].outcome = "completed"
    \/ published[j] > 0
    \/ job[j].parent # 0 /\ job[job[j].parent].review = "confirmed"

(* While a daemon polls, a pending task is started, or paused or cancelled, *)
(* unless paused tasks hold the queue or a person must decide about the one *)
(* that runs.                                                               *)
Undecided == running # 0 /\ (Cardinality(Proven(running)) > 1 \/ Unsupported(running))
Held == \/ ~Polling \/ paused # <<>> \/ Undecided
        \/ \A w \in Workers : run[w].pc # "unused"
PendingStarts == \A j \in Ids : Status(j) = "pending" ~> Status(j) # "pending" \/ Held

(* A started task does not stay running for ever. *)
RunningEnds == \A j \in Ids : Status(j) = "running" ~> Status(j) # "running" \/ Undecided \/ ~Polling

(* What the chat was told of the end of a task is what the queue says of   *)
(* it (a completed one may be found regressed later), and the summary of   *)
(* the task says the same as its status message, once it is sent: unless   *)
(* the run that was to send it failed to, ended first or belongs to a      *)
(* daemon that was replaced, or a pause was told in its place (all         *)
(* summaries of a task have one key, and the first text sent is kept).     *)
SummaryTold ==
  \A j \in Ids :
    /\ \A said \in {told[j], final[j]} \intersect Verdicts :
         Status(j) = said \/ (said = "completed" /\ Status(j) \in Repaired)
    /\ told[j] \in Verdicts => final[j] \in {told[j], "unsent", "paused"} \/ \E w \in Workers : Tells(w, j)

(* Every step of the daemon is a transaction of the queue, or none. *)
QueueSpec == Spec
=============================================================================
