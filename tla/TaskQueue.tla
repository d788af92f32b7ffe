----------------------------- MODULE TaskQueue -----------------------------
(***************************************************************************)
(* The persistent task queue (src/ruth/tasks/queue.py).                    *)
(*                                                                         *)
(* Every function of queue.py that changes the queue runs inside           *)
(* _queue_transaction: a thread lock and an flock around load, change and  *)
(* an atomic rename (state.py).  One action here is one such transaction.  *)
(* The module has no scheduler: any caller may call any operation at any   *)
(* time with any argument a caller in src/ passes, so what holds here      *)
(* holds for the daemon, its threads, the command line and their crashes.  *)
(* TaskRunner.tla adds the daemon that calls these operations in order.    *)
(*                                                                         *)
(* A job is its id; job[j] is its record.  pending, paused and history are *)
(* the lists of task_queue.json (history is a set: its order is only       *)
(* reported), running is the running job's id, 0 when there is none.       *)
(***************************************************************************)
EXTENDS Naturals, FiniteSets, Sequences, Functions, SequencesExt

CONSTANTS Workers,      \* worker identities, one per claiming thread
          NoWorker,     \* the empty worker_id
          Keys,         \* idempotency keys of requests
          NoKey,        \* the empty idempotency_key
          Lanes,        \* extension execution lanes
          NoLane,       \* the empty execution_lane
          Publications, \* <<stage, review>> pairs that owners record
          Evidence,     \* terminal statuses that owners record as evidence
          MaxAttempts,  \* max_attempts of a job (DEFAULT_MAX_ATTEMPTS is 3)
          Fenced,       \* whether reconcilers pass the identity they inspected
          MaxTasks,     \* bound: ids handed out
          MaxPauses     \* bound: times one job is paused while it runs

ASSUME ConstantsAssumption ==
  /\ NoWorker \notin Workers
  /\ NoKey \notin Keys
  /\ NoLane \notin Lanes
  /\ Publications \subseteq ({"captured", "review_published"} \X {"none", "unconfirmed", "confirmed"})
  /\ Evidence \subseteq {"completed", "failed", "cancelled"}
  /\ MaxAttempts \in Nat \ {0}
  /\ Fenced \in BOOLEAN
  /\ MaxTasks \in Nat
  /\ MaxPauses \in Nat

Ids      == 1..MaxTasks
Verdicts == {"completed", "failed", "cancelled"}
Repaired == {"regressed", "reverted", "forward-fixed"}
Terminal == Verdicts \union Repaired
Stages   == {"", "captured", "review_published"}
Reviews  == {"none", "unconfirmed", "confirmed"}

VARIABLES
  job,             \* the record of each id
  pending,         \* ids waiting to start, first to start first
  paused,          \* ids paused until the runtime is available again
  running,         \* the running id, 0 when no task is running
  history,         \* ids with a terminal status
  nextId,          \* next_id
  request,         \* identity a reconciler read before calling reconcile
  live,            \* workers whose process and thread are alive
  renewed,         \* history variable: a lease was taken since Inspect
  pauses           \* history variable: pauses of each id while running

queueVars == <<job, pending, paused, running, history, nextId>>
vars == <<queueVars, request, live, renewed, pauses>>

-----------------------------------------------------------------------------
(* Job records.  lease stands for worker_lease_id: a fresh UUID of which   *)
(* only its difference from the token in an outstanding request matters.   *)
(* due is next_attempt_at <= now; review abstracts review_id, review_url   *)
(* and review_published; verdict is terminal_status.                       *)

JobRecord ==
  [status  : {"absent", "pending", "paused", "running"} \union Terminal,
   key     : Keys \union {NoKey},
   lane    : Lanes \union {NoLane},
   parent  : 0..MaxTasks,
   attempt : Nat,
   worker  : Workers \union {NoWorker},
   lease   : 0..2,
   due     : BOOLEAN,
   stage   : Stages,
   review  : Reviews,
   verdict : Verdicts \union {"none"}]

Absent == [status |-> "absent", key |-> NoKey, lane |-> NoLane, parent |-> 0,
           attempt |-> 0, worker |-> NoWorker, lease |-> 0, due |-> TRUE,
           stage |-> "", review |-> "none", verdict |-> "none"]

(* The identity _reconcile_workflow passes to reconcile_running_task;      *)
(* Unfenced is the missing request of recover() and of an idle inspection. *)
Request  == [task : 0..MaxTasks, worker : Workers \union {NoWorker}, lease : 0..2]
Unfenced == [task |-> 0, worker |-> NoWorker, lease |-> 0]
LeaseOf(j) == [task |-> j, worker |-> job[j].worker, lease |-> job[j].lease]
(* Seeded faults: the token counts up; the token is always the same. *)
FreshLeaseFixed  == 1

FreshLease == IF request.lease = 1 THEN 2 ELSE 1

Status(j)  == job[j].status
Disowned(r) == [r EXCEPT !.worker = NoWorker, !.lease = 0]
Queued     == Range(pending) \union Range(paused)

Init ==
  /\ job = [j \in Ids |-> Absent]
  /\ pending = <<>> /\ paused = <<>> /\ running = 0 /\ history = {}
  /\ nextId = 1
  /\ request = Unfenced
  /\ live = Workers
  /\ renewed = FALSE
  /\ pauses = [j \in Ids |-> 0]

-----------------------------------------------------------------------------
(* Submission *)

(* Seeded fault: tasks that ended or are paused are not looked at. *)
KeyTakenByActive(key) ==
  key # NoKey /\ \E j \in Ids : Status(j) \in {"pending", "running"} /\ job[j].key = key

KeyTaken(key) == key # NoKey /\ \E j \in Ids : Status(j) # "absent" /\ job[j].key = key

Create(r) ==
  /\ nextId \in Ids
  /\ job' = [job EXCEPT ![nextId] = r]
  /\ nextId' = nextId + 1
  /\ UNCHANGED <<paused, history, request, live, renewed, pauses>>

Enqueue(key, lane) ==
  /\ ~KeyTaken(key)
  /\ Create([Absent EXCEPT !.status = "pending", !.key = key, !.lane = lane])
  /\ pending' = Append(pending, nextId)
  /\ UNCHANGED running

(* Only requests without a lane are put in front or begun directly. *)
EnqueueFront(key) ==
  /\ ~KeyTaken(key)
  /\ Create([Absent EXCEPT !.status = "pending", !.key = key])
  /\ pending' = <<nextId>> \o pending
  /\ UNCHANGED running

BeginDirect(key) ==
  /\ ~KeyTaken(key)
  /\ running = 0
  /\ Create([Absent EXCEPT !.status = "running", !.key = key, !.attempt = 1])
  /\ running' = nextId
  /\ UNCHANGED pending

(* The retry is a new task that keeps lane, stage and review of the        *)
(* original; a retry that was cancelled does not count.                    *)
RetryFailed(j) ==
  /\ Status(j) = "failed"
  /\ \A k \in Ids : job[k].parent = j => Status(k) = "cancelled"
  /\ Create([Absent EXCEPT !.status = "pending", !.lane = job[j].lane, !.parent = j,
                           !.stage = job[j].stage, !.review = job[j].review])
  /\ pending' = Append(pending, nextId)
  /\ UNCHANGED running

-----------------------------------------------------------------------------
(* Starting, claiming and renewing *)

LaneBlocked(lane) == \E j \in Range(paused) : job[j].lane = lane

(* Seeded fault: a paused predecessor does not hold its lane. *)
ReadyPastPaused(i) ==
  LET j == pending[i]
  IN  /\ job[j].due
      /\ job[j].lane # NoLane =>
           \A k \in 1..(i - 1) : job[pending[k]].lane # job[j].lane

Ready(i) ==
  LET j == pending[i]
  IN  /\ job[j].due
      /\ job[j].lane # NoLane =>
           /\ ~LaneBlocked(job[j].lane)
           /\ \A k \in 1..(i - 1) : job[pending[k]].lane # job[j].lane

(* Seeded fault: a task is started beside the running one. *)
BeginNextBeside ==
  /\ \E i \in DOMAIN pending :
       /\ Ready(i)
       /\ \A k \in 1..(i - 1) : ~Ready(k)
       /\ running' = pending[i]
       /\ pending' = RemoveAt(pending, i)
       /\ job' = [job EXCEPT ![pending[i]] =
                    [job[pending[i]] EXCEPT !.status = "running", !.attempt = @ + 1,
                                            !.due = TRUE]]
  /\ UNCHANGED <<paused, history, nextId, request, live, renewed, pauses>>

BeginNext ==
  /\ running = 0
  /\ \E i \in DOMAIN pending :
       /\ Ready(i)
       /\ \A k \in 1..(i - 1) : ~Ready(k)
       /\ running' = pending[i]
       /\ pending' = RemoveAt(pending, i)
       /\ job' = [job EXCEPT ![pending[i]] =
                    [job[pending[i]] EXCEPT !.status = "running", !.attempt = @ + 1,
                                            !.due = TRUE]]
  /\ UNCHANGED <<paused, history, nextId, request, live, renewed, pauses>>

(* next_attempt_at passes. *)
BecomeDue(j) ==
  /\ Status(j) = "pending" /\ ~job[j].due
  /\ job' = [job EXCEPT ![j] = [job[j] EXCEPT !.due = TRUE]]
  /\ UNCHANGED <<pending, paused, running, history, nextId, request,
                 live, renewed, pauses>>

OwnerActive(j) == job[j].worker \in live

Lease(w) ==
  /\ job' = [job EXCEPT ![running] = [job[running] EXCEPT !.worker = w, !.lease = FreshLease]]
  /\ renewed' = (request # Unfenced)
  /\ UNCHANGED <<pending, paused, running, history, nextId, request,
                 live, pauses>>

(* Seeded fault: a live owner's task can be claimed. *)
ClaimableAlways(j, w) == running = j

Claimable(j, w) == running = j /\ (job[j].worker = w \/ ~OwnerActive(j))

Claim(j, w) ==
  /\ w \in live
  /\ Claimable(j, w)
  /\ Lease(w)

Owns(j, w) == running = j /\ w \in live /\ job[j].worker = w

Heartbeat(j, w) == Owns(j, w) /\ Lease(w)

-----------------------------------------------------------------------------
(* What the owner records, and how its run ends *)

ChangeJob(j, r) ==
  /\ job' = [job EXCEPT ![j] = r]
  /\ UNCHANGED <<pending, paused, running, history, nextId, request,
                 live, renewed, pauses>>

RecordPublication(j, w, stage, review) ==
  /\ Owns(j, w)
  /\ ChangeJob(j, [job[j] EXCEPT !.stage = stage, !.review = review])

(* An equal record is accepted unchanged, a different one raises. *)
RecordTerminalEvidence(j, w, verdict) ==
  /\ Owns(j, w)
  /\ job[j].verdict = "none"
  /\ ChangeJob(j, [job[j] EXCEPT !.verdict = verdict])

(* The running job leaves for the history. *)
Retire(j, r) ==
  /\ job' = [job EXCEPT ![j] = Disowned(r)]
  /\ running' = 0
  /\ history' = history \union {j}
  /\ UNCHANGED <<pending, paused, nextId, live, renewed, pauses>>

(* complete_task, fail_task, and cancel_running_task by the owner *)
Finish(j, w, status) ==
  /\ Owns(j, w)
  /\ Retire(j, [job[j] EXCEPT !.status = status])
  /\ UNCHANGED request

(* The running job returns to the front of the queue. *)
Requeue(j, r) ==
  /\ job' = [job EXCEPT ![j] = Disowned([r EXCEPT !.status = "pending"])]
  /\ running' = 0
  /\ pending' = <<j>> \o pending
  /\ UNCHANGED <<paused, history, nextId, live, renewed, pauses>>

RetryRunning(j, w) ==
  /\ Owns(j, w)
  /\ job[j].attempt < MaxAttempts
  /\ Requeue(j, [job[j] EXCEPT !.due = FALSE, !.verdict = "none"])
  /\ UNCHANGED request

PauseRunning(j, w) ==
  /\ Owns(j, w)
  /\ pauses[j] < MaxPauses
  /\ job' = [job EXCEPT ![j] =
               Disowned([job[j] EXCEPT !.status = "paused", !.verdict = "none"])]
  /\ running' = 0
  /\ paused' = Append(paused, j)
  /\ pauses' = [pauses EXCEPT ![j] = @ + 1]
  /\ UNCHANGED <<pending, history, nextId, request, live, renewed>>

-----------------------------------------------------------------------------
(* What a person asks for *)

(* _queue_paused_request pauses the request it has just enqueued, which    *)
(* may have started, or been claimed, in between.                          *)
PauseQueued(j) ==
  /\ job[j].lane = NoLane
  /\ \E i \in DOMAIN pending : pending[i] = j /\ pending' = RemoveAt(pending, i)
  /\ job' = [job EXCEPT ![j] =
               Disowned([job[j] EXCEPT !.status = "paused", !.verdict = "none"])]
  /\ paused' = Append(paused, j)
  /\ UNCHANGED <<running, history, nextId, request, live, renewed, pauses>>

PauseStarted(j) ==
  /\ running = j /\ job[j].lane = NoLane
  /\ pauses[j] < MaxPauses
  /\ job' = [job EXCEPT ![j] =
               Disowned([job[j] EXCEPT !.status = "paused", !.verdict = "none"])]
  /\ running' = 0
  /\ paused' = Append(paused, j)
  /\ pauses' = [pauses EXCEPT ![j] = @ + 1]
  /\ UNCHANGED <<pending, history, nextId, request, live, renewed>>

Resume(j) ==
  /\ \E i \in DOMAIN paused : paused[i] = j /\ paused' = RemoveAt(paused, i)
  /\ pending' = <<j>> \o pending
  /\ job' = [job EXCEPT ![j] = Disowned([job[j] EXCEPT !.status = "pending"])]
  /\ UNCHANGED <<running, history, nextId, request, live, renewed, pauses>>

ResumeAll ==
  /\ paused # <<>>
  /\ pending' = paused \o pending
  /\ paused' = <<>>
  /\ job' = [j \in Ids |-> IF j \in Range(paused)
                           THEN Disowned([job[j] EXCEPT !.status = "pending"])
                           ELSE job[j]]
  /\ UNCHANGED <<running, history, nextId, request, live, renewed, pauses>>

CancelPending(j) ==
  /\ \E i \in DOMAIN pending : pending[i] = j /\ pending' = RemoveAt(pending, i)
  /\ job' = [job EXCEPT ![j] = [job[j] EXCEPT !.status = "cancelled"]]
  /\ history' = history \union {j}
  /\ UNCHANGED <<paused, running, nextId, request, live, renewed, pauses>>

CancelPaused(j) ==
  /\ \E i \in DOMAIN paused : paused[i] = j /\ paused' = RemoveAt(paused, i)
  /\ job' = [job EXCEPT ![j] = [job[j] EXCEPT !.status = "cancelled"]]
  /\ history' = history \union {j}
  /\ UNCHANGED <<pending, running, nextId, request, live, renewed, pauses>>

(* /stop needs no lease. *)
CancelRunning(j) ==
  /\ running = j
  /\ Retire(j, [job[j] EXCEPT !.status = "cancelled"])
  /\ UNCHANGED request

Regress(j) ==
  /\ Status(j) = "completed"
  /\ ChangeJob(j, [job[j] EXCEPT !.status = "regressed"])

Resolve(j, resolution) ==
  /\ Status(j) = "regressed"
  /\ resolution = "forward-fixed" => \E k \in Ids \ {j} : Status(k) = "completed"
  /\ ChangeJob(j, [job[j] EXCEPT !.status = resolution])

-----------------------------------------------------------------------------
(* Reconciliation of the running record with durable evidence *)

(* The first of the two transactions of _reconcile_workflow. *)
Inspect ==
  /\ Fenced /\ running # 0
  /\ request' = LeaseOf(running)
  /\ renewed' = FALSE
  /\ UNCHANGED <<queueVars, live, pauses>>

RequestStale == request # Unfenced /\ request # LeaseOf(running)

(* Seeded fault: a captured change counts as a published review. *)
ProvenByCapture(j) == ({job[j].verdict} \ {"none"})
                      \union (IF job[j].stage # "" THEN {"completed"} ELSE {})

(* The terminal statuses durable evidence supports. *)
Proven(j) == ({job[j].verdict} \ {"none"})
             \union (IF job[j].review = "confirmed" THEN {"completed"} ELSE {})

Unsupported(j) == \/ job[j].review = "unconfirmed"
                  \/ job[j].stage = "review_published" /\ job[j].review # "confirmed"

Reconcilable  == running # 0 /\ ~RequestStale /\ ~OwnerActive(running)
Repairable(v) == Reconcilable /\ Proven(running) = {v} /\ running \notin history
Interrupted   == Reconcilable /\ Proven(running) = {} /\ ~Unsupported(running)

(* Nothing runs, the request is stale, the owner is alive, or the evidence *)
(* conflicts or proves no outcome: reported, and left alone.               *)
ReconcileNothing ==
  /\ ~Interrupted /\ \A v \in Verdicts : ~Repairable(v)
  /\ UNCHANGED <<queueVars, live, renewed, pauses>>

ReconcileRepair ==
  \E v \in Verdicts :
    /\ Repairable(v)
    /\ Retire(running, [job[running] EXCEPT !.status = v])

ReconcileExhausted ==
  /\ Interrupted
  /\ job[running].attempt >= MaxAttempts
  /\ Retire(running, [job[running] EXCEPT !.status = "failed"])

ReconcileRequeue ==
  /\ Interrupted
  /\ job[running].attempt < MaxAttempts
  /\ Requeue(running, [job[running] EXCEPT !.due = TRUE])

Reconcile ==
  /\ request' = Unfenced
  /\ ReconcileNothing \/ ReconcileRepair \/ ReconcileExhausted \/ ReconcileRequeue

(* Threads end, or processes exit, with what their reconcilers had read. *)
WorkersDie(W) ==
  /\ live' = live \ W
  /\ request' \in {request, Unfenced}
  /\ UNCHANGED <<queueVars, renewed, pauses>>

-----------------------------------------------------------------------------
Submit == \E key \in Keys \union {NoKey} :
            \/ \E lane \in Lanes \union {NoLane} : Enqueue(key, lane)
            \/ EnqueueFront(key)
            \/ BeginDirect(key)

Own(j, w) ==
  \/ Claim(j, w)
  \/ Heartbeat(j, w)
  \/ \E p \in Publications : RecordPublication(j, w, p[1], p[2])
  \/ \E v \in Evidence : RecordTerminalEvidence(j, w, v)
  \/ \E v \in Verdicts : Finish(j, w, v)
  \/ RetryRunning(j, w) \/ PauseRunning(j, w)

Ask(j) ==
  \/ RetryFailed(j)
  \/ PauseQueued(j) \/ PauseStarted(j)
  \/ Resume(j)
  \/ CancelPending(j) \/ CancelPaused(j) \/ CancelRunning(j)
  \/ Regress(j)
  \/ \E r \in {"reverted", "forward-fixed"} : Resolve(j, r)

Next ==
  \/ Submit
  \/ BeginNext
  \/ \E j \in Ids : BecomeDue(j) \/ Ask(j) \/ \E w \in Workers : Own(j, w)
  \/ ResumeAll
  \/ Inspect
  \/ Reconcile
  \/ \E W \in SUBSET live : WorkersDie(W)

Spec == Init /\ [][Next]_vars

-----------------------------------------------------------------------------
(* Properties *)

(* Every variable stays in its range. *)
TypeOK ==
  /\ job \in [Ids -> JobRecord]
  /\ pending \in Seq(Ids) /\ paused \in Seq(Ids)
  /\ running \in 0..MaxTasks
  /\ history \in SUBSET Ids
  /\ nextId \in 1..(MaxTasks + 1)
  /\ request \in Request
  /\ live \in SUBSET Workers
  /\ renewed \in BOOLEAN
  /\ pauses \in [Ids -> Nat]

(* No transaction loses, duplicates or misfiles a task: each id handed out *)
(* is in exactly one of pending, paused, running and history, once, and in *)
(* the one its status names.                                               *)
Placement ==
  /\ IsInjective(pending) /\ IsInjective(paused)
  /\ \A j \in Ids :
       /\ j \in Range(pending) <=> Status(j) = "pending"
       /\ j \in Range(paused)  <=> Status(j) = "paused"
       /\ j = running          <=> Status(j) = "running"
       /\ j \in history        <=> Status(j) \in Terminal
       /\ j >= nextId          <=> Status(j) = "absent"

(* A request delivered twice makes one task, in whatever state the first   *)
(* delivery's task is by then (idempotency_key).                           *)
KeysUnique ==
  \A j, k \in Ids :
    Status(j) # "absent" /\ Status(k) # "absent" /\ job[j].key = job[k].key
      /\ job[j].key # NoKey => j = k

(* /task retry keeps the causal chain linear: a failed task has at most one *)
(* retry that was not cancelled, and a retry's original stays failed.       *)
RetriesLinear ==
  \A k \in Ids : job[k].parent # 0 =>
    /\ job[k].parent < k
    /\ Status(job[k].parent) = "failed"
    /\ \A m \in Ids : job[m].parent = job[k].parent /\ m # k =>
         "cancelled" \in {Status(k), Status(m)}

(* Automatic recovery and retry never run a task more than max_attempts    *)
(* times; only a pause adds a run.                                         *)
AttemptsBounded ==
  \A j \in Ids : job[j].attempt <= MaxAttempts + pauses[j]

(* A task that waits carries no owner, lease or terminal evidence of an    *)
(* earlier run: reconciliation would finalize its next run from it.        *)
QueuedIsClean ==
  \A j \in Queued : /\ job[j].worker = NoWorker /\ job[j].lease = 0
                     /\ job[j].verdict = "none"

(* Tasks of one extension lane run in the order they were created, one     *)
(* after the other, whatever is paused, retried, recovered or put in front.*)
LaneFifo ==
  [][\A j \in Ids :
       running = 0 /\ running' = j /\ Status(j) # "absent" /\ job[j].lane # NoLane =>
         \A k \in 1..(j - 1) : job[k].lane = job[j].lane => Status(k) \in Terminal]_vars

(* A snapshot of a claimed task that still matches the running record has  *)
(* seen every claim and heartbeat: reconciliation cannot act on a lease    *)
(* renewed after the inspection, even within one clock second.             *)
FenceSound ==
  running # 0 /\ request = LeaseOf(running) /\ request.worker # NoWorker => ~renewed

-----------------------------------------------------------------------------
(* Implementation of the life cycle of a task *)
Lifecycle == INSTANCE TaskLifecycle WITH phase <- [j \in Ids |-> Status(j)]
LifecycleSpec == Lifecycle!Spec
=============================================================================
