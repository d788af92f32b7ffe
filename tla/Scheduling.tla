----------------------------- MODULE Scheduling -----------------------------
(***************************************************************************)
(* Work that starts itself: cron jobs (cron.py), schedules declared by     *)
(* extensions (extensions/schedules.py) and the backlog (backlog.py),      *)
(* with the passes of app/core.py that turn them into tasks.               *)
(*                                                                         *)
(* The cron thread and the task worker both run the same pass: claim what  *)
(* is due, look whether the last task of each is still outstanding, put a  *)
(* task in the queue, record it.  Every one of these is a transaction of   *)
(* its own, of another file, and the pass goes on with what it read.  The  *)
(* queue admits each idempotency key once and is fenced by the daemon      *)
(* epoch; the files of schedules are not.                                  *)
(***************************************************************************)
EXTENDS Integers, FiniteSets, Sequences, SequencesExt

CONSTANTS Crons,         \* ids of cron jobs
          Schedules,     \* ids of extension schedules
          Items,         \* ids of backlog items
          Passes,        \* bound: passes and promotions under way at once
          Keys,          \* idempotency keys of run-now requests
          NoKey,         \* in Keys where a request may come without one
          Every,         \* interval, in ticks
          HistoryLimit,  \* run-now keys remembered (64)
          Specs,         \* what an extension may declare: see Cadence
          Loads,         \* bound: which of the three are in use together
          MaxTime,       \* bound: ticks
          MaxEvents      \* bound: requests, failures and takeovers together

ASSUME SchedulingAssumption ==
  /\ Crons \union Schedules \union Items \subseteq Nat
  /\ Every \in Nat \ {0} /\ HistoryLimit \in Nat \ {0}
  /\ Specs \subseteq {"interval", "reworded", "daily"}
  /\ Loads \subseteq SUBSET {"cron", "schedule", "backlog"}

VARIABLES
  load,       \* which of cron jobs, schedules and backlog are in use
  now,
  cron,       \* cron.json
  schedule,   \* extension_schedules.json
  backlog,    \* backlog.json
  tasks,      \* the queue: idempotency key -> is the task outstanding or ended
  declared,   \* the schedule each loaded extension declares
  pass,       \* what each thread is doing with what it has read
  events,     \* requests, failures and takeovers so far
  accepted    \* history: run-now keys accepted for each schedule

files  == <<cron, schedule, backlog>>
bounds == <<load, events>>
vars   == <<now, files, tasks, declared, pass, bounds, accepted>>

NoTask      == <<>>
CronTask(j, n)     == <<"cron", j, n>>
ScheduleTask(s, n) == <<"schedule", s, n>>
ItemTask(i)        == <<"backlog", i>>
Outstanding(k) == k \in DOMAIN tasks /\ tasks[k] = "outstanding"
Enqueued(k)    == [t \in DOMAIN tasks \union {k} |-> IF t \in DOMAIN tasks THEN tasks[t] ELSE "outstanding"]
Idle           == \A k \in DOMAIN tasks : tasks[k] = "ended"

(* The first time after t on the grid of a target. *)
NextOn(target, t) == t + Every - ((t - target) % Every)

(* Missed targets are skipped: the next one lies after both. *)
NextTarget(target, t) == NextOn(target, IF t > target THEN t ELSE target)

(* What an extension declares: a cadence, and everything else.  A day has  *)
(* Every ticks too, on a grid of its own.                                  *)
Cadence(spec) == IF spec = "daily" THEN "daily" ELSE "interval"
Daily(t) == NextOn(1, t)
FirstRun(spec, t)     == IF Cadence(spec) = "daily" THEN Daily(t) ELSE t + Every
NextRun(spec, due, t) == IF Cadence(spec) = "daily" THEN Daily(t) ELSE NextTarget(due, t)

NoJob  == [status |-> "absent", created |-> 0, next |-> 0, claims |-> 0, claim |-> 0, last |-> NoTask]
NoItem == [status |-> "absent", priority |-> 1, task |-> NoTask]
NoSchedule == [state |-> "absent", spec |-> "daily", next |-> 0, claims |-> 0, claim |-> 0,
               kind |-> "", due |-> 0, run |-> FALSE, history |-> <<>>, last |-> NoTask]
Resting == [pc |-> "idle", stale |-> FALSE, todo |-> {}, chosen |-> {}, loaded |-> {}]

(* What a pass has read of a job or schedule, in the order of what is due. *)
Item(id, due, claim, last) == [id |-> id, due |-> due, claim |-> claim, last |-> last]
Before(i, k) == i.due < k.due \/ (i.due = k.due /\ i.id < k.id)
First(i, items) == i \in items /\ \A k \in items \ {i} : Before(i, k)
Final(i, items) == i \in items /\ \A k \in items \ {i} : Before(k, i)

(* reconcile_extension_schedules: what a new daemon makes of the schedules *)
(* it finds and those its extensions declare.                              *)
Reconciled(prior, spec) ==
  LET reenabled == prior.state = "disabled"
      moved == reenabled \/ Cadence(spec) # Cadence(prior.spec)
      unclaimed == [prior EXCEPT !.run = @ /\ prior.claim # 0]
  IN  IF spec = "none"
      THEN IF prior.state \in {"absent", "disabled"} THEN prior
           ELSE [unclaimed EXCEPT !.state = "disabled"]
      ELSE IF prior.state = "absent"
      THEN [NoSchedule EXCEPT !.state = "active", !.spec = spec, !.next = FirstRun(spec, now)]
      ELSE IF spec = prior.spec /\ ~reenabled THEN prior
      ELSE [unclaimed EXCEPT !.state = IF reenabled THEN "active" ELSE @,
                             !.spec = spec,
                             !.next = IF moved /\ prior.kind # "scheduled"
                                      THEN FirstRun(spec, now) ELSE @]

Declarable == IF "schedule" \in load THEN Specs ELSE {"none"}

Init ==
  /\ now = 0 /\ events = 0
  /\ cron = [j \in Crons |-> NoJob]
  /\ load \in Loads
  /\ declared \in [Schedules -> Declarable]
  /\ schedule = [s \in Schedules |-> Reconciled(NoSchedule, declared[s])]
  /\ backlog = [i \in Items |-> NoItem]
  /\ tasks = <<>>
  /\ pass = [p \in Passes |-> Resting]
  /\ accepted = [s \in Schedules |-> <<>>]

-----------------------------------------------------------------------------
(* Requests of people and extensions *)

Event == events < MaxEvents /\ events' = events + 1

Ask == Event /\ UNCHANGED <<load, now, declared, pass>>

AddCron(j) ==
  /\ Ask
  /\ "cron" \in load /\ cron[j].status = "absent"
  /\ cron' = [cron EXCEPT ![j].status = "active", ![j].created = now, ![j].next = now + Every]
  /\ UNCHANGED <<schedule, backlog, tasks, accepted>>

CancelCron(j) ==
  /\ Ask
  /\ cron[j].status = "active"
  /\ cron' = [cron EXCEPT ![j].status = "cancelled"]
  /\ UNCHANGED <<schedule, backlog, tasks, accepted>>

(* Seeded fault: one key too few is remembered. *)
RememberOneLess(history, key) ==
  LET longer == Append(history, key)
  IN  IF Len(longer) >= HistoryLimit THEN Tail(longer) ELSE longer

Remember(history, key) ==
  LET longer == Append(history, key)
  IN  IF Len(longer) > HistoryLimit THEN Tail(longer) ELSE longer

(* An open occurrence serves a run-now request; without one it opens one.  *)
RequestRun(s, key) ==
  /\ Ask
  /\ schedule[s].state = "active"
  /\ key \notin ToSet(schedule[s].history)
  /\ LET open == schedule[s].claim # 0 \/ schedule[s].run
         kept == [schedule EXCEPT ![s].history = IF key = NoKey THEN @ ELSE Remember(@, key)]
     IN  schedule' = IF open THEN kept
                     ELSE [kept EXCEPT ![s].run = TRUE]
  /\ accepted' = [accepted EXCEPT ![s] = IF key = NoKey THEN @ ELSE Append(@, key)]
  /\ UNCHANGED <<cron, backlog, tasks>>

(* A run-now request that nobody has claimed does not survive a pause. *)
PauseSchedule(s) ==
  /\ Ask
  /\ schedule[s].state = "active"
  /\ schedule' = [schedule EXCEPT ![s].state = "paused",
                                  ![s].run = @ /\ schedule[s].claim # 0]
  /\ UNCHANGED <<cron, backlog, tasks, accepted>>

ResumeSchedule(s) ==
  /\ Ask
  /\ schedule[s].state = "paused"
  /\ schedule' = [schedule EXCEPT ![s].state = "active"]
  /\ UNCHANGED <<cron, backlog, tasks, accepted>>

AddItem(i, priority) ==
  /\ Ask
  /\ "backlog" \in load /\ backlog[i].status = "absent"
  /\ backlog' = [backlog EXCEPT ![i].status = "pending", ![i].priority = priority]
  /\ UNCHANGED <<cron, schedule, tasks, accepted>>

RemoveItem(i) ==
  /\ Ask
  /\ backlog[i].status = "pending"
  /\ backlog' = [backlog EXCEPT ![i].status = "removed"]
  /\ UNCHANGED <<cron, schedule, tasks, accepted>>

Reprioritize(i, priority) ==
  /\ Ask
  /\ backlog[i].status = "pending"
  /\ backlog' = [backlog EXCEPT ![i].priority = priority]
  /\ UNCHANGED <<cron, schedule, tasks, accepted>>
-----------------------------------------------------------------------------
(* The pass over cron jobs *)

Step(p, from, to) ==
  /\ pass[p].pc = from
  /\ pass' = [pass EXCEPT ![p] = to]
  /\ UNCHANGED <<load, now, backlog, declared, accepted>>

(* Seeded fault: a claim that is left is never taken up again. *)
DueUnclaimed(j) == cron[j].status = "active" /\ cron[j].claim = 0 /\ cron[j].next <= now

Due(j) == cron[j].status = "active" /\ (cron[j].claim # 0 \/ cron[j].next <= now)

(* What is left to do: first the jobs to check, then those to enqueue. *)
CronStage(todo, chosen) ==
  IF todo # {} THEN "check_crons" ELSE IF chosen # {} THEN "enqueue_crons" ELSE "claim_schedules"

OnCrons(p, todo, chosen) ==
  [pass[p] EXCEPT !.pc = CronStage(todo, chosen), !.todo = todo, !.chosen = chosen]

(* Cron jobs that are due get a claim; a claim nobody recorded stays.      *)
(* A thread of a daemon that was replaced begins no pass.                  *)
ClaimCrons(p) ==
  LET Claimed(j) == IF Due(j) /\ cron[j].claim = 0
                    THEN [cron[j] EXCEPT !.claims = @ + 1, !.claim = cron[j].claims + 1]
                    ELSE cron[j]
      todo == {Item(j, cron[j].next, Claimed(j).claim, cron[j].last) : j \in {j \in Crons : Due(j)}}
  IN  /\ cron' = [j \in Crons |-> Claimed(j)]
      /\ Step(p, "idle", [OnCrons(p, todo, {}) EXCEPT
                            !.loaded = {s \in Schedules : declared[s] # "none"}])
      /\ UNCHANGED <<schedule, tasks, events>>

(* Seeded fault: nobody looks at the last task. *)
CheckCronBlind(p) ==
  \E item \in pass[p].todo :
    /\ First(item, pass[p].todo)
    /\ Step(p, "check_crons", OnCrons(p, pass[p].todo \ {item}, pass[p].chosen \union {item}))
    /\ UNCHANGED <<cron, schedule, tasks, events>>

(* Jobs whose last task is outstanding are left for a later pass. *)
CheckCron(p) ==
  \E item \in pass[p].todo :
    /\ First(item, pass[p].todo)
    /\ Step(p, "check_crons",
            OnCrons(p, pass[p].todo \ {item},
                    pass[p].chosen \union (IF Outstanding(item.last) THEN {} ELSE {item})))
    /\ UNCHANGED <<cron, schedule, tasks, events>>

(* Each goes to the front of the queue, so the last one goes first.  The   *)
(* queue refuses a daemon that was replaced, and the pass is over.         *)
EnqueueCron(p) ==
  \E item \in pass[p].chosen :
    /\ Final(item, pass[p].chosen)
    /\ UNCHANGED <<cron, schedule>>
    /\ \/ /\ pass[p].stale
          /\ Step(p, "enqueue_crons", Resting)
          /\ UNCHANGED <<tasks, events>>
       \/ /\ ~pass[p].stale
          /\ tasks' = Enqueued(CronTask(item.id, item.claim))
          /\ Step(p, "enqueue_crons", [pass[p] EXCEPT !.pc = "record_cron"])
          /\ UNCHANGED events
       \/ /\ Event
          /\ Step(p, "enqueue_crons", OnCrons(p, {}, pass[p].chosen \ {item}))
          /\ UNCHANGED tasks

(* Only the claim that was enqueued is acknowledged. *)
Answers(job, claim) == job.status = "active" /\ job.claim = claim

RecordCron(p) ==
  \E item \in pass[p].chosen :
    LET job == cron[item.id] IN
    /\ Final(item, pass[p].chosen)
    /\ Step(p, "record_cron", OnCrons(p, {}, pass[p].chosen \ {item}))
    /\ cron' = IF Answers(job, item.claim)
               THEN [cron EXCEPT ![item.id].last = CronTask(item.id, item.claim),
                                 ![item.id].next = NextTarget(job.next, now),
                                 ![item.id].claim = 0]
               ELSE cron
    /\ UNCHANGED <<schedule, tasks, events>>
-----------------------------------------------------------------------------
(* The pass over extension schedules *)

Wanted(s) ==
  /\ schedule[s].state = "active"
  /\ schedule[s].claim # 0 \/ schedule[s].next <= now \/ schedule[s].run

OnSchedules(p, todo) ==
  IF todo = {} THEN Resting ELSE [pass[p] EXCEPT !.pc = "check_schedule", !.todo = todo]

Skip(p, item) == OnSchedules(p, pass[p].todo \ {item})

(* A due target comes before a run-now request, and serves it. *)
ClaimSchedules(p) ==
  LET Timed(s) == schedule[s].next <= now
      Claimed(s) == IF Wanted(s) /\ schedule[s].claim = 0
                    THEN [schedule[s] EXCEPT !.claims = @ + 1, !.claim = schedule[s].claims + 1,
                            !.kind = IF Timed(s) THEN "scheduled" ELSE "run-now",
                            !.due  = IF Timed(s) THEN schedule[s].next ELSE now]
                    ELSE schedule[s]
  IN  /\ schedule' = [s \in Schedules |-> Claimed(s)]
      /\ Step(p, "claim_schedules",
              OnSchedules(p, {Item(s, Claimed(s).due, Claimed(s).claim, schedule[s].last) :
                                s \in {s \in Schedules : Wanted(s)}}))
      /\ UNCHANGED <<cron, tasks, events>>

(* One schedule after the other: skipped while its last task is            *)
(* outstanding, declined when its extension, the conversation or the       *)
(* authorization is missing, else enqueued.                                *)
CheckSchedule(p) ==
  LET Goes(pc) == Step(p, "check_schedule", [pass[p] EXCEPT !.pc = pc]) IN
  /\ pass[p].pc = "check_schedule"
  /\ UNCHANGED <<cron, schedule, tasks>>
  /\ \E item \in pass[p].todo :
    /\ First(item, pass[p].todo)
    /\ IF Outstanding(item.last)
       THEN Step(p, "check_schedule", Skip(p, item)) /\ UNCHANGED events
       ELSE \/ item.id \in pass[p].loaded /\ Goes("enqueue_schedule") /\ UNCHANGED events
            \/ item.id \notin pass[p].loaded /\ Goes("decline_schedule") /\ UNCHANGED events
            \/ Event /\ Goes("decline_schedule")

EnqueueSchedule(p) ==
  \E item \in pass[p].todo :
    /\ First(item, pass[p].todo)
    /\ UNCHANGED <<cron, schedule>>
    /\ \/ /\ ~pass[p].stale
          /\ Step(p, "enqueue_schedule", [pass[p] EXCEPT !.pc = "record_schedule"])
          /\ tasks' = Enqueued(ScheduleTask(item.id, item.claim))
          /\ UNCHANGED events
       \/ /\ pass[p].stale
          /\ Step(p, "enqueue_schedule", Resting)
          /\ UNCHANGED <<tasks, events>>
       \/ /\ Event
          /\ Step(p, "enqueue_schedule", [pass[p] EXCEPT !.pc = "decline_schedule"])
          /\ UNCHANGED tasks

(* _acknowledge_schedule: the claim and every run-now request are closed. *)
Acknowledged(s, task) ==
  [schedule[s] EXCEPT
     !.next = IF schedule[s].kind = "scheduled"
              THEN NextRun(schedule[s].spec, schedule[s].due, now) ELSE @,
     !.last = IF task = NoTask THEN @ ELSE task,
     !.claim = 0, !.kind = "", !.due = 0, !.run = FALSE]

Acknowledge(p, from, item, task) ==
  /\ First(item, pass[p].todo)
  /\ Step(p, from, Skip(p, item))
  /\ schedule' = IF schedule[item.id].claim = item.claim
                 THEN [schedule EXCEPT ![item.id] = Acknowledged(item.id, task)]
                 ELSE schedule
  /\ UNCHANGED <<cron, tasks, events>>

RecordSchedule(p) ==
  \E item \in pass[p].todo :
    Acknowledge(p, "record_schedule", item, ScheduleTask(item.id, item.claim))

RecordFailure(p) ==
  \E item \in pass[p].todo : Acknowledge(p, "decline_schedule", item, NoTask)

(* A file that cannot be read or written ends the pass, not the thread. *)
AbandonPass(p) ==
  /\ pass[p].pc # "idle"
  /\ Event
  /\ Step(p, pass[p].pc, Resting)
  /\ UNCHANGED <<cron, schedule, tasks>>
-----------------------------------------------------------------------------
(* The backlog *)

Best(i) ==
  /\ backlog[i].status = "pending"
  /\ \A k \in Items : backlog[k].status = "pending" =>
       backlog[i].priority < backlog[k].priority
       \/ (backlog[i].priority = backlog[k].priority /\ i <= k)

(* An item is read, by the loop that found the queue idle or by a person,  *)
(* then enqueued, then taken from the backlog.                             *)
Pick(p, i) ==
  /\ backlog[i].status = "pending"
  /\ pass[p].pc = "idle"
  /\ pass' = [pass EXCEPT ![p] = [Resting EXCEPT !.pc = "enqueue_item", !.todo = {i}]]
  /\ UNCHANGED <<load, now, files, tasks, declared, accepted>>

PromoteWhenIdle(p) ==
  /\ Idle
  /\ \E i \in Items : Best(i) /\ Pick(p, i)
  /\ UNCHANGED events

PromoteOnRequest(p, i) ==
  /\ Event
  /\ Pick(p, i)

EnqueueItem(p) ==
  /\ IF pass[p].stale
     THEN Step(p, "enqueue_item", Resting) /\ UNCHANGED tasks
     ELSE /\ Step(p, "enqueue_item", [pass[p] EXCEPT !.pc = "promote_item"])
          /\ \E i \in pass[p].todo : tasks' = Enqueued(ItemTask(i))
  /\ UNCHANGED <<cron, schedule, events>>

PromoteItem(p) ==
  \E i \in pass[p].todo :
    /\ pass[p].pc = "promote_item"
    /\ pass' = [pass EXCEPT ![p] = Resting]
    /\ backlog' = IF backlog[i].status = "pending"
                  THEN [backlog EXCEPT ![i].status = "promoted", ![i].task = ItemTask(i)]
                  ELSE backlog
    /\ UNCHANGED <<now, cron, schedule, tasks, declared, bounds, accepted>>
-----------------------------------------------------------------------------
(* Tasks, time and restarts *)

TaskEnds(k) ==
  /\ Outstanding(k)
  /\ tasks' = [tasks EXCEPT ![k] = "ended"]
  /\ UNCHANGED <<now, files, declared, pass, bounds, accepted>>

Tick ==
  /\ now < MaxTime
  /\ now' = now + 1
  /\ UNCHANGED <<files, tasks, declared, pass, bounds, accepted>>

(* A newer daemon takes over.  Threads of the old one that still run go on *)
(* with what they read; those that ended with it take no further step.     *)
Takeover ==
  /\ Event
  /\ \E specs \in [Schedules -> Declarable \union {"none"}] :
       /\ declared' = specs
       /\ schedule' = [s \in Schedules |-> Reconciled(schedule[s], specs[s])]
  /\ \E dead \in SUBSET Passes :
       pass' = [p \in Passes |-> IF p \in dead \/ pass[p].pc = "idle" THEN Resting
                                 ELSE [pass[p] EXCEPT !.stale = TRUE]]
  /\ UNCHANGED <<load, now, cron, backlog, tasks, accepted>>

Proceed(p) ==
  \/ ClaimCrons(p) \/ CheckCron(p) \/ EnqueueCron(p) \/ RecordCron(p)
  \/ ClaimSchedules(p) \/ CheckSchedule(p) \/ EnqueueSchedule(p)
  \/ RecordSchedule(p) \/ RecordFailure(p)
  \/ EnqueueItem(p) \/ PromoteItem(p)

Requests ==
  \/ \E j \in Crons : AddCron(j) \/ CancelCron(j)
  \/ \E s \in Schedules : \/ PauseSchedule(s) \/ ResumeSchedule(s)
                          \/ \E key \in Keys : RequestRun(s, key)
  \/ \E i \in Items : \/ RemoveItem(i)
                      \/ \E priority \in 0..2 : AddItem(i, priority) \/ Reprioritize(i, priority)

Next ==
  \/ Requests
  \/ \E p \in Passes : \/ Proceed(p) \/ AbandonPass(p)
                       \/ PromoteWhenIdle(p) \/ \E i \in Items : PromoteOnRequest(p, i)
  \/ \E k \in DOMAIN tasks : TaskEnds(k)
  \/ Tick \/ Takeover

Spec == Init /\ [][Next]_vars

(* Threads are scheduled, tasks end, time passes and the loops come back. *)
Fairness ==
  /\ WF_vars(Tick)
  /\ \A p \in Passes : WF_vars(Proceed(p))
  /\ WF_vars(\E k \in DOMAIN tasks : TaskEnds(k))

FairSpec == Spec /\ Fairness
-----------------------------------------------------------------------------
(* Properties *)

Of(kind, id) == {k \in DOMAIN tasks : k[1] = kind /\ k[2] = id}
Unfinished(kind, id) == {k \in Of(kind, id) : tasks[k] = "outstanding"}

(* A cron job has one pending, running or paused task at most, whatever    *)
(* both threads have read before they enqueue, and across crashes.         *)
OneOutstanding == \A j \in Crons : Cardinality(Unfinished("cron", j)) <= 1

(* A run-now key accepted again is older than all the keys remembered. *)
RunKeysRemembered ==
  \A s \in Schedules : \A m, n \in DOMAIN accepted[s] :
    m < n /\ accepted[s][m] = accepted[s][n] => n - m > HistoryLimit

(* A claimed occurrence is recorded in the end, whoever claimed it and     *)
(* whatever ended between, unless its job is cancelled or schedule paused, *)
(* and a run-now request is served, unless the schedule is paused or gone. *)
ClaimsSettle ==
  /\ \A j \in Crons : cron[j].claim # 0 ~> (cron[j].claim = 0 \/ cron[j].status = "cancelled")
  /\ \A s \in Schedules :
       /\ schedule[s].claim # 0 ~> (schedule[s].claim = 0 \/ schedule[s].state # "active")
       /\ schedule[s].run ~> (~schedule[s].run \/ schedule[s].state # "active")
=============================================================================
