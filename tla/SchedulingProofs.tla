-------------------------- MODULE SchedulingProofs --------------------------
(***************************************************************************)
(* Proofs about Scheduling, for any jobs, schedules, threads and requests. *)
(***************************************************************************)
EXTENDS Scheduling, FiniteSetTheorems, TLAPS

Ids      == Crons \union Schedules
CronTasks     == {CronTask(i, n) : i \in Ids, n \in Nat}
ScheduleTasks == {ScheduleTask(i, n) : i \in Ids, n \in Nat}
LastTask == {NoTask} \union CronTasks \union ScheduleTasks
Cadences == Specs \union {"none", "daily"}
Status   == {"absent", "active", "paused", "disabled", "cancelled"}
Stages   == {"idle", "check_crons", "enqueue_crons", "record_cron", "claim_schedules", "check_schedule",
             "enqueue_schedule", "record_schedule", "decline_schedule", "enqueue_item", "promote_item"}
Job      == [status : Status, created : Nat, next : Nat, claims : Nat, claim : Nat, last : LastTask]
Timetable == [state : Status, spec : Cadences, next : Nat, claims : Nat, claim : Nat,
              kind : {"", "scheduled", "run-now"}, due : Nat, run : BOOLEAN, history : Seq(Keys), last : LastTask]
ReadItem == [id : Ids, due : Nat, claim : Nat, last : LastTask]
Pass     == [pc : Stages, stale : BOOLEAN, todo : SUBSET (ReadItem \union Items),
             chosen : SUBSET ReadItem, loaded : SUBSET Schedules]

SchedulingFits ==
  /\ now \in Nat
  /\ cron \in [Crons -> Job]
  /\ schedule \in [Schedules -> Timetable]
  /\ declared \in [Schedules -> Cadences]
  /\ tasks \in [DOMAIN tasks -> {"outstanding", "ended"}]
  /\ pass \in [Passes -> Pass]
  /\ accepted \in [Schedules -> Seq(Keys)]

(* Only a promotion works on an item of the backlog. *)
Promotes(p) == pass[p].pc \in {"enqueue_item", "promote_item"}
ReadsFit == \A p \in Passes : Promotes(p) \/ pass[p].todo \subseteq ReadItem

TypeOK == SchedulingFits /\ ReadsFit
-----------------------------------------------------------------------------
(* The helpers stay in their ranges *)

LEMMA EveryFits == Every \in Nat /\ Every > 0
BY SchedulingAssumption DEF SchedulingAssumption

LEMMA NextFits ==
  ASSUME NEW t \in Nat, NEW target \in Nat
  PROVE  NextOn(target, t) \in Nat /\ NextTarget(target, t) \in Nat /\ Daily(t) \in Nat
<1>1. ASSUME NEW a \in Nat, NEW b \in Nat
      PROVE  NextOn(a, b) \in Nat
  <2>1. (b - a) % Every \in 0..Every - 1
    BY EveryFits
  <2>2. QED
    BY <2>1, EveryFits DEF NextOn
<1>2. NextTarget(target, t) \in Nat
  BY <1>1 DEF NextTarget
<1>3. Daily(t) \in Nat
  BY <1>1 DEF Daily
<1>4. QED
  BY <1>1, <1>2, <1>3

LEMMA RunFits ==
  ASSUME NEW t \in Nat, NEW due \in Nat, NEW spec
  PROVE  FirstRun(spec, t) \in Nat /\ NextRun(spec, due, t) \in Nat
<1>1. Daily(t) \in Nat /\ NextTarget(due, t) \in Nat
  BY NextFits
<1>2. t + Every \in Nat
  BY EveryFits
<1>3. QED
  BY <1>1, <1>2 DEF FirstRun, NextRun

LEMMA ItemFits ==
  ASSUME NEW i \in Ids, NEW due \in Nat, NEW claim \in Nat, NEW last \in LastTask
  PROVE  Item(i, due, claim, last) \in ReadItem
BY DEF Item, ReadItem

LEMMA TaskFits ==
  ASSUME NEW i \in Ids, NEW n \in Nat
  PROVE  CronTask(i, n) \in LastTask /\ ScheduleTask(i, n) \in LastTask
BY DEF LastTask, CronTasks, ScheduleTasks

LEMMA EnqueuedFits ==
  ASSUME NEW k, SchedulingFits, tasks' = Enqueued(k)
  PROVE  /\ tasks' \in [DOMAIN tasks' -> {"outstanding", "ended"}]
         /\ DOMAIN tasks' = DOMAIN tasks \union {k}
         /\ \A t \in DOMAIN tasks : tasks'[t] = tasks[t]
         /\ k \notin DOMAIN tasks => tasks'[k] = "outstanding"
BY DEF SchedulingFits, Enqueued

LEMMA AbsentFits == NoSchedule \in Timetable
<1>1. <<>> \in Seq(Keys)
  OBVIOUS
<1>2. NoTask \in LastTask
  BY DEF LastTask
<1>3. QED
  BY <1>1, <1>2 DEF Timetable, Status, Cadences, NoSchedule

LEMMA ReconciledFits ==
  ASSUME NEW prior \in Timetable, NEW spec \in Cadences, now \in Nat
  PROVE  /\ Reconciled(prior, spec) \in Timetable
         /\ \/ Reconciled(prior, spec).history = prior.history
            \/ Reconciled(prior, spec).history = <<>> /\ prior.state = "absent"
         /\ Reconciled(prior, spec).state = "absent" => prior.state = "absent"
<1> DEFINE reenabled == prior.state = "disabled"
           unclaimed == [prior EXCEPT !.run = @ /\ prior.claim # 0]
           none   == [unclaimed EXCEPT !.state = "disabled"]
           fresh  == [NoSchedule EXCEPT !.state = "active", !.spec = spec, !.next = FirstRun(spec, now)]
           moved  == [unclaimed EXCEPT !.state = IF reenabled THEN "active" ELSE @,
                                       !.spec = spec, !.next = FirstRun(spec, now)]
           kept   == [unclaimed EXCEPT !.state = IF reenabled THEN "active" ELSE @, !.spec = spec]
<1>1. FirstRun(spec, now) \in Nat
  BY RunFits
<1>2. unclaimed \in Timetable /\ unclaimed.history = prior.history /\ unclaimed.state = prior.state
  BY DEF Timetable
<1>3. none \in Timetable /\ none.history = prior.history /\ none.state = "disabled"
  BY <1>2 DEF Timetable, Status
<1>5. NoSchedule \in Timetable
  BY AbsentFits
<1>6. fresh \in Timetable /\ fresh.history = <<>> /\ fresh.state = "active"
  BY <1>1, <1>5 DEF Timetable, Status, Cadences, NoSchedule
<1>7. /\ moved \in Timetable /\ moved.history = prior.history
      /\ moved.state \in {prior.state, "active"}
  BY <1>1, <1>2 DEF Timetable, Status
<1>8. /\ kept \in Timetable /\ kept.history = prior.history
      /\ kept.state \in {prior.state, "active"}
  BY <1>2 DEF Timetable, Status
<1>9. CASE Reconciled(prior, spec) = none
  BY <1>3, <1>9
<1>10. CASE Reconciled(prior, spec) = fresh /\ prior.state = "absent"
  BY <1>6, <1>10
<1>11. CASE Reconciled(prior, spec) = moved
  BY <1>7, <1>11
<1>12. CASE Reconciled(prior, spec) = kept
  BY <1>8, <1>12
<1>13. CASE Reconciled(prior, spec) = prior
  BY <1>13
<1>14. \/ Reconciled(prior, spec) \in {none, moved, kept, prior}
       \/ Reconciled(prior, spec) = fresh /\ prior.state = "absent"
  <2>1. unclaimed.next = prior.next
    BY DEF Timetable
  <2>2. [unclaimed EXCEPT !.state = IF reenabled THEN "active" ELSE @,
                          !.spec = spec, !.next = @] = kept
    BY <1>2 DEF Timetable, Status
  <2>3. QED
    BY <2>2 DEF Reconciled
<1>15. QED
  BY <1>9, <1>10, <1>11, <1>12, <1>13, <1>14
-----------------------------------------------------------------------------
(* A pass stays in its range *)

LEMMA RestingFits == Resting \in Pass
BY DEF Resting, Pass, Stages

LEMMA OnCronsFits ==
  ASSUME NEW p \in Passes, pass[p] \in Pass,
         NEW todo \in SUBSET ReadItem, NEW chosen \in SUBSET ReadItem
  PROVE  /\ OnCrons(p, todo, chosen) \in Pass
         /\ OnCrons(p, todo, chosen).todo = todo
         /\ OnCrons(p, todo, chosen).chosen = chosen
         /\ OnCrons(p, todo, chosen).pc = CronStage(todo, chosen)
         /\ CronStage(todo, chosen) \in {"check_crons", "enqueue_crons", "claim_schedules"}
<1>1. CronStage(todo, chosen) \in Stages \intersect {"check_crons", "enqueue_crons", "claim_schedules"}
  BY DEF CronStage, Stages
<1>2. QED
  BY <1>1 DEF OnCrons, Pass

LEMMA OnSchedulesFits ==
  ASSUME NEW p \in Passes, pass[p] \in Pass, NEW todo \in SUBSET ReadItem
  PROVE  /\ OnSchedules(p, todo) \in Pass
         /\ OnSchedules(p, todo).todo = todo
         /\ OnSchedules(p, todo).pc \in {"idle", "check_schedule"}
         /\ OnSchedules(p, todo).pc = "idle" => OnSchedules(p, todo) = Resting
<1>1. CASE todo = {}
  BY <1>1, RestingFits DEF OnSchedules, Resting
<1>2. CASE todo # {}
  BY <1>2 DEF OnSchedules, Pass, Stages
<1>3. QED
  BY <1>1, <1>2

(* A step of one pass leaves the others alone. *)
LEMMA StepFits ==
  ASSUME TypeOK, NEW p \in Passes, NEW from, NEW to \in Pass, Step(p, from, to),
         to.pc \in {"enqueue_item", "promote_item"} \/ to.todo \subseteq ReadItem
  PROVE  /\ pass' \in [Passes -> Pass] /\ ReadsFit'
         /\ pass'[p] = to
         /\ \A q \in Passes \ {p} : pass'[q] = pass[q]
         /\ now' = now /\ declared' = declared /\ accepted' = accepted
<1>1. /\ pass' = [pass EXCEPT ![p] = to] /\ pass \in [Passes -> Pass]
      /\ now' = now /\ declared' = declared /\ accepted' = accepted
  BY DEF Step, TypeOK, SchedulingFits
<1>2. pass' \in [Passes -> Pass] /\ pass'[p] = to /\ \A q \in Passes \ {p} : pass'[q] = pass[q]
  BY <1>1
<1>3. ReadsFit'
  BY <1>2 DEF ReadsFit, Promotes, TypeOK
<1>4. QED
  BY <1>1, <1>2, <1>3

LEMMA ReadsUnmoved ==
  ASSUME TypeOK, pass' = pass
  PROVE  ReadsFit'
BY DEF TypeOK, ReadsFit, Promotes
-----------------------------------------------------------------------------
(* The types are preserved *)

LEMMA TypeInit == Init => TypeOK
<1> SUFFICES ASSUME Init PROVE TypeOK
  OBVIOUS
<1>1. now \in Nat /\ accepted \in [Schedules -> Seq(Keys)]
  BY DEF Init
<1>2. pass \in [Passes -> Pass] /\ ReadsFit
  BY RestingFits DEF Init, ReadsFit, Resting
<1>3. cron \in [Crons -> Job]
  <2>1. NoTask \in LastTask
    BY DEF LastTask
  <2>2. NoJob \in Job
    BY <2>1 DEF NoJob, Job, Status
  <2>3. QED
    BY <2>2 DEF Init
<1>4. declared \in [Schedules -> Cadences]
  BY DEF Init, Declarable, Cadences
<1>5. schedule \in [Schedules -> Timetable]
  <2>1. \A s \in Schedules : Reconciled(NoSchedule, declared[s]) \in Timetable
    BY <1>1, <1>4, AbsentFits, ReconciledFits
  <2>2. QED
    BY <2>1 DEF Init
<1>6. tasks \in [DOMAIN tasks -> {"outstanding", "ended"}]
  <2>1. tasks = <<>> /\ DOMAIN tasks = {}
    BY DEF Init
  <2>2. QED
    BY <2>1
<1>7. QED
  BY <1>1, <1>2, <1>3, <1>4, <1>5, <1>6 DEF TypeOK, SchedulingFits

(* Requests of people and extensions. *)
LEMMA CronRequestFits ==
  ASSUME TypeOK, NEW j \in Crons, AddCron(j) \/ CancelCron(j)
  PROVE  /\ TypeOK'
         /\ \A i \in Crons : /\ cron'[i].claims = cron[i].claims
                             /\ cron'[i].claim = cron[i].claim
                             /\ cron'[i].last = cron[i].last
         /\ UNCHANGED <<schedule, tasks, pass, accepted>>
<1>1. UNCHANGED <<load, now, declared, pass, schedule, backlog, tasks, accepted>>
  BY DEF AddCron, CancelCron, Ask
<1>2. ReadsFit'
  BY <1>1, ReadsUnmoved
<1>3. cron \in [Crons -> Job] /\ now \in Nat
  BY DEF TypeOK, SchedulingFits
<1>4. /\ cron' \in [Crons -> Job]
      /\ \A i \in Crons : /\ cron'[i].claims = cron[i].claims
                          /\ cron'[i].claim = cron[i].claim
                          /\ cron'[i].last = cron[i].last
  <2>1. CASE AddCron(j)
    <3>1. cron' = [cron EXCEPT ![j] = [@ EXCEPT !.status = "active", !.created = now, !.next = now + Every]]
      BY <2>1, <1>3 DEF AddCron, Job
    <3>2. now + Every \in Nat /\ now \in Nat /\ "active" \in Status
      BY <1>3, EveryFits DEF Status
    <3>3. [cron[j] EXCEPT !.status = "active", !.created = now, !.next = now + Every] \in Job
      BY <1>3, <3>2 DEF Job
    <3>4. QED
      BY <1>3, <3>1, <3>3 DEF Job
  <2>2. CASE CancelCron(j)
    <3>1. cron' = [cron EXCEPT ![j].status = "cancelled"]
      BY <2>2 DEF CancelCron
    <3>2. QED
      BY <1>3, <3>1 DEF Job, Status
  <2>3. QED
    BY <2>1, <2>2
<1>5. QED
  BY <1>1, <1>2, <1>4 DEF TypeOK, SchedulingFits

LEMMA RemembersFits ==
  ASSUME NEW history \in Seq(Keys), NEW key \in Keys
  PROVE  Remember(history, key) \in Seq(Keys)
<1>1. Append(history, key) \in Seq(Keys) /\ Append(history, key) # <<>>
  OBVIOUS
<1>2. Tail(Append(history, key)) \in Seq(Keys)
  BY <1>1
<1>3. QED
  BY <1>1, <1>2 DEF Remember

(* What a request does to one schedule. *)
LEMMA ScheduleRequestFits ==
  ASSUME TypeOK, NEW s \in Schedules,
         \/ PauseSchedule(s) \/ ResumeSchedule(s) \/ \E key \in Keys : RequestRun(s, key)
  PROVE  TypeOK' /\ UNCHANGED <<cron, tasks, pass>>
<1>1. UNCHANGED <<load, now, declared, pass, cron, backlog, tasks>>
  BY DEF PauseSchedule, ResumeSchedule, RequestRun, Ask
<1>2. ReadsFit'
  BY <1>1, ReadsUnmoved
<1>3. schedule \in [Schedules -> Timetable] /\ accepted \in [Schedules -> Seq(Keys)]
  BY DEF TypeOK, SchedulingFits
<1>4. schedule' \in [Schedules -> Timetable] /\ accepted' \in [Schedules -> Seq(Keys)]
  <2>1. CASE PauseSchedule(s)
    <3> DEFINE run == schedule[s].run /\ schedule[s].claim # 0
    <3>1. /\ schedule' = [schedule EXCEPT ![s] = [schedule[s] EXCEPT !.state = "paused", !.run = run]]
          /\ accepted' = accepted
      <4>1. /\ schedule' = [schedule EXCEPT ![s].state = "paused", ![s].run = @ /\ schedule[s].claim # 0]
            /\ accepted' = accepted
        BY <2>1 DEF PauseSchedule
      <4>2. [schedule EXCEPT ![s].state = "paused", ![s].run = @ /\ schedule[s].claim # 0]
              = [schedule EXCEPT ![s] = [schedule[s] EXCEPT !.state = "paused", !.run = run]]
        BY <1>3 DEF Timetable
      <4>3. QED
        BY <4>1, <4>2
    <3>2. [schedule[s] EXCEPT !.state = "paused", !.run = run] \in Timetable
      <4>1. run \in BOOLEAN /\ schedule[s] \in Timetable /\ "paused" \in Status
        BY <1>3 DEF Status
      <4> HIDE DEF run
      <4>2. QED
        BY <4>1 DEF Timetable
    <3> HIDE DEF run
    <3>3. QED
      BY <1>3, <3>1, <3>2
  <2>2. CASE ResumeSchedule(s)
    <3>1. schedule' = [schedule EXCEPT ![s] = [@ EXCEPT !.state = "active"]] /\ accepted' = accepted
      BY <2>2, <1>3 DEF ResumeSchedule
    <3>2. [schedule[s] EXCEPT !.state = "active"] \in Timetable
      BY <1>3 DEF Timetable, Status
    <3>3. QED
      BY <1>3, <3>1, <3>2
  <2>3. ASSUME NEW key \in Keys, RequestRun(s, key)
        PROVE  schedule' \in [Schedules -> Timetable] /\ accepted' \in [Schedules -> Seq(Keys)]
    <3> DEFINE history == IF key = NoKey THEN schedule[s].history ELSE Remember(schedule[s].history, key)
               kept == [schedule EXCEPT ![s].history = history]
    <3>1. schedule[s].history \in Seq(Keys)
      BY <1>3 DEF Timetable
    <3>2. history \in Seq(Keys)
      BY <3>1, RemembersFits
    <3>3. kept \in [Schedules -> Timetable]
      <4> HIDE DEF history
      <4>1. [schedule[s] EXCEPT !.history = history] \in Timetable
        BY <1>3, <3>2 DEF Timetable
      <4>2. QED
        BY <1>3, <4>1
    <3>4. schedule' = kept \/ schedule' = [kept EXCEPT ![s].run = TRUE]
      BY <2>3, <1>3 DEF RequestRun
    <3>5. [kept EXCEPT ![s].run = TRUE] \in [Schedules -> Timetable]
      <4> HIDE DEF kept
      <4>1. [kept[s] EXCEPT !.run = TRUE] \in Timetable
        BY <3>3 DEF Timetable
      <4>2. QED
        BY <3>3, <4>1
    <3>6. accepted' \in [Schedules -> Seq(Keys)]
      <4>1. accepted' = accepted \/ accepted' = [accepted EXCEPT ![s] = Append(accepted[s], key)]
        BY <2>3, <1>3 DEF RequestRun
      <4>2. Append(accepted[s], key) \in Seq(Keys)
        BY <1>3
      <4>3. QED
        BY <1>3, <4>1, <4>2
    <3>7. QED
      BY <3>3, <3>4, <3>5, <3>6
  <2>4. QED
    BY <2>1, <2>2, <2>3
<1>5. QED
  BY <1>1, <1>2, <1>4 DEF TypeOK, SchedulingFits

(* Steps of a pass over cron jobs. *)
LEMMA ClaimCronsFits ==
  ASSUME TypeOK, NEW p \in Passes, ClaimCrons(p)
  PROVE  /\ TypeOK'
         /\ UNCHANGED <<tasks, schedule, accepted>>
         /\ \A q \in Passes \ {p} : pass'[q] = pass[q]
         /\ \A j \in Crons :
              /\ cron'[j].last = cron[j].last
              /\ \/ Due(j) /\ cron[j].claim = 0 /\ cron'[j].claims = cron[j].claims + 1
                    /\ cron'[j].claim = cron[j].claims + 1
                 \/ cron'[j].claims = cron[j].claims /\ cron'[j].claim = cron[j].claim
                    /\ (Due(j) => cron[j].claim # 0)
         /\ pass'[p].pc # "record_cron" /\ pass'[p].chosen = {}
         /\ \A item \in pass'[p].todo : \E j \in Crons :
              /\ Due(j) /\ item.id = j
              /\ item.claim = cron'[j].claim /\ item.last = cron[j].last
<1>1. cron \in [Crons -> Job] /\ pass[p] \in Pass
  BY DEF TypeOK, SchedulingFits
<1> DEFINE Claimed(j) == IF Due(j) /\ cron[j].claim = 0
                         THEN [cron[j] EXCEPT !.claims = @ + 1, !.claim = cron[j].claims + 1]
                         ELSE cron[j]
           todo == {Item(j, cron[j].next, Claimed(j).claim, cron[j].last) : j \in {j \in Crons : Due(j)}}
           to   == [OnCrons(p, todo, {}) EXCEPT !.loaded = {s \in Schedules : declared[s] # "none"}]
<1>2. /\ cron' = [j \in Crons |-> Claimed(j)] /\ Step(p, "idle", to)
      /\ UNCHANGED <<schedule, tasks, events>>
  BY DEF ClaimCrons
<1>3. ASSUME NEW j \in Crons
      PROVE  /\ Claimed(j) \in Job
             /\ Claimed(j).last = cron[j].last
             /\ \/ Due(j) /\ cron[j].claim = 0 /\ Claimed(j).claims = cron[j].claims + 1
                   /\ Claimed(j).claim = cron[j].claims + 1
                \/ Claimed(j).claims = cron[j].claims /\ Claimed(j).claim = cron[j].claim
                   /\ (Due(j) => cron[j].claim # 0)
  <2>1. cron[j] \in Job
    BY <1>1
  <2>2. CASE Due(j) /\ cron[j].claim = 0
    <3>1. Claimed(j) = [cron[j] EXCEPT !.claims = cron[j].claims + 1, !.claim = cron[j].claims + 1]
      BY <2>1, <2>2 DEF Job
    <3>2. cron[j].claims + 1 \in Nat
      BY <2>1 DEF Job
    <3> HIDE DEF Claimed
    <3>3. Claimed(j) \in Job
      BY <2>1, <3>1, <3>2 DEF Job
    <3>4. QED
      BY <2>1, <2>2, <3>1, <3>3 DEF Job
  <2>3. CASE ~(Due(j) /\ cron[j].claim = 0)
    BY <2>1, <2>3
  <2>4. QED
    BY <2>2, <2>3
<1>4. todo \in SUBSET ReadItem
  <2> SUFFICES ASSUME NEW j \in Crons
               PROVE  Item(j, cron[j].next, Claimed(j).claim, cron[j].last) \in ReadItem
    OBVIOUS
  <2>1. j \in Ids /\ cron[j].next \in Nat /\ Claimed(j).claim \in Nat /\ cron[j].last \in LastTask
    <3>1. Claimed(j).claim \in Nat
      <4> HIDE DEF Claimed
      <4>1. QED
        BY <1>3 DEF Job
    <3>2. QED
      BY <1>1, <3>1 DEF Job, Ids
  <2>2. QED
    <3> HIDE DEF Claimed
    <3>1. QED
      BY <2>1, ItemFits
<1>5. /\ to \in Pass /\ to.todo = todo /\ to.chosen = {}
      /\ to.pc \in {"check_crons", "enqueue_crons", "claim_schedules"}
  <2> HIDE DEF todo
  <2>1. {s \in Schedules : declared[s] # "none"} \subseteq Schedules
    OBVIOUS
  <2>2. {} \in SUBSET ReadItem
    OBVIOUS
  <2>3. /\ OnCrons(p, todo, {}) \in Pass
        /\ OnCrons(p, todo, {}).todo = todo
        /\ OnCrons(p, todo, {}).chosen = {}
        /\ OnCrons(p, todo, {}).pc \in {"check_crons", "enqueue_crons", "claim_schedules"}
    BY <1>1, <1>4, <2>2, OnCronsFits
  <2> DEFINE on == OnCrons(p, todo, {})
             loaded == {s \in Schedules : declared[s] # "none"}
  <2> HIDE DEF on, loaded
  <2>4. loaded \in SUBSET Schedules /\ on \in Pass
    BY <2>1, <2>3 DEF on, loaded
  <2>5. [on EXCEPT !.loaded = loaded] \in Pass
    BY <2>4 DEF Pass
  <2>6. /\ [on EXCEPT !.loaded = loaded].todo = on.todo
        /\ [on EXCEPT !.loaded = loaded].chosen = on.chosen
        /\ [on EXCEPT !.loaded = loaded].pc = on.pc
    BY <2>4 DEF Pass
  <2>7. QED
    BY <2>3, <2>5, <2>6 DEF on, loaded
<1>6. /\ pass' \in [Passes -> Pass] /\ ReadsFit' /\ pass'[p] = to
      /\ \A q \in Passes \ {p} : pass'[q] = pass[q]
      /\ now' = now /\ declared' = declared /\ accepted' = accepted
  <2> HIDE DEF to
  <2>1. to.todo \subseteq ReadItem
    BY <1>4, <1>5
  <2>2. QED
    BY <1>2, <1>5, <2>1, StepFits
<1>7. cron' \in [Crons -> Job]
  <2> HIDE DEF Claimed
  <2>1. QED
    BY <1>2, <1>3
<1>8. TypeOK'
  BY <1>2, <1>6, <1>7 DEF TypeOK, SchedulingFits
<1>9. \A item \in todo : \E j \in Crons :
        Due(j) /\ item.id = j /\ item.claim = cron'[j].claim /\ item.last = cron[j].last
  <2>1. SUFFICES ASSUME NEW j \in Crons, Due(j)
                 PROVE  LET item == Item(j, cron[j].next, Claimed(j).claim, cron[j].last)
                        IN  item.id = j /\ item.claim = cron'[j].claim /\ item.last = cron[j].last
    OBVIOUS
  <2>2. cron'[j] = Claimed(j)
    BY <1>2
  <2>3. QED
    <3> HIDE DEF Claimed
    <3>1. QED
      BY <2>2 DEF Item
<1>10. QED
  <2>1. \A j \in Crons : cron'[j] = Claimed(j)
    BY <1>2
  <2> HIDE DEF Claimed, todo, to
  <2>2. QED
    BY <1>2, <1>3, <1>5, <1>6, <1>8, <1>9, <2>1

LEMMA CheckCronFits ==
  ASSUME TypeOK, NEW p \in Passes, CheckCron(p)
  PROVE  /\ TypeOK'
         /\ UNCHANGED <<cron, tasks, schedule, accepted>>
         /\ \A q \in Passes \ {p} : pass'[q] = pass[q]
         /\ pass[p].pc = "check_crons" /\ pass'[p].pc # "record_cron"
         /\ pass'[p].todo \subseteq pass[p].todo
         /\ \A item \in pass'[p].chosen :
              \/ item \in pass[p].chosen
              \/ item \in pass[p].todo /\ ~Outstanding(item.last)
<1>1. PICK item \in pass[p].todo :
        /\ Step(p, "check_crons",
                OnCrons(p, pass[p].todo \ {item},
                        pass[p].chosen \union (IF Outstanding(item.last) THEN {} ELSE {item})))
        /\ UNCHANGED <<cron, schedule, tasks, events>>
  BY DEF CheckCron
<1> DEFINE todo == pass[p].todo \ {item}
           chosen == pass[p].chosen \union (IF Outstanding(item.last) THEN {} ELSE {item})
<1>2. pass[p].pc = "check_crons" /\ pass[p] \in Pass
  BY <1>1 DEF Step, TypeOK, SchedulingFits
<1>3. pass[p].todo \in SUBSET ReadItem /\ pass[p].chosen \in SUBSET ReadItem
  BY <1>2 DEF TypeOK, ReadsFit, Promotes, Pass
<1>4. todo \in SUBSET ReadItem /\ chosen \in SUBSET ReadItem
  BY <1>3
<1>5. /\ todo \subseteq pass[p].todo
      /\ \A i \in chosen : i \in pass[p].chosen \/ (i \in pass[p].todo /\ ~Outstanding(i.last))
  OBVIOUS
<1>6. Step(p, "check_crons", OnCrons(p, todo, chosen))
  BY <1>1
<1> HIDE DEF todo, chosen
<1>7. /\ OnCrons(p, todo, chosen) \in Pass
      /\ OnCrons(p, todo, chosen).todo = todo /\ OnCrons(p, todo, chosen).chosen = chosen
      /\ OnCrons(p, todo, chosen).pc \in {"check_crons", "enqueue_crons", "claim_schedules"}
  BY <1>2, <1>4, OnCronsFits
<1>8. /\ pass' \in [Passes -> Pass] /\ ReadsFit' /\ pass'[p] = OnCrons(p, todo, chosen)
      /\ \A q \in Passes \ {p} : pass'[q] = pass[q]
      /\ now' = now /\ declared' = declared /\ accepted' = accepted
  BY <1>4, <1>6, <1>7, StepFits
<1>9. TypeOK'
  BY <1>1, <1>8 DEF TypeOK, SchedulingFits
<1>10. QED
  BY <1>1, <1>2, <1>5, <1>7, <1>8, <1>9

(* A pass that goes on without its last job. *)
LEMMA NextCronFits ==
  ASSUME TypeOK, NEW p \in Passes, pass[p].pc \in {"enqueue_crons", "record_cron"}, NEW item
  PROVE  LET to == OnCrons(p, {}, pass[p].chosen \ {item})
         IN  /\ to \in Pass /\ to.todo = {} /\ to.chosen = pass[p].chosen \ {item}
             /\ to.pc \in {"check_crons", "enqueue_crons", "claim_schedules"}
<1>1. pass[p] \in Pass
  BY DEF TypeOK, SchedulingFits
<1>2. pass[p].chosen \ {item} \in SUBSET ReadItem /\ {} \in SUBSET ReadItem
  BY <1>1 DEF Pass
<1> DEFINE chosen == pass[p].chosen \ {item}
<1> HIDE DEF chosen
<1>3. chosen \in SUBSET ReadItem
  BY <1>2 DEF chosen
<1>4. /\ OnCrons(p, {}, chosen) \in Pass
      /\ OnCrons(p, {}, chosen).todo = {} /\ OnCrons(p, {}, chosen).chosen = chosen
      /\ OnCrons(p, {}, chosen).pc \in {"check_crons", "enqueue_crons", "claim_schedules"}
  BY <1>1, <1>2, <1>3, OnCronsFits
<1>5. QED
  BY <1>4 DEF chosen

LEMMA EnqueueCronFits ==
  ASSUME TypeOK, NEW p \in Passes, EnqueueCron(p)
  PROVE  /\ TypeOK'
         /\ UNCHANGED <<cron, schedule, accepted>>
         /\ \A q \in Passes \ {p} : pass'[q] = pass[q]
         /\ pass[p].pc = "enqueue_crons"
         /\ \/ /\ pass'[p].pc # "record_cron" /\ pass'[p].todo = {}
               /\ pass'[p].chosen \subseteq pass[p].chosen
               /\ UNCHANGED tasks
            \/ /\ pass'[p].pc = "record_cron"
               /\ pass'[p].todo = pass[p].todo /\ pass'[p].chosen = pass[p].chosen
               /\ \E item \in pass[p].chosen :
                    /\ Final(item, pass[p].chosen)
                    /\ tasks' = Enqueued(CronTask(item.id, item.claim))
<1>1. PICK item \in pass[p].chosen :
        /\ Final(item, pass[p].chosen)
        /\ UNCHANGED <<cron, schedule>>
        /\ \/ /\ Step(p, "enqueue_crons", Resting)
              /\ UNCHANGED <<tasks, events>>
           \/ /\ tasks' = Enqueued(CronTask(item.id, item.claim))
              /\ Step(p, "enqueue_crons", [pass[p] EXCEPT !.pc = "record_cron"])
              /\ UNCHANGED events
           \/ /\ Step(p, "enqueue_crons", OnCrons(p, {}, pass[p].chosen \ {item}))
              /\ UNCHANGED tasks
  BY DEF EnqueueCron
<1>2. pass[p].pc = "enqueue_crons" /\ pass[p] \in Pass
  BY <1>1 DEF Step, TypeOK, SchedulingFits
<1>3. CASE Step(p, "enqueue_crons", Resting) /\ UNCHANGED tasks
  <2>1. Resting.todo = {} /\ Resting.chosen = {} /\ Resting.pc = "idle"
    BY DEF Resting
  <2>2. /\ pass' \in [Passes -> Pass] /\ ReadsFit' /\ pass'[p] = Resting
        /\ \A q \in Passes \ {p} : pass'[q] = pass[q]
        /\ now' = now /\ declared' = declared /\ accepted' = accepted
    BY <1>3, <2>1, RestingFits, StepFits
  <2>3. TypeOK'
    BY <1>1, <1>3, <2>2 DEF TypeOK, SchedulingFits
  <2>4. QED
    BY <1>1, <1>2, <1>3, <2>1, <2>2, <2>3
<1>4. CASE /\ tasks' = Enqueued(CronTask(item.id, item.claim))
           /\ Step(p, "enqueue_crons", [pass[p] EXCEPT !.pc = "record_cron"])
  <2> DEFINE to == [pass[p] EXCEPT !.pc = "record_cron"]
  <2>1. to \in Pass /\ to.pc = "record_cron" /\ to.todo = pass[p].todo /\ to.chosen = pass[p].chosen
    BY <1>2 DEF Pass, Stages
  <2>2. to.todo \subseteq ReadItem
    BY <1>2, <2>1 DEF TypeOK, ReadsFit, Promotes
  <2> HIDE DEF to
  <2>3. Step(p, "enqueue_crons", to)
    BY <1>4 DEF to
  <2>4. /\ pass' \in [Passes -> Pass] /\ ReadsFit' /\ pass'[p] = to
        /\ \A q \in Passes \ {p} : pass'[q] = pass[q]
        /\ now' = now /\ declared' = declared /\ accepted' = accepted
    BY <2>1, <2>2, <2>3, StepFits
  <2>5. tasks' \in [DOMAIN tasks' -> {"outstanding", "ended"}]
    BY <1>4, EnqueuedFits DEF TypeOK
  <2>6. TypeOK'
    BY <1>1, <2>4, <2>5 DEF TypeOK, SchedulingFits
  <2>7. QED
    BY <1>1, <1>2, <1>4, <2>1, <2>4, <2>6
<1>5. CASE Step(p, "enqueue_crons", OnCrons(p, {}, pass[p].chosen \ {item})) /\ UNCHANGED tasks
  <2> DEFINE to == OnCrons(p, {}, pass[p].chosen \ {item})
  <2>1. /\ to \in Pass /\ to.todo = {} /\ to.chosen = pass[p].chosen \ {item}
        /\ to.pc \in {"check_crons", "enqueue_crons", "claim_schedules"}
    BY <1>2, NextCronFits
  <2> HIDE DEF to
  <2>2. Step(p, "enqueue_crons", to)
    BY <1>5 DEF to
  <2>3. /\ pass' \in [Passes -> Pass] /\ ReadsFit' /\ pass'[p] = to
        /\ \A q \in Passes \ {p} : pass'[q] = pass[q]
        /\ now' = now /\ declared' = declared /\ accepted' = accepted
    BY <2>1, <2>2, StepFits
  <2>4. TypeOK'
    BY <1>1, <1>5, <2>3 DEF TypeOK, SchedulingFits
  <2>5. QED
    BY <1>1, <1>2, <1>5, <2>1, <2>3, <2>4
<1>6. QED
  BY <1>1, <1>3, <1>4, <1>5

LEMMA RecordCronFits ==
  ASSUME TypeOK, NEW p \in Passes, RecordCron(p)
  PROVE  /\ TypeOK'
         /\ UNCHANGED <<tasks, schedule, accepted>>
         /\ \A q \in Passes \ {p} : pass'[q] = pass[q]
         /\ pass[p].pc = "record_cron" /\ pass'[p].pc # "record_cron"
         /\ pass'[p].todo = {} /\ pass'[p].chosen \subseteq pass[p].chosen
         /\ \E item \in pass[p].chosen :
              /\ Final(item, pass[p].chosen)
              /\ \A j \in Crons :
                   /\ cron'[j].claims = cron[j].claims
                   /\ IF j = item.id /\ Answers(cron[j], item.claim)
                      THEN cron'[j].claim = 0 /\ cron'[j].last = CronTask(item.id, item.claim)
                      ELSE cron'[j].claim = cron[j].claim /\ cron'[j].last = cron[j].last
<1>1. PICK item \in pass[p].chosen :
        /\ Final(item, pass[p].chosen)
        /\ Step(p, "record_cron", OnCrons(p, {}, pass[p].chosen \ {item}))
        /\ cron' = IF Answers(cron[item.id], item.claim)
                   THEN [cron EXCEPT ![item.id].last = CronTask(item.id, item.claim),
                                     ![item.id].next = NextTarget(cron[item.id].next, now),
                                     ![item.id].claim = 0]
                   ELSE cron
        /\ UNCHANGED <<schedule, tasks, events>>
  BY DEF RecordCron
<1>2. /\ pass[p].pc = "record_cron" /\ pass[p] \in Pass
      /\ cron \in [Crons -> Job] /\ now \in Nat
  BY <1>1 DEF Step, TypeOK, SchedulingFits
<1> DEFINE to == OnCrons(p, {}, pass[p].chosen \ {item})
<1>3. /\ to \in Pass /\ to.todo = {} /\ to.chosen = pass[p].chosen \ {item}
      /\ to.pc \in {"check_crons", "enqueue_crons", "claim_schedules"}
  BY <1>2, NextCronFits
<1>4. Step(p, "record_cron", to)
  BY <1>1
<1> HIDE DEF to
<1>5. /\ pass' \in [Passes -> Pass] /\ ReadsFit' /\ pass'[p] = to
      /\ \A q \in Passes \ {p} : pass'[q] = pass[q]
      /\ now' = now /\ declared' = declared /\ accepted' = accepted
  BY <1>3, <1>4, StepFits
<1>6. item \in ReadItem
  BY <1>2 DEF Pass
<1>7. /\ cron' \in [Crons -> Job]
      /\ \A j \in Crons :
           /\ cron'[j].claims = cron[j].claims
           /\ IF j = item.id /\ Answers(cron[j], item.claim)
              THEN cron'[j].claim = 0 /\ cron'[j].last = CronTask(item.id, item.claim)
              ELSE cron'[j].claim = cron[j].claim /\ cron'[j].last = cron[j].last
  <2>1. CASE item.id \in Crons /\ Answers(cron[item.id], item.claim)
    <3> DEFINE j == item.id
               next == NextTarget(cron[j].next, now)
               last == CronTask(j, item.claim)
    <3>1. j \in Crons /\ cron[j] \in Job
      BY <1>2, <2>1
    <3>2. next \in Nat
      <4>1. cron[j].next \in Nat /\ now \in Nat
        BY <1>2, <3>1 DEF Job
      <4> HIDE DEF j
      <4>2. QED
        BY <4>1, NextFits
    <3>3. last \in LastTask
      BY <1>6, TaskFits DEF ReadItem
    <3>4. cron' = [cron EXCEPT ![j].last = last, ![j].next = next, ![j].claim = 0]
      BY <1>1, <2>1
    <3> HIDE DEF next, last, j
    <3>5. cron' = [cron EXCEPT ![j] = [cron[j] EXCEPT !.last = last, !.next = next, !.claim = 0]]
      BY <1>2, <3>1, <3>4 DEF Job
    <3>6. [cron[j] EXCEPT !.last = last, !.next = next, !.claim = 0] \in Job
      BY <3>1, <3>2, <3>3 DEF Job
    <3>7. /\ cron'[j].claims = cron[j].claims /\ cron'[j].claim = 0 /\ cron'[j].last = last
          /\ \A i \in Crons \ {j} : cron'[i] = cron[i]
      BY <1>2, <3>1, <3>5 DEF Job
    <3>8. QED
      BY <1>2, <2>1, <3>1, <3>5, <3>6, <3>7 DEF j, last
  <2>2. CASE ~(item.id \in Crons /\ Answers(cron[item.id], item.claim))
    <3>1. cron' = cron
      BY <1>1, <1>2, <2>2
    <3>2. QED
      BY <1>2, <2>2, <3>1
  <2>3. QED
    BY <2>1, <2>2
<1>8. TypeOK'
  BY <1>1, <1>5, <1>7 DEF TypeOK, SchedulingFits
<1>9. QED
  BY <1>1, <1>2, <1>3, <1>5, <1>7, <1>8

(* Steps of a pass over schedules and of a promotion: they leave cron jobs *)
(* and the keys of run-now requests as they are.                           *)
HistoryKept == \A s \in Schedules :
  /\ schedule'[s].history = schedule[s].history
  /\ schedule'[s].state = "absent" => schedule[s].state = "absent"

Elsewhere(p) ==
  /\ cron' = cron /\ accepted' = accepted
  /\ \A q \in Passes \ {p} : pass'[q] = pass[q]
  /\ pass'[p].pc \notin {"check_crons", "enqueue_crons", "record_cron"}

LEMMA ElsewhereFits ==
  ASSUME TypeOK, NEW p \in Passes, NEW from, NEW to \in Pass, Step(p, from, to), cron' = cron,
         to.pc \in {"enqueue_item", "promote_item"} \/ to.todo \subseteq ReadItem,
         to.pc \notin {"check_crons", "enqueue_crons", "record_cron"},
         schedule' \in [Schedules -> Timetable],
         tasks' \in [DOMAIN tasks' -> {"outstanding", "ended"}]
  PROVE  TypeOK' /\ Elsewhere(p)
<1>1. /\ pass' \in [Passes -> Pass] /\ ReadsFit' /\ pass'[p] = to
      /\ \A q \in Passes \ {p} : pass'[q] = pass[q]
      /\ now' = now /\ declared' = declared /\ accepted' = accepted
  BY StepFits
<1>2. TypeOK'
  BY <1>1 DEF TypeOK, SchedulingFits
<1>3. QED
  BY <1>1, <1>2 DEF Elsewhere

LEMMA ClaimSchedulesFits ==
  ASSUME TypeOK, NEW p \in Passes, ClaimSchedules(p)
  PROVE  TypeOK' /\ Elsewhere(p) /\ HistoryKept /\ tasks' = tasks
<1>1. /\ schedule \in [Schedules -> Timetable] /\ pass[p] \in Pass /\ now \in Nat
      /\ tasks \in [DOMAIN tasks -> {"outstanding", "ended"}]
  BY DEF TypeOK, SchedulingFits
<1> DEFINE Timed(s) == schedule[s].next <= now
           Claimed(s) == IF Wanted(s) /\ schedule[s].claim = 0
                         THEN [schedule[s] EXCEPT !.claims = @ + 1, !.claim = schedule[s].claims + 1,
                                 !.kind = IF Timed(s) THEN "scheduled" ELSE "run-now",
                                 !.due  = IF Timed(s) THEN schedule[s].next ELSE now]
                         ELSE schedule[s]
           todo == {Item(s, Claimed(s).due, Claimed(s).claim, schedule[s].last) :
                      s \in {s \in Schedules : Wanted(s)}}
<1>2. /\ schedule' = [s \in Schedules |-> Claimed(s)]
      /\ Step(p, "claim_schedules", OnSchedules(p, todo))
      /\ UNCHANGED <<cron, tasks, events>>
  BY DEF ClaimSchedules
<1>3. ASSUME NEW s \in Schedules
      PROVE  /\ Claimed(s) \in Timetable
             /\ Claimed(s).history = schedule[s].history /\ Claimed(s).state = schedule[s].state
  <2>1. schedule[s] \in Timetable
    BY <1>1
  <2>2. CASE Wanted(s) /\ schedule[s].claim = 0
    <3> DEFINE kind == IF Timed(s) THEN "scheduled" ELSE "run-now"
               due  == IF Timed(s) THEN schedule[s].next ELSE now
               n    == schedule[s].claims + 1
    <3>1. kind \in {"", "scheduled", "run-now"} /\ due \in Nat /\ n \in Nat
      <4>1. kind \in {"", "scheduled", "run-now"}
        OBVIOUS
      <4>2. schedule[s].next \in Nat /\ schedule[s].claims \in Nat
        BY <2>1 DEF Timetable
      <4>3. due \in Nat
        BY <1>1, <4>2
      <4>4. QED
        BY <4>1, <4>2, <4>3
    <3>2. Claimed(s) = [schedule[s] EXCEPT !.claims = n, !.claim = n, !.kind = kind, !.due = due]
      BY <2>2
    <3> HIDE DEF kind, due, n, Claimed
    <3>3. QED
      BY <2>1, <3>1, <3>2 DEF Timetable
  <2>3. CASE ~(Wanted(s) /\ schedule[s].claim = 0)
    BY <2>1, <2>3
  <2>4. QED
    BY <2>2, <2>3
<1>4. todo \in SUBSET ReadItem
  <2> SUFFICES ASSUME NEW s \in Schedules
               PROVE  Item(s, Claimed(s).due, Claimed(s).claim, schedule[s].last) \in ReadItem
    OBVIOUS
  <2> HIDE DEF Claimed
  <2>1. s \in Ids /\ Claimed(s).due \in Nat /\ Claimed(s).claim \in Nat /\ schedule[s].last \in LastTask
    BY <1>1, <1>3 DEF Timetable, Ids
  <2>2. QED
    BY <2>1, ItemFits
<1>5. schedule' \in [Schedules -> Timetable] /\ HistoryKept
  <2> HIDE DEF Claimed
  <2>1. QED
    BY <1>2, <1>3 DEF HistoryKept
<1> HIDE DEF todo
<1> DEFINE to == OnSchedules(p, todo)
<1>6. to \in Pass /\ to.todo = todo /\ to.pc \in {"idle", "check_schedule"}
  BY <1>1, <1>4, OnSchedulesFits
<1>7. Step(p, "claim_schedules", to) /\ cron' = cron /\ tasks' = tasks
  BY <1>2
<1> HIDE DEF to
<1>8. TypeOK' /\ Elsewhere(p)
  BY <1>1, <1>4, <1>5, <1>6, <1>7, ElsewhereFits
<1>9. QED
  BY <1>5, <1>7, <1>8

(* A step of a pass over schedules goes to the next item or stage. *)
OverSchedules(p) ==
  pass[p].pc \in {"check_schedule", "enqueue_schedule", "record_schedule", "decline_schedule"}

LEMMA SkipFits ==
  ASSUME TypeOK, NEW p \in Passes, NEW item, OverSchedules(p)
  PROVE  /\ Skip(p, item) \in Pass /\ Skip(p, item).todo \subseteq ReadItem
         /\ Skip(p, item).pc \in {"idle", "check_schedule"}
<1>1. pass[p] \in Pass /\ pass[p].todo \in SUBSET ReadItem
  BY DEF TypeOK, SchedulingFits, ReadsFit, Promotes, OverSchedules
<1>2. pass[p].todo \ {item} \in SUBSET ReadItem
  BY <1>1
<1> DEFINE todo == pass[p].todo \ {item}
<1> HIDE DEF todo
<1>3. todo \in SUBSET ReadItem
  BY <1>2 DEF todo
<1>4. /\ OnSchedules(p, todo) \in Pass /\ OnSchedules(p, todo).todo = todo
      /\ OnSchedules(p, todo).pc \in {"idle", "check_schedule"}
  BY <1>1, <1>3, OnSchedulesFits
<1>5. Skip(p, item) = OnSchedules(p, todo)
  BY DEF Skip, todo
<1>6. QED
  BY <1>3, <1>4, <1>5

LEMMA StageFits ==
  ASSUME TypeOK, NEW p \in Passes, OverSchedules(p),
         NEW pc \in {"enqueue_schedule", "record_schedule", "decline_schedule"}
  PROVE  /\ [pass[p] EXCEPT !.pc = pc] \in Pass
         /\ [pass[p] EXCEPT !.pc = pc].todo \subseteq ReadItem
         /\ [pass[p] EXCEPT !.pc = pc].pc = pc
<1>1. pass[p] \in Pass /\ pass[p].todo \in SUBSET ReadItem
  BY DEF TypeOK, SchedulingFits, ReadsFit, Promotes, OverSchedules
<1>2. QED
  BY <1>1 DEF Pass, Stages

LEMMA CheckScheduleFits ==
  ASSUME TypeOK, NEW p \in Passes, CheckSchedule(p)
  PROVE  TypeOK' /\ Elsewhere(p) /\ UNCHANGED <<schedule, tasks>>
<1>1. /\ pass[p].pc = "check_schedule" /\ UNCHANGED <<cron, schedule, tasks>>
      /\ \E item \in pass[p].todo :
           \/ Step(p, "check_schedule", Skip(p, item))
           \/ Step(p, "check_schedule", [pass[p] EXCEPT !.pc = "enqueue_schedule"])
           \/ Step(p, "check_schedule", [pass[p] EXCEPT !.pc = "decline_schedule"])
  BY DEF CheckSchedule
<1>2. PICK item \in pass[p].todo :
        \/ Step(p, "check_schedule", Skip(p, item))
        \/ Step(p, "check_schedule", [pass[p] EXCEPT !.pc = "enqueue_schedule"])
        \/ Step(p, "check_schedule", [pass[p] EXCEPT !.pc = "decline_schedule"])
  BY <1>1
<1>3. OverSchedules(p)
  BY <1>1 DEF OverSchedules
<1>4. \E to \in Pass :
        /\ Step(p, "check_schedule", to) /\ to.todo \subseteq ReadItem
        /\ to.pc \notin {"check_crons", "enqueue_crons", "record_cron"}
  <2>1. CASE Step(p, "check_schedule", Skip(p, item))
    <3>1. /\ Skip(p, item) \in Pass /\ Skip(p, item).todo \subseteq ReadItem
          /\ Skip(p, item).pc \in {"idle", "check_schedule"}
      BY <1>3, SkipFits
    <3>2. QED
      BY <2>1, <3>1
  <2>2. ASSUME NEW pc \in {"enqueue_schedule", "decline_schedule"},
               Step(p, "check_schedule", [pass[p] EXCEPT !.pc = pc])
        PROVE  \E to \in Pass :
                 /\ Step(p, "check_schedule", to) /\ to.todo \subseteq ReadItem
                 /\ to.pc \notin {"check_crons", "enqueue_crons", "record_cron"}
    <3> DEFINE next == [pass[p] EXCEPT !.pc = pc]
    <3>1. next \in Pass /\ next.todo \subseteq ReadItem /\ next.pc = pc
      BY <1>3, StageFits
    <3> HIDE DEF next
    <3>2. Step(p, "check_schedule", next)
      BY <2>2 DEF next
    <3>3. QED
      BY <3>1, <3>2
  <2>3. QED
    BY <1>2, <2>1, <2>2
<1>5. schedule \in [Schedules -> Timetable] /\ tasks \in [DOMAIN tasks -> {"outstanding", "ended"}]
  BY DEF TypeOK, SchedulingFits
<1>6. PICK to \in Pass :
        /\ Step(p, "check_schedule", to) /\ to.todo \subseteq ReadItem
        /\ to.pc \notin {"check_crons", "enqueue_crons", "record_cron"}
  BY <1>4
<1>7. QED
  BY <1>1, <1>5, <1>6, ElsewhereFits

LEMMA EnqueueScheduleFits ==
  ASSUME TypeOK, NEW p \in Passes, EnqueueSchedule(p)
  PROVE  /\ TypeOK' /\ Elsewhere(p) /\ schedule' = schedule
         /\ tasks' = tasks \/ \E s, n : tasks' = Enqueued(ScheduleTask(s, n))
<1>1. PICK item \in pass[p].todo :
        /\ UNCHANGED <<cron, schedule>>
        /\ \/ /\ Step(p, "enqueue_schedule", [pass[p] EXCEPT !.pc = "record_schedule"])
              /\ tasks' = Enqueued(ScheduleTask(item.id, item.claim))
           \/ Step(p, "enqueue_schedule", Resting) /\ tasks' = tasks
           \/ Step(p, "enqueue_schedule", [pass[p] EXCEPT !.pc = "decline_schedule"]) /\ tasks' = tasks
  BY DEF EnqueueSchedule
<1>2. OverSchedules(p)
  BY <1>1 DEF OverSchedules, Step
<1>3. /\ tasks' = tasks \/ \E s, n : tasks' = Enqueued(ScheduleTask(s, n))
      /\ cron' = cron /\ schedule' = schedule
  BY <1>1
<1>4. tasks' \in [DOMAIN tasks' -> {"outstanding", "ended"}] /\ schedule' \in [Schedules -> Timetable]
  BY <1>3, EnqueuedFits DEF TypeOK, SchedulingFits
<1>5. \E to \in Pass :
        /\ Step(p, "enqueue_schedule", to) /\ to.todo \subseteq ReadItem
        /\ to.pc \notin {"check_crons", "enqueue_crons", "record_cron"}
  <2>1. CASE Step(p, "enqueue_schedule", Resting)
    <3>1. Resting \in Pass /\ Resting.todo = {} /\ Resting.pc = "idle"
      BY RestingFits DEF Resting
    <3>2. QED
      BY <2>1, <3>1
  <2>2. ASSUME NEW pc \in {"record_schedule", "decline_schedule"},
               Step(p, "enqueue_schedule", [pass[p] EXCEPT !.pc = pc])
        PROVE  \E to \in Pass :
                 /\ Step(p, "enqueue_schedule", to) /\ to.todo \subseteq ReadItem
                 /\ to.pc \notin {"check_crons", "enqueue_crons", "record_cron"}
    <3> DEFINE next == [pass[p] EXCEPT !.pc = pc]
    <3>1. next \in Pass /\ next.todo \subseteq ReadItem /\ next.pc = pc
      BY <1>2, StageFits
    <3> HIDE DEF next
    <3>2. Step(p, "enqueue_schedule", next)
      BY <2>2 DEF next
    <3>3. QED
      BY <3>1, <3>2
  <2>3. QED
    BY <1>1, <2>1, <2>2
<1>6. PICK to \in Pass :
        /\ Step(p, "enqueue_schedule", to) /\ to.todo \subseteq ReadItem
        /\ to.pc \notin {"check_crons", "enqueue_crons", "record_cron"}
  BY <1>5
<1>7. QED
  BY <1>3, <1>4, <1>6, ElsewhereFits

LEMMA AcknowledgedFits ==
  ASSUME TypeOK, NEW s \in Schedules, NEW task \in LastTask
  PROVE  /\ Acknowledged(s, task) \in Timetable
         /\ Acknowledged(s, task).history = schedule[s].history
         /\ Acknowledged(s, task).state = schedule[s].state
<1>1. schedule[s] \in Timetable /\ now \in Nat
  BY DEF TypeOK, SchedulingFits
<1> DEFINE next == IF schedule[s].kind = "scheduled"
                   THEN NextRun(schedule[s].spec, schedule[s].due, now) ELSE schedule[s].next
           last == IF task = NoTask THEN schedule[s].last ELSE task
<1>2. next \in Nat
  <2>1. schedule[s].due \in Nat /\ schedule[s].next \in Nat
    BY <1>1 DEF Timetable
  <2>2. NextRun(schedule[s].spec, schedule[s].due, now) \in Nat
    BY <1>1, <2>1, RunFits
  <2>3. QED
    BY <2>1, <2>2
<1>3. last \in LastTask
  BY <1>1 DEF Timetable
<1>4. Acknowledged(s, task) =
        [schedule[s] EXCEPT !.next = next, !.last = last, !.claim = 0, !.kind = "", !.due = 0, !.run = FALSE]
  BY <1>1 DEF Acknowledged, Timetable
<1> HIDE DEF next, last
<1> DEFINE half   == [schedule[s] EXCEPT !.next = next, !.last = last]
           closed == [half EXCEPT !.claim = 0, !.kind = "", !.due = 0, !.run = FALSE]
<1>5. half \in Timetable /\ half.history = schedule[s].history /\ half.state = schedule[s].state
  BY <1>1, <1>2, <1>3 DEF Timetable
<1>6. Acknowledged(s, task) = closed
  BY <1>4
<1> HIDE DEF half
<1>7. closed \in Timetable /\ closed.history = half.history /\ closed.state = half.state
  BY <1>5 DEF Timetable
<1> HIDE DEF closed
<1>8. QED
  BY <1>5, <1>6, <1>7

LEMMA AcknowledgeFits ==
  ASSUME TypeOK, NEW p \in Passes, RecordSchedule(p) \/ RecordFailure(p)
  PROVE  TypeOK' /\ Elsewhere(p) /\ HistoryKept /\ tasks' = tasks
<1>1. PICK from \in {"record_schedule", "decline_schedule"}, item \in pass[p].todo :
        \E task \in {NoTask, ScheduleTask(item.id, item.claim)} :
          /\ Step(p, from, Skip(p, item))
          /\ schedule' = IF schedule[item.id].claim = item.claim
                         THEN [schedule EXCEPT ![item.id] = Acknowledged(item.id, task)]
                         ELSE schedule
          /\ UNCHANGED <<cron, tasks, events>>
  BY DEF RecordSchedule, RecordFailure, Acknowledge
<1>2. PICK task \in {NoTask, ScheduleTask(item.id, item.claim)} :
        /\ Step(p, from, Skip(p, item))
        /\ schedule' = IF schedule[item.id].claim = item.claim
                       THEN [schedule EXCEPT ![item.id] = Acknowledged(item.id, task)]
                       ELSE schedule
        /\ UNCHANGED <<cron, tasks, events>>
  BY <1>1
<1>3. OverSchedules(p)
  BY <1>2 DEF OverSchedules, Step
<1>4. item \in ReadItem
  BY <1>3 DEF TypeOK, ReadsFit, Promotes, OverSchedules
<1>5. task \in LastTask
  <2>1. item.id \in Ids /\ item.claim \in Nat
    BY <1>4 DEF ReadItem
  <2>2. ScheduleTask(item.id, item.claim) \in LastTask /\ NoTask \in LastTask
    BY <2>1, TaskFits DEF LastTask
  <2>3. QED
    BY <2>2
<1>6. schedule \in [Schedules -> Timetable] /\ tasks \in [DOMAIN tasks -> {"outstanding", "ended"}]
  BY DEF TypeOK, SchedulingFits
<1>7. schedule' \in [Schedules -> Timetable] /\ HistoryKept
  <2>1. CASE schedule' = schedule
    BY <1>6, <2>1 DEF HistoryKept
  <2>2. CASE schedule' = [schedule EXCEPT ![item.id] = Acknowledged(item.id, task)]
    <3>1. CASE item.id \in Schedules
      <4>1. /\ Acknowledged(item.id, task) \in Timetable
            /\ Acknowledged(item.id, task).history = schedule[item.id].history
            /\ Acknowledged(item.id, task).state = schedule[item.id].state
        BY <1>5, <3>1, AcknowledgedFits
      <4>2. QED
        BY <1>6, <2>2, <3>1, <4>1 DEF HistoryKept
    <3>2. CASE item.id \notin Schedules
      BY <1>6, <2>2, <3>2 DEF HistoryKept
    <3>3. QED
      BY <3>1, <3>2
  <2>3. QED
    BY <1>2, <2>1, <2>2
<1>8. /\ Skip(p, item) \in Pass /\ Skip(p, item).todo \subseteq ReadItem
      /\ Skip(p, item).pc \in {"idle", "check_schedule"}
  BY <1>3, SkipFits
<1>9. PICK to \in Pass :
        /\ Step(p, from, to) /\ to.todo \subseteq ReadItem
        /\ to.pc \notin {"check_crons", "enqueue_crons", "record_cron"}
  BY <1>2, <1>8
<1>10. cron' = cron /\ tasks' = tasks
  BY <1>2
<1>11. TypeOK' /\ Elsewhere(p)
  BY <1>6, <1>7, <1>9, <1>10, ElsewhereFits
<1>12. QED
  BY <1>7, <1>10, <1>11

LEMMA AbandonFits ==
  ASSUME TypeOK, NEW p \in Passes, AbandonPass(p)
  PROVE  TypeOK' /\ Elsewhere(p) /\ UNCHANGED <<schedule, tasks>>
<1>1. Step(p, pass[p].pc, Resting) /\ UNCHANGED <<cron, schedule, tasks>>
  BY DEF AbandonPass
<1>2. Resting \in Pass /\ Resting.todo = {} /\ Resting.pc = "idle"
  BY RestingFits DEF Resting
<1>3. schedule \in [Schedules -> Timetable] /\ tasks \in [DOMAIN tasks -> {"outstanding", "ended"}]
  BY DEF TypeOK, SchedulingFits
<1>4. QED
  BY <1>1, <1>2, <1>3, ElsewhereFits

(* A promotion reads an item, enqueues it and takes it from the backlog. *)
LEMMA PromotionFits ==
  ASSUME TypeOK, NEW p \in Passes,
         PromoteWhenIdle(p) \/ (\E i \in Items : PromoteOnRequest(p, i)) \/ EnqueueItem(p) \/ PromoteItem(p)
  PROVE  /\ TypeOK' /\ Elsewhere(p) /\ schedule' = schedule
         /\ tasks' = tasks \/ \E i : tasks' = Enqueued(ItemTask(i))
<1>1. /\ pass \in [Passes -> Pass] /\ pass[p] \in Pass /\ ReadsFit
      /\ schedule \in [Schedules -> Timetable] /\ tasks \in [DOMAIN tasks -> {"outstanding", "ended"}]
  BY DEF TypeOK, SchedulingFits
<1>2. /\ UNCHANGED <<now, cron, schedule, declared, accepted>>
      /\ tasks' = tasks \/ \E i : tasks' = Enqueued(ItemTask(i))
  BY DEF PromoteWhenIdle, PromoteOnRequest, Pick, files, EnqueueItem, Step, PromoteItem
<1>3. tasks' \in [DOMAIN tasks' -> {"outstanding", "ended"}]
  BY <1>1, <1>2, EnqueuedFits DEF TypeOK
<1>4. PICK to \in Pass :
        /\ pass' = [pass EXCEPT ![p] = to]
        /\ to.pc \in {"enqueue_item", "promote_item"} \/ to.todo \subseteq ReadItem
        /\ to.pc \in {"idle", "enqueue_item", "promote_item"}
  <2>1. Resting \in Pass /\ Resting.todo = {} /\ Resting.pc = "idle"
    BY RestingFits DEF Resting
  <2>2. ASSUME NEW i \in Items, Pick(p, i)
        PROVE  \E to \in Pass : /\ pass' = [pass EXCEPT ![p] = to] /\ to.pc = "enqueue_item"
    <3> DEFINE to == [Resting EXCEPT !.pc = "enqueue_item", !.todo = {i}]
    <3>1. pass' = [pass EXCEPT ![p] = to]
      BY <2>2 DEF Pick
    <3>2. to \in Pass /\ to.pc = "enqueue_item"
      BY <2>1 DEF Pass, Stages
    <3>3. QED
      BY <3>1, <3>2
  <2>3. CASE PromoteWhenIdle(p) \/ \E i \in Items : PromoteOnRequest(p, i)
    BY <2>2, <2>3 DEF PromoteWhenIdle, PromoteOnRequest
  <2>4. CASE EnqueueItem(p)
    <3> DEFINE to == [pass[p] EXCEPT !.pc = "promote_item"]
    <3>1. pass' = [pass EXCEPT ![p] = Resting] \/ pass' = [pass EXCEPT ![p] = to]
      BY <2>4 DEF EnqueueItem, Step
    <3>2. to \in Pass /\ to.pc = "promote_item"
      BY <1>1 DEF Pass, Stages
    <3>3. QED
      BY <2>1, <3>1, <3>2
  <2>5. CASE PromoteItem(p)
    BY <2>1, <2>5 DEF PromoteItem
  <2>6. QED
    BY <2>3, <2>4, <2>5
<1>5. pass' \in [Passes -> Pass] /\ ReadsFit'
  BY <1>1, <1>4 DEF ReadsFit, Promotes
<1>6. Elsewhere(p)
  BY <1>1, <1>2, <1>4 DEF Elsewhere
<1>7. TypeOK'
  BY <1>1, <1>2, <1>3, <1>5 DEF TypeOK, SchedulingFits
<1>8. QED
  BY <1>2, <1>6, <1>7

(* Requests about the backlog, ends of tasks and time. *)
LEMMA BacklogRequestFits ==
  ASSUME TypeOK, NEW i \in Items,
         RemoveItem(i) \/ \E priority \in 0..2 : AddItem(i, priority) \/ Reprioritize(i, priority)
  PROVE  TypeOK' /\ UNCHANGED <<cron, schedule, tasks, pass, accepted>>
<1>1. UNCHANGED <<now, cron, schedule, declared, tasks, pass, accepted>>
  BY DEF RemoveItem, AddItem, Reprioritize, Ask
<1>2. QED
  BY <1>1, ReadsUnmoved DEF TypeOK, SchedulingFits

LEMMA TaskEndsFits ==
  ASSUME TypeOK, NEW k \in DOMAIN tasks, TaskEnds(k)
  PROVE  /\ TypeOK' /\ UNCHANGED <<cron, schedule, pass, accepted>>
         /\ DOMAIN tasks' = DOMAIN tasks
         /\ \A t \in DOMAIN tasks : tasks'[t] = "outstanding" => tasks[t] = "outstanding"
<1>1. UNCHANGED <<now, cron, schedule, declared, pass, accepted>> /\ tasks' = [tasks EXCEPT ![k] = "ended"]
  BY DEF TaskEnds, files
<1>2. tasks \in [DOMAIN tasks -> {"outstanding", "ended"}]
  BY DEF TypeOK, SchedulingFits
<1>3. /\ tasks' \in [DOMAIN tasks' -> {"outstanding", "ended"}] /\ DOMAIN tasks' = DOMAIN tasks
      /\ \A t \in DOMAIN tasks : tasks'[t] = "outstanding" => tasks[t] = "outstanding"
  BY <1>1, <1>2
<1>4. QED
  BY <1>1, <1>3, ReadsUnmoved DEF TypeOK, SchedulingFits

LEMMA TickFits ==
  ASSUME TypeOK, Tick
  PROVE  TypeOK' /\ UNCHANGED <<cron, schedule, tasks, pass, accepted>>
<1>1. UNCHANGED <<cron, schedule, declared, tasks, pass, accepted>> /\ now' = now + 1
  BY DEF Tick, files
<1>2. now \in Nat
  BY DEF TypeOK, SchedulingFits
<1>3. now' \in Nat
  BY <1>1, <1>2
<1>4. QED
  BY <1>1, <1>3, ReadsUnmoved DEF TypeOK, SchedulingFits

LEMMA TakeoverFits ==
  ASSUME TypeOK, Takeover
  PROVE  /\ TypeOK' /\ UNCHANGED <<cron, tasks, accepted>>
         /\ \A p \in Passes :
              \/ pass'[p].pc = "idle"
              \/ /\ pass'[p].pc = pass[p].pc
                 /\ pass'[p].todo = pass[p].todo /\ pass'[p].chosen = pass[p].chosen
         /\ \A s \in Schedules :
              /\ \/ schedule'[s].history = schedule[s].history
                 \/ schedule'[s].history = <<>> /\ schedule[s].state = "absent"
              /\ schedule'[s].state = "absent" => schedule[s].state = "absent"
<1>1. PICK specs \in [Schedules -> Declarable \union {"none"}] :
        declared' = specs /\ schedule' = [s \in Schedules |-> Reconciled(schedule[s], specs[s])]
  BY DEF Takeover
<1>2. PICK dead \in SUBSET Passes :
        pass' = [p \in Passes |-> IF p \in dead \/ pass[p].pc = "idle" THEN Resting
                                  ELSE [pass[p] EXCEPT !.stale = TRUE]]
  BY DEF Takeover
<1>3. UNCHANGED <<now, cron, tasks, accepted>>
  BY DEF Takeover
<1>4. /\ now \in Nat /\ schedule \in [Schedules -> Timetable] /\ pass \in [Passes -> Pass] /\ ReadsFit
  BY DEF TypeOK, SchedulingFits
<1>5. specs \in [Schedules -> Cadences]
  BY <1>1 DEF Declarable, Cadences
<1>6. /\ schedule' \in [Schedules -> Timetable]
      /\ \A s \in Schedules :
           /\ \/ schedule'[s].history = schedule[s].history
              \/ schedule'[s].history = <<>> /\ schedule[s].state = "absent"
           /\ schedule'[s].state = "absent" => schedule[s].state = "absent"
  <2>1. \A s \in Schedules :
          /\ Reconciled(schedule[s], specs[s]) \in Timetable
          /\ \/ Reconciled(schedule[s], specs[s]).history = schedule[s].history
             \/ Reconciled(schedule[s], specs[s]).history = <<>> /\ schedule[s].state = "absent"
          /\ Reconciled(schedule[s], specs[s]).state = "absent" => schedule[s].state = "absent"
    BY <1>4, <1>5, ReconciledFits
  <2>2. QED
    BY <1>1, <2>1
<1>7. ASSUME NEW p \in Passes
      PROVE  /\ pass'[p] \in Pass
             /\ \/ pass'[p].pc = "idle" /\ pass'[p].todo = {}
                \/ /\ pass'[p].pc = pass[p].pc
                   /\ pass'[p].todo = pass[p].todo /\ pass'[p].chosen = pass[p].chosen
  <2>1. CASE pass'[p] = Resting
    BY <2>1, RestingFits DEF Resting
  <2>2. CASE pass'[p] = [pass[p] EXCEPT !.stale = TRUE]
    <3>1. pass[p] \in Pass
      BY <1>4
    <3>2. /\ [pass[p] EXCEPT !.stale = TRUE] \in Pass
          /\ [pass[p] EXCEPT !.stale = TRUE].pc = pass[p].pc
          /\ [pass[p] EXCEPT !.stale = TRUE].todo = pass[p].todo
          /\ [pass[p] EXCEPT !.stale = TRUE].chosen = pass[p].chosen
      BY <3>1 DEF Pass
    <3>3. QED
      BY <2>2, <3>2
  <2>3. QED
    BY <1>2, <2>1, <2>2
<1>8. pass' \in [Passes -> Pass] /\ ReadsFit'
  <2>1. pass' = [p \in Passes |-> pass'[p]]
    BY <1>2
  <2>2. QED
    BY <1>4, <1>7, <2>1 DEF ReadsFit, Promotes
<1>9. TypeOK'
  <2>1. declared' \in [Schedules -> Cadences]
    BY <1>1, <1>5
  <2>2. QED
    BY <1>3, <1>6, <1>8, <2>1 DEF TypeOK, SchedulingFits
<1>10. QED
  BY <1>3, <1>6, <1>7, <1>9
-----------------------------------------------------------------------------
(* What is true of cron jobs *)

OnJobs(p) == pass[p].pc \in {"check_crons", "enqueue_crons", "record_cron"}

(* A task was enqueued for every occurrence but the one that is claimed,   *)
(* and only for occurrences.  The last but the claimed one is the only one *)
(* whose task may be outstanding, and only until the claimed one has one.  *)
JobKept(j) ==
  /\ cron[j].claim \in 0..cron[j].claims
  /\ cron[j].last # NoTask =>
       \E n \in 1..cron[j].claims : n # cron[j].claim /\ cron[j].last = CronTask(j, n)
  /\ \A n \in 1..cron[j].claims : n # cron[j].claim => CronTask(j, n) \in DOMAIN tasks
  /\ \A n \in 1..cron[j].claims :
       Outstanding(CronTask(j, n)) => n = cron[j].claim \/ cron[j].last = CronTask(j, n)
  /\ cron[j].claim # 0 /\ CronTask(j, cron[j].claim) \in DOMAIN tasks => ~Outstanding(cron[j].last)

OnlyOccurrences ==
  \A k \in DOMAIN tasks :
    /\ k # NoTask
    /\ k[1] = "cron" => \E j \in Crons : \E n \in 1..cron[j].claims : k = CronTask(j, n)

(* What a pass has read of a job is true as long as the claim is the same, *)
(* and a task that was not outstanding when it looked never will be again. *)
ReadKept(item) ==
  /\ item.id \in Crons /\ item.claim \in 1..cron[item.id].claims
  /\ item.claim = cron[item.id].claim => item.last = cron[item.id].last
  /\ item.last = NoTask \/ item.last \in DOMAIN tasks

PassKept(p) ==
  /\ \A item \in pass[p].todo : ReadKept(item)
  /\ \A item \in pass[p].chosen : ReadKept(item) /\ ~Outstanding(item.last)
  /\ pass[p].pc = "record_cron" =>
       \A item \in pass[p].chosen :
         Final(item, pass[p].chosen) => CronTask(item.id, item.claim) \in DOMAIN tasks

CronInv ==
  /\ \A j \in Crons : JobKept(j)
  /\ OnlyOccurrences
  /\ \A p \in Passes : OnJobs(p) => PassKept(p)

(* Names of tasks say what they are for. *)
LEMMA Names ==
  ASSUME NEW i, NEW n, NEW j, NEW m
  PROVE  /\ CronTask(i, n) = CronTask(j, m) => i = j /\ n = m
         /\ CronTask(i, n)[1] = "cron" /\ CronTask(i, n)[2] = i
         /\ ScheduleTask(i, n)[1] # "cron" /\ ItemTask(i)[1] # "cron"
         /\ CronTask(i, n) # NoTask /\ ScheduleTask(i, n) # NoTask /\ ItemTask(i) # NoTask
BY DEF CronTask, ScheduleTask, ItemTask, NoTask

(* Steps that leave alone what is claimed, and enqueue nothing for a job. *)
JobsKept == \A j \in Crons : /\ cron'[j].claims = cron[j].claims
                             /\ cron'[j].claim = cron[j].claim
                             /\ cron'[j].last = cron[j].last
TasksKept ==
  /\ \A k \in DOMAIN tasks : k \in DOMAIN tasks' /\ (tasks'[k] = "outstanding" => tasks[k] = "outstanding")
  /\ \A k \in DOMAIN tasks' \ DOMAIN tasks : k # NoTask /\ k[1] # "cron"
ReadsKept == \A p \in Passes : OnJobs(p)' =>
  /\ OnJobs(p)
  /\ pass'[p].todo \subseteq pass[p].todo /\ pass'[p].chosen \subseteq pass[p].chosen
  /\ pass'[p].pc = "record_cron" => pass[p].pc = "record_cron" /\ pass'[p].chosen = pass[p].chosen

(* A task that is known and not outstanding stays so. *)
LEMMA EndedStays ==
  ASSUME NEW k, k \in DOMAIN tasks, ~Outstanding(k),
         \A t \in DOMAIN tasks : t \in DOMAIN tasks' /\ (tasks'[t] = "outstanding" => tasks[t] = "outstanding")
  PROVE  k \in DOMAIN tasks' /\ ~(k \in DOMAIN tasks' /\ tasks'[k] = "outstanding")
BY DEF Outstanding

LEMMA QuietKeepsJobs ==
  ASSUME TypeOK, CronInv, JobsKept, TasksKept
  PROVE  (\A j \in Crons : JobKept(j))' /\ OnlyOccurrences'
<1>1. ASSUME NEW j \in Crons
      PROVE  JobKept(j)'
  <2>1. JobKept(j) /\ NoTask \notin DOMAIN tasks
    BY DEF CronInv, OnlyOccurrences
  <2>2. /\ cron'[j].claims = cron[j].claims /\ cron'[j].claim = cron[j].claim
        /\ cron'[j].last = cron[j].last
    BY DEF JobsKept
  <2>3. \A n : CronTask(j, n) \in DOMAIN tasks' <=> CronTask(j, n) \in DOMAIN tasks
    BY Names DEF TasksKept
  <2>4. \A n : Outstanding(CronTask(j, n))' => Outstanding(CronTask(j, n))
    BY <2>3 DEF TasksKept, Outstanding
  <2>5. ~Outstanding(cron[j].last) => ~(cron[j].last \in DOMAIN tasks' /\ tasks'[cron[j].last] = "outstanding")
    <3>1. CASE cron[j].last = NoTask
      BY <2>1, <3>1 DEF TasksKept
    <3>2. CASE cron[j].last # NoTask
      <4>1. PICK n \in 1..cron[j].claims : cron[j].last = CronTask(j, n)
        BY <2>1, <3>2 DEF JobKept
      <4>2. QED
        BY <2>3, <4>1 DEF TasksKept, Outstanding
    <3>3. QED
      BY <3>1, <3>2
  <2>6. ~Outstanding(cron[j].last) => ~Outstanding(cron[j].last)'
    BY <2>2, <2>5 DEF Outstanding
  <2>7. QED
    BY <2>1, <2>2, <2>3, <2>4, <2>6 DEF JobKept
<1>2. OnlyOccurrences'
  <2> SUFFICES ASSUME NEW k \in DOMAIN tasks'
               PROVE  /\ k # NoTask
                      /\ k[1] = "cron" => \E j \in Crons : \E n \in 1..cron'[j].claims : k = CronTask(j, n)
    BY DEF OnlyOccurrences
  <2>1. CASE k \in DOMAIN tasks
    BY <2>1 DEF CronInv, OnlyOccurrences, JobsKept
  <2>2. CASE k \notin DOMAIN tasks
    BY <2>2 DEF TasksKept
  <2>3. QED
    BY <2>1, <2>2
<1>3. QED
  BY <1>1, <1>2

(* What a pass has read stays true while no claim is made or closed. *)
LEMMA QuietKeepsRead ==
  ASSUME NEW item, ReadKept(item), JobsKept, TasksKept, OnlyOccurrences
  PROVE  /\ ReadKept(item)'
         /\ ~Outstanding(item.last) => ~Outstanding(item.last)'
<1>1. ReadKept(item)'
  BY DEF ReadKept, JobsKept, TasksKept
<1>2. ~Outstanding(item.last) => ~Outstanding(item.last)'
  BY DEF ReadKept, TasksKept, OnlyOccurrences, Outstanding
<1>3. QED
  BY <1>1, <1>2

LEMMA QuietKeeps ==
  ASSUME TypeOK, CronInv, JobsKept, TasksKept, ReadsKept
  PROVE  CronInv'
<1>1. (\A j \in Crons : JobKept(j))' /\ OnlyOccurrences'
  BY QuietKeepsJobs
<1>2. ASSUME NEW p \in Passes, OnJobs(p)'
      PROVE  PassKept(p)'
  <2>1. /\ OnJobs(p) /\ PassKept(p)
        /\ pass'[p].todo \subseteq pass[p].todo /\ pass'[p].chosen \subseteq pass[p].chosen
        /\ pass'[p].pc = "record_cron" => pass[p].pc = "record_cron" /\ pass'[p].chosen = pass[p].chosen
    BY <1>2 DEF ReadsKept, CronInv
  <2>2. \A item \in pass'[p].todo : ReadKept(item)'
    BY <2>1, QuietKeepsRead DEF PassKept, CronInv
  <2>3. \A item \in pass'[p].chosen : ReadKept(item)' /\ ~Outstanding(item.last)'
    BY <2>1, QuietKeepsRead DEF PassKept, CronInv
  <2>4. pass'[p].pc = "record_cron" =>
          \A item \in pass'[p].chosen :
            Final(item, pass'[p].chosen) => CronTask(item.id, item.claim) \in DOMAIN tasks'
    BY <2>1 DEF PassKept, TasksKept
  <2>5. QED
    BY <2>2, <2>3, <2>4 DEF PassKept
<1>3. QED
  BY <1>1, <1>2 DEF CronInv

(* The last task of a job is known. *)
LEMMA LastKnown ==
  ASSUME NEW j \in Crons, JobKept(j)
  PROVE  cron[j].last = NoTask \/ cron[j].last \in DOMAIN tasks
BY DEF JobKept

LEMMA ClaimCronsKeeps ==
  ASSUME TypeOK, CronInv, NEW p \in Passes, ClaimCrons(p)
  PROVE  CronInv'
<1>1. /\ tasks' = tasks
      /\ \A q \in Passes \ {p} : pass'[q] = pass[q]
      /\ \A j \in Crons :
           /\ cron'[j].last = cron[j].last
           /\ \/ Due(j) /\ cron[j].claim = 0 /\ cron'[j].claims = cron[j].claims + 1
                 /\ cron'[j].claim = cron[j].claims + 1
              \/ cron'[j].claims = cron[j].claims /\ cron'[j].claim = cron[j].claim
                 /\ (Due(j) => cron[j].claim # 0)
      /\ pass'[p].pc # "record_cron" /\ pass'[p].chosen = {}
      /\ \A item \in pass'[p].todo : \E j \in Crons :
           /\ Due(j) /\ item.id = j
           /\ item.claim = cron'[j].claim /\ item.last = cron[j].last
  BY ClaimCronsFits
<1>2. \A j \in Crons : JobKept(j) /\ cron[j].claims \in Nat /\ cron[j].claim \in Nat
  BY DEF CronInv, TypeOK, SchedulingFits, Job
<1>3. OnlyOccurrences
  BY DEF CronInv
<1>4. \A k : Outstanding(k)' <=> Outstanding(k)
  BY <1>1 DEF Outstanding
<1>5. ASSUME NEW j \in Crons
      PROVE  JobKept(j)'
  <2>1. CASE cron'[j].claims = cron[j].claims /\ cron'[j].claim = cron[j].claim
    BY <1>1, <1>2, <1>4, <2>1 DEF JobKept
  <2>2. CASE /\ cron[j].claim = 0 /\ cron'[j].claims = cron[j].claims + 1
             /\ cron'[j].claim = cron[j].claims + 1
    <3> DEFINE new == cron[j].claims + 1
    <3>1. new \in Nat /\ new # 0 /\ \A n \in 1..new : n = new \/ n \in 1..cron[j].claims
      BY <1>2
    <3>2. CronTask(j, new) \notin DOMAIN tasks
      <4> SUFFICES ASSUME CronTask(j, new) \in DOMAIN tasks
                   PROVE  FALSE
        OBVIOUS
      <4>1. PICK i \in Crons : \E n \in 1..cron[i].claims : CronTask(j, new) = CronTask(i, n)
        BY <1>3, Names DEF OnlyOccurrences
      <4>2. new \in 1..cron[j].claims
        BY <4>1, Names
      <4>3. QED
        BY <1>2, <4>2
    <3>3. \A n \in 1..new : n # new => CronTask(j, n) \in DOMAIN tasks
      BY <1>2, <2>2, <3>1 DEF JobKept
    <3>4. \A n \in 1..new : Outstanding(CronTask(j, n)) => cron[j].last = CronTask(j, n)
      <4> SUFFICES ASSUME NEW n \in 1..new, Outstanding(CronTask(j, n))
                   PROVE  cron[j].last = CronTask(j, n)
        OBVIOUS
      <4>1. n # new
        BY <3>2 DEF Outstanding
      <4>2. n \in 1..cron[j].claims /\ n # cron[j].claim
        BY <2>2, <3>1, <4>1
      <4>3. QED
        BY <1>2, <4>2 DEF JobKept
    <3>5. cron[j].last # NoTask => \E n \in 1..new : n # new /\ cron[j].last = CronTask(j, n)
      <4> SUFFICES ASSUME cron[j].last # NoTask
                   PROVE  \E n \in 1..new : n # new /\ cron[j].last = CronTask(j, n)
        OBVIOUS
      <4>1. PICK n \in 1..cron[j].claims : cron[j].last = CronTask(j, n)
        BY <1>2 DEF JobKept
      <4>2. n \in 1..new /\ n # new
        BY <1>2
      <4>3. QED
        BY <4>1, <4>2
    <3>6. new \in 0..new
      BY <3>1
    <3> HIDE DEF new
    <3>7. cron'[j].claims = new /\ cron'[j].claim = new /\ cron'[j].last = cron[j].last
      BY <1>1, <2>2 DEF new
    <3>8. QED
      BY <1>1, <1>4, <3>2, <3>3, <3>4, <3>5, <3>6, <3>7 DEF JobKept
  <2>3. QED
    BY <1>1, <2>1, <2>2
<1>6. \A j \in Crons : \A n \in 1..cron[j].claims : n \in 1..cron'[j].claims
  BY <1>1, <1>2
<1>7. OnlyOccurrences'
  BY <1>1, <1>3, <1>6 DEF OnlyOccurrences
<1>8. ASSUME NEW q \in Passes \ {p}, OnJobs(q)'
      PROVE  PassKept(q)'
  <2>1. PassKept(q) /\ pass'[q] = pass[q]
    BY <1>1, <1>8 DEF CronInv, OnJobs
  <2>2. ASSUME NEW item, ReadKept(item)
        PROVE  ReadKept(item)'
    <3>1. /\ item.id \in Crons /\ item.claim \in 1..cron'[item.id].claims
          /\ item.last = NoTask \/ item.last \in DOMAIN tasks'
      BY <1>1, <1>6, <2>2 DEF ReadKept
    <3>2. item.claim = cron'[item.id].claim => item.last = cron'[item.id].last
      BY <1>1, <1>2, <2>2 DEF ReadKept
    <3>3. QED
      BY <3>1, <3>2 DEF ReadKept
  <2>3. QED
    BY <1>1, <1>4, <2>1, <2>2 DEF PassKept
<1>9. PassKept(p)'
  <2>1. ASSUME NEW item \in pass'[p].todo
        PROVE  ReadKept(item)'
    <3>1. PICK j \in Crons : /\ Due(j) /\ item.id = j
                             /\ item.claim = cron'[j].claim /\ item.last = cron[j].last
      BY <1>1
    <3>2. item.claim \in 1..cron'[j].claims
      <4>1. cron[j].claim \in 0..cron[j].claims
        BY <1>2 DEF JobKept
      <4>2. QED
        BY <1>1, <1>2, <3>1, <4>1
    <3>3. item.last = NoTask \/ item.last \in DOMAIN tasks
      BY <1>2, <3>1, LastKnown
    <3>4. QED
      BY <1>1, <3>1, <3>2, <3>3 DEF ReadKept
  <2>2. QED
    BY <1>1, <2>1 DEF PassKept
<1>10. QED
  BY <1>5, <1>7, <1>8, <1>9 DEF CronInv

LEMMA CheckCronKeeps ==
  ASSUME TypeOK, CronInv, NEW p \in Passes, CheckCron(p)
  PROVE  CronInv'
<1>1. /\ UNCHANGED <<cron, tasks>>
      /\ \A q \in Passes \ {p} : pass'[q] = pass[q]
      /\ pass[p].pc = "check_crons" /\ pass'[p].pc # "record_cron"
      /\ pass'[p].todo \subseteq pass[p].todo
      /\ \A item \in pass'[p].chosen :
           \/ item \in pass[p].chosen
           \/ item \in pass[p].todo /\ ~Outstanding(item.last)
  BY CheckCronFits
<1>2. JobsKept /\ TasksKept
  BY <1>1 DEF JobsKept, TasksKept
<1>3. (\A j \in Crons : JobKept(j))' /\ OnlyOccurrences'
  BY <1>2, QuietKeepsJobs
<1>4. \A item : /\ ReadKept(item) => ReadKept(item)'
                /\ ~Outstanding(item.last) => ~Outstanding(item.last)'
  BY <1>1 DEF ReadKept, Outstanding
<1>5. ASSUME NEW q \in Passes \ {p}, OnJobs(q)'
      PROVE  PassKept(q)'
  <2>1. PassKept(q) /\ pass'[q] = pass[q]
    BY <1>1, <1>5 DEF CronInv, OnJobs
  <2>2. QED
    BY <1>1, <1>4, <2>1 DEF PassKept
<1>6. PassKept(p)'
  <2>1. PassKept(p)
    BY <1>1 DEF CronInv, OnJobs
  <2>2. QED
    BY <1>1, <1>4, <2>1 DEF PassKept
<1>7. QED
  BY <1>3, <1>5, <1>6 DEF CronInv

(* What is due last is one thing only. *)
LEMMA FinalIsOne ==
  ASSUME NEW items \in SUBSET ReadItem, NEW i, NEW k, Final(i, items), Final(k, items)
  PROVE  i = k
<1> SUFFICES ASSUME i # k
             PROVE  FALSE
  OBVIOUS
<1>1. Before(k, i) /\ Before(i, k) /\ i \in ReadItem /\ k \in ReadItem
  BY DEF Final
<1>2. i.due \in Nat /\ k.due \in Nat /\ i.id \in Nat /\ k.id \in Nat
  BY <1>1, SchedulingAssumption DEF ReadItem, Ids, SchedulingAssumption
<1>3. QED
  BY <1>1, <1>2 DEF Before

LEMMA EnqueueCronKeeps ==
  ASSUME TypeOK, CronInv, NEW p \in Passes, EnqueueCron(p)
  PROVE  CronInv'
<1>1. /\ cron' = cron
      /\ \A q \in Passes \ {p} : pass'[q] = pass[q]
      /\ pass[p].pc = "enqueue_crons"
  BY EnqueueCronFits
<1>2. JobsKept
  BY <1>1 DEF JobsKept
<1>3. CASE /\ pass'[p].pc # "record_cron" /\ pass'[p].todo = {}
           /\ pass'[p].chosen \subseteq pass[p].chosen
           /\ UNCHANGED tasks
  <2>1. TasksKept
    BY <1>3 DEF TasksKept
  <2>2. ReadsKept
    <3> SUFFICES ASSUME NEW q \in Passes, OnJobs(q)'
                 PROVE  /\ OnJobs(q)
                        /\ pass'[q].todo \subseteq pass[q].todo /\ pass'[q].chosen \subseteq pass[q].chosen
                        /\ pass'[q].pc = "record_cron" =>
                             pass[q].pc = "record_cron" /\ pass'[q].chosen = pass[q].chosen
      BY DEF ReadsKept
    <3>1. CASE q = p
      BY <1>1, <1>3, <3>1 DEF OnJobs
    <3>2. CASE q # p
      BY <1>1, <3>2 DEF OnJobs
    <3>3. QED
      BY <3>1, <3>2
  <2>3. QED
    BY <1>2, <2>1, <2>2, QuietKeeps
<1>4. CASE /\ pass'[p].pc = "record_cron"
           /\ pass'[p].todo = pass[p].todo /\ pass'[p].chosen = pass[p].chosen
           /\ \E item \in pass[p].chosen :
                /\ Final(item, pass[p].chosen)
                /\ tasks' = Enqueued(CronTask(item.id, item.claim))
  <2>1. PICK item \in pass[p].chosen :
          Final(item, pass[p].chosen) /\ tasks' = Enqueued(CronTask(item.id, item.claim))
    BY <1>4
  <2> DEFINE K == CronTask(item.id, item.claim)
  <2>2. /\ DOMAIN tasks' = DOMAIN tasks \union {K}
        /\ \A t \in DOMAIN tasks : tasks'[t] = tasks[t]
    BY <2>1, EnqueuedFits DEF TypeOK
  <2>3. PassKept(p) /\ ReadKept(item) /\ ~Outstanding(item.last)
    BY <1>1 DEF CronInv, PassKept, OnJobs
  <2>4. K \notin DOMAIN tasks => item.claim = cron[item.id].claim /\ item.last = cron[item.id].last
    BY <2>3 DEF ReadKept, CronInv, JobKept
  <2>5. item.id \in Crons /\ item.claim \in 1..cron[item.id].claims /\ K # NoTask /\ K[1] = "cron"
    BY <2>3, Names DEF ReadKept
  <2>6. \A j, n : CronTask(j, n) = K => j = item.id /\ n = item.claim
    BY Names
  <2> HIDE DEF K
  <2>7. \A k : Outstanding(k)' => Outstanding(k) \/ (k = K /\ K \notin DOMAIN tasks)
    BY <2>2 DEF Outstanding
  <2>8. \A k : (k = NoTask \/ k \in DOMAIN tasks) /\ ~Outstanding(k) => ~Outstanding(k)'
    BY <2>5, <2>7
  <2>9. ASSUME NEW j \in Crons
        PROVE  JobKept(j)'
    <3>1. JobKept(j) /\ (cron[j].last = NoTask \/ cron[j].last \in DOMAIN tasks)
      BY LastKnown DEF CronInv
    <3>2. \A n \in 1..cron[j].claims :
            Outstanding(CronTask(j, n))' => n = cron[j].claim \/ cron[j].last = CronTask(j, n)
      BY <2>4, <2>6, <2>7, <3>1 DEF JobKept
    <3>3. cron[j].claim # 0 /\ CronTask(j, cron[j].claim) \in DOMAIN tasks' => ~Outstanding(cron[j].last)'
      <4>1. CASE CronTask(j, cron[j].claim) \in DOMAIN tasks
        BY <1>1, <2>8, <3>1, <4>1 DEF JobKept
      <4>2. CASE CronTask(j, cron[j].claim) = K /\ K \notin DOMAIN tasks
        <5>1. j = item.id /\ item.last = cron[j].last
          BY <2>4, <2>6, <4>2
        <5>2. QED
          BY <1>1, <2>3, <2>8, <3>1, <5>1
      <4>3. QED
        BY <2>2, <4>1, <4>2
    <3>4. QED
      BY <1>1, <2>2, <3>1, <3>2, <3>3 DEF JobKept
  <2>10. OnlyOccurrences'
    <3> SUFFICES ASSUME NEW k \in DOMAIN tasks'
                 PROVE  /\ k # NoTask
                        /\ k[1] = "cron" => \E j \in Crons : \E n \in 1..cron'[j].claims : k = CronTask(j, n)
      BY DEF OnlyOccurrences
    <3>1. CASE k \in DOMAIN tasks
      BY <1>1, <3>1 DEF CronInv, OnlyOccurrences
    <3>2. CASE k = K
      BY <1>1, <2>5, <3>2 DEF K
    <3>3. QED
      BY <2>2, <3>1, <3>2
  <2>11. \A x : ReadKept(x) => ReadKept(x)' /\ (~Outstanding(x.last) => ~Outstanding(x.last)')
    <3> SUFFICES ASSUME NEW x, ReadKept(x)
                 PROVE  ReadKept(x)' /\ (~Outstanding(x.last) => ~Outstanding(x.last)')
      OBVIOUS
    <3>1. x.last = NoTask \/ x.last \in DOMAIN tasks
      BY DEF ReadKept
    <3>2. ReadKept(x)'
      BY <1>1, <2>2 DEF ReadKept
    <3>3. ~Outstanding(x.last) => ~Outstanding(x.last)'
      BY <2>8, <3>1
    <3>4. QED
      BY <3>2, <3>3
  <2>12. ASSUME NEW q \in Passes \ {p}, OnJobs(q)'
         PROVE  PassKept(q)'
    <3>1. PassKept(q) /\ pass'[q] = pass[q]
      BY <1>1, <2>12 DEF CronInv, OnJobs
    <3>2. QED
      BY <2>2, <2>11, <3>1 DEF PassKept
  <2>13. PassKept(p)'
    <3>1. pass[p].chosen \in SUBSET ReadItem
      BY DEF TypeOK, SchedulingFits, Pass
    <3>2. \A x \in pass[p].chosen : Final(x, pass[p].chosen) => x = item
      BY <2>1, <3>1, FinalIsOne
    <3>3. CronTask(item.id, item.claim) \in DOMAIN tasks'
      BY <2>2 DEF K
    <3>4. QED
      BY <1>4, <2>3, <2>11, <3>2, <3>3 DEF PassKept
  <2>14. QED
    BY <2>9, <2>10, <2>12, <2>13 DEF CronInv
<1>5. QED
  BY <1>3, <1>4, EnqueueCronFits

LEMMA RecordCronKeeps ==
  ASSUME TypeOK, CronInv, NEW p \in Passes, RecordCron(p)
  PROVE  CronInv'
<1>1. /\ tasks' = tasks
      /\ \A q \in Passes \ {p} : pass'[q] = pass[q]
      /\ pass[p].pc = "record_cron" /\ pass'[p].pc # "record_cron"
      /\ pass'[p].todo = {} /\ pass'[p].chosen \subseteq pass[p].chosen
      /\ \E item \in pass[p].chosen :
           /\ Final(item, pass[p].chosen)
           /\ \A j \in Crons :
                /\ cron'[j].claims = cron[j].claims
                /\ IF j = item.id /\ Answers(cron[j], item.claim)
                   THEN cron'[j].claim = 0 /\ cron'[j].last = CronTask(item.id, item.claim)
                   ELSE cron'[j].claim = cron[j].claim /\ cron'[j].last = cron[j].last
  BY RecordCronFits
<1>2. PICK item \in pass[p].chosen :
        /\ Final(item, pass[p].chosen)
        /\ \A j \in Crons :
             /\ cron'[j].claims = cron[j].claims
             /\ IF j = item.id /\ Answers(cron[j], item.claim)
                THEN cron'[j].claim = 0 /\ cron'[j].last = CronTask(item.id, item.claim)
                ELSE cron'[j].claim = cron[j].claim /\ cron'[j].last = cron[j].last
  BY <1>1
<1>3. /\ PassKept(p) /\ ReadKept(item) /\ CronTask(item.id, item.claim) \in DOMAIN tasks
      /\ OnlyOccurrences
  BY <1>1, <1>2 DEF CronInv, PassKept, OnJobs
<1>4. item.id \in Crons /\ item.claim \in 1..cron[item.id].claims
  BY <1>3 DEF ReadKept
<1>5. \A k : Outstanding(k)' <=> Outstanding(k)
  BY <1>1 DEF Outstanding
<1>6. \A j \in Crons : JobKept(j) /\ cron[j].claims \in Nat /\ cron[j].claim \in Nat
  BY DEF CronInv, TypeOK, SchedulingFits, Job
<1>7. ASSUME NEW j \in Crons
      PROVE  JobKept(j)'
  <2>1. CASE j = item.id /\ Answers(cron[j], item.claim)
    <3>1. /\ cron'[j].claims = cron[j].claims /\ cron'[j].claim = 0
          /\ cron'[j].last = CronTask(j, item.claim) /\ cron[j].claim = item.claim
      BY <1>2, <2>1 DEF Answers
    <3>2. ~Outstanding(cron[j].last)
      BY <1>3, <1>4, <1>6, <2>1, <3>1 DEF JobKept
    <3>3. \A n \in 1..cron[j].claims : CronTask(j, n) \in DOMAIN tasks
      BY <1>3, <1>6, <2>1, <3>1 DEF JobKept
    <3>4. \A n \in 1..cron[j].claims :
            Outstanding(CronTask(j, n)) => CronTask(j, item.claim) = CronTask(j, n)
      BY <1>6, <3>1, <3>2 DEF JobKept
    <3>5. 0 \in 0..cron[j].claims /\ item.claim \in 1..cron[j].claims /\ item.claim # 0
      BY <1>4, <1>6, <2>1
    <3>6. QED
      BY <1>1, <1>5, <3>1, <3>3, <3>4, <3>5 DEF JobKept
  <2>2. CASE ~(j = item.id /\ Answers(cron[j], item.claim))
    <3>1. /\ cron'[j].claims = cron[j].claims /\ cron'[j].claim = cron[j].claim
          /\ cron'[j].last = cron[j].last
      BY <1>2, <2>2
    <3>2. QED
      BY <1>1, <1>5, <1>6, <3>1 DEF JobKept
  <2>3. QED
    BY <2>1, <2>2
<1>8. OnlyOccurrences'
  BY <1>1, <1>2, <1>3 DEF OnlyOccurrences
<1>9. \A x : ReadKept(x) => ReadKept(x)'
  <2> SUFFICES ASSUME NEW x, ReadKept(x)
               PROVE  ReadKept(x)'
    OBVIOUS
  <2>1. /\ x.id \in Crons /\ x.claim \in 1..cron'[x.id].claims
        /\ x.last = NoTask \/ x.last \in DOMAIN tasks'
    BY <1>1, <1>2 DEF ReadKept
  <2>2. x.claim = cron'[x.id].claim => x.last = cron'[x.id].last
    <3>1. x.claim # 0
      BY <2>1
    <3>2. QED
      BY <1>2, <2>1, <3>1 DEF ReadKept
  <2>3. QED
    BY <2>1, <2>2 DEF ReadKept
<1>10. ASSUME NEW q \in Passes, OnJobs(q)'
       PROVE  PassKept(q)'
  <2>1. CASE q = p
    BY <1>1, <1>3, <1>5, <1>9, <2>1 DEF PassKept
  <2>2. CASE q # p
    <3>1. PassKept(q) /\ pass'[q] = pass[q]
      BY <1>1, <1>10, <2>2 DEF CronInv, OnJobs
    <3>2. QED
      BY <1>1, <1>5, <1>9, <3>1 DEF PassKept
  <2>3. QED
    BY <2>1, <2>2
<1>11. QED
  BY <1>7, <1>8, <1>10 DEF CronInv

(* Steps elsewhere leave alone what is true of cron jobs. *)
LEMMA ElsewhereKeeps ==
  ASSUME TypeOK, CronInv, NEW p \in Passes, Elsewhere(p),
         \/ tasks' = tasks
         \/ \E s, n : tasks' = Enqueued(ScheduleTask(s, n))
         \/ \E i : tasks' = Enqueued(ItemTask(i))
  PROVE  CronInv'
<1>1. JobsKept
  BY DEF Elsewhere, JobsKept
<1>2. TasksKept
  <2>1. CASE tasks' = tasks
    BY <2>1 DEF TasksKept
  <2>2. ASSUME NEW k, tasks' = Enqueued(k), k # NoTask, k[1] # "cron"
        PROVE  TasksKept
    <3>1. DOMAIN tasks' = DOMAIN tasks \union {k} /\ \A t \in DOMAIN tasks : tasks'[t] = tasks[t]
      BY <2>2, EnqueuedFits DEF TypeOK
    <3>2. QED
      BY <2>2, <3>1 DEF TasksKept
  <2>3. QED
    BY <2>1, <2>2, Names
<1>3. ReadsKept
  <2> SUFFICES ASSUME NEW q \in Passes, OnJobs(q)'
               PROVE  q # p
    BY DEF ReadsKept, Elsewhere, OnJobs
  <2>1. QED
    BY DEF Elsewhere, OnJobs
<1>4. QED
  BY <1>1, <1>2, <1>3, QuietKeeps

(* Steps of no pass. *)
LEMMA OutsideKeeps ==
  ASSUME TypeOK, CronInv, JobsKept, TasksKept,
         \A p \in Passes :
           \/ pass'[p].pc = "idle"
           \/ /\ pass'[p].pc = pass[p].pc
              /\ pass'[p].todo = pass[p].todo /\ pass'[p].chosen = pass[p].chosen
  PROVE  CronInv'
<1>1. ReadsKept
  BY DEF ReadsKept, OnJobs
<1>2. QED
  BY <1>1, QuietKeeps

(* Every step keeps the ranges, what is true of cron jobs and what is true *)
(* of the keys of run-now requests.                                        *)
KeptByStep == TypeOK' /\ CronInv' /\ (HistoryKept /\ accepted' = accepted)

LEMMA PassStepKeeps ==
  ASSUME TypeOK, CronInv, NEW p \in Passes,
         \/ Proceed(p) \/ AbandonPass(p)
         \/ PromoteWhenIdle(p) \/ \E i \in Items : PromoteOnRequest(p, i)
  PROVE  KeptByStep
<1> USE DEF KeptByStep
<1>1. CASE ClaimCrons(p)
  BY <1>1, ClaimCronsFits, ClaimCronsKeeps DEF HistoryKept
<1>2. CASE CheckCron(p)
  BY <1>2, CheckCronFits, CheckCronKeeps DEF HistoryKept
<1>3. CASE EnqueueCron(p)
  BY <1>3, EnqueueCronFits, EnqueueCronKeeps DEF HistoryKept
<1>4. CASE RecordCron(p)
  BY <1>4, RecordCronFits, RecordCronKeeps DEF HistoryKept
<1>5. CASE ClaimSchedules(p)
  BY <1>5, ClaimSchedulesFits, ElsewhereKeeps DEF Elsewhere
<1>6. CASE CheckSchedule(p)
  BY <1>6, CheckScheduleFits, ElsewhereKeeps DEF Elsewhere, HistoryKept
<1>7. CASE EnqueueSchedule(p)
  BY <1>7, EnqueueScheduleFits, ElsewhereKeeps DEF Elsewhere, HistoryKept
<1>8. CASE RecordSchedule(p) \/ RecordFailure(p)
  BY <1>8, AcknowledgeFits, ElsewhereKeeps DEF Elsewhere
<1>9. CASE AbandonPass(p)
  BY <1>9, AbandonFits, ElsewhereKeeps DEF Elsewhere, HistoryKept
<1>10. CASE PromoteWhenIdle(p) \/ (\E i \in Items : PromoteOnRequest(p, i)) \/ EnqueueItem(p) \/ PromoteItem(p)
  BY <1>10, PromotionFits, ElsewhereKeeps DEF Elsewhere, HistoryKept
<1>11. QED
  BY <1>1, <1>2, <1>3, <1>4, <1>5, <1>6, <1>7, <1>8, <1>9, <1>10 DEF Proceed

(* Seen from cron jobs, the rest changes nothing. *)
LEMMA RequestsKeep ==
  ASSUME TypeOK, CronInv, Requests
  PROVE  TypeOK' /\ CronInv'
<1>1. ASSUME UNCHANGED <<tasks, pass>>, JobsKept
      PROVE  CronInv'
  <2>1. TasksKept
    BY <1>1 DEF TasksKept
  <2>2. QED
    BY <1>1, <2>1, OutsideKeeps
<1>2. ASSUME NEW j \in Crons, AddCron(j) \/ CancelCron(j)
      PROVE  TypeOK' /\ CronInv'
  <2>1. /\ TypeOK'
        /\ \A i \in Crons : /\ cron'[i].claims = cron[i].claims
                            /\ cron'[i].claim = cron[i].claim
                            /\ cron'[i].last = cron[i].last
        /\ UNCHANGED <<schedule, tasks, pass, accepted>>
    BY <1>2, CronRequestFits
  <2>2. QED
    BY <1>1, <2>1 DEF JobsKept
<1>3. ASSUME NEW s \in Schedules,
             \/ PauseSchedule(s) \/ ResumeSchedule(s) \/ \E key \in Keys : RequestRun(s, key)
      PROVE  TypeOK' /\ CronInv'
  <2>1. TypeOK' /\ UNCHANGED <<cron, tasks, pass>>
    BY <1>3, ScheduleRequestFits
  <2>2. QED
    BY <1>1, <2>1 DEF JobsKept
<1>4. ASSUME NEW i \in Items,
             RemoveItem(i) \/ \E priority \in 0..2 : AddItem(i, priority) \/ Reprioritize(i, priority)
      PROVE  TypeOK' /\ CronInv'
  <2>1. TypeOK' /\ UNCHANGED <<cron, schedule, tasks, pass, accepted>>
    BY <1>4, BacklogRequestFits
  <2>2. QED
    BY <1>1, <2>1 DEF JobsKept
<1>5. QED
  BY <1>2, <1>3, <1>4 DEF Requests

LEMMA CronInit == Init => CronInv
<1> SUFFICES ASSUME Init
             PROVE  CronInv
  OBVIOUS
<1>1. DOMAIN tasks = {}
  <2>1. tasks = <<>>
    BY DEF Init
  <2>2. QED
    BY <2>1
<1>2. \A p \in Passes : ~OnJobs(p)
  BY DEF Init, OnJobs, Resting
<1>3. \A j \in Crons : cron[j].claims = 0 /\ cron[j].claim = 0 /\ cron[j].last = NoTask
  BY DEF Init, NoJob
<1>4. \A j \in Crons : JobKept(j)
  BY <1>1, <1>3 DEF JobKept
<1>5. QED
  BY <1>1, <1>2, <1>4 DEF CronInv, OnlyOccurrences

LEMMA CronStep ==
  ASSUME TypeOK, CronInv, [Next]_vars
  PROVE  TypeOK' /\ CronInv'
<1>1. CASE Requests
  BY <1>1, RequestsKeep
<1>2. ASSUME NEW p \in Passes,
             \/ Proceed(p) \/ AbandonPass(p)
             \/ PromoteWhenIdle(p) \/ \E i \in Items : PromoteOnRequest(p, i)
      PROVE  TypeOK' /\ CronInv'
  BY <1>2, PassStepKeeps DEF KeptByStep
<1>3. ASSUME NEW k \in DOMAIN tasks, TaskEnds(k)
      PROVE  TypeOK' /\ CronInv'
  <2>1. /\ TypeOK' /\ UNCHANGED <<cron, schedule, pass, accepted>>
        /\ DOMAIN tasks' = DOMAIN tasks
        /\ \A t \in DOMAIN tasks : tasks'[t] = "outstanding" => tasks[t] = "outstanding"
    BY <1>3, TaskEndsFits
  <2>2. JobsKept /\ TasksKept
    BY <2>1 DEF JobsKept, TasksKept
  <2>3. QED
    BY <2>1, <2>2, OutsideKeeps
<1>4. CASE Tick
  <2>1. TypeOK' /\ UNCHANGED <<cron, schedule, tasks, pass, accepted>>
    BY <1>4, TickFits
  <2>2. JobsKept /\ TasksKept
    BY <2>1 DEF JobsKept, TasksKept
  <2>3. QED
    BY <2>1, <2>2, OutsideKeeps
<1>5. CASE Takeover
  <2>1. /\ TypeOK' /\ UNCHANGED <<cron, tasks, accepted>>
        /\ \A p \in Passes :
             \/ pass'[p].pc = "idle"
             \/ /\ pass'[p].pc = pass[p].pc
                /\ pass'[p].todo = pass[p].todo /\ pass'[p].chosen = pass[p].chosen
    BY <1>5, TakeoverFits
  <2>2. JobsKept /\ TasksKept
    BY <2>1 DEF JobsKept, TasksKept
  <2>3. QED
    BY <2>1, <2>2, OutsideKeeps
<1>6. CASE UNCHANGED vars
  <2>1. UNCHANGED <<now, cron, schedule, tasks, declared, pass, accepted>>
    BY <1>6 DEF vars, files
  <2>2. TypeOK'
    BY <2>1, ReadsUnmoved DEF TypeOK, SchedulingFits
  <2>3. JobsKept /\ TasksKept
    BY <2>1 DEF JobsKept, TasksKept
  <2>4. QED
    BY <2>1, <2>2, <2>3, OutsideKeeps
<1>7. QED
  BY <1>1, <1>2, <1>3, <1>4, <1>5, <1>6 DEF Next

(* What schedules keeps stays in its ranges, and what is said above of cron *)
(* jobs is true, for any jobs, schedules, threads and requests.            *)
THEOREM CronCorrect == Spec => [](TypeOK /\ CronInv)
<1>1. Init => TypeOK /\ CronInv
  BY TypeInit, CronInit
<1>2. TypeOK /\ CronInv /\ [Next]_vars => (TypeOK /\ CronInv)'
  BY CronStep
<1>3. QED
  BY <1>1, <1>2, PTL DEF Spec

(* What is true of a job leaves room for one task. *)
LEMMA AtMostOne ==
  ASSUME TypeOK, CronInv
  PROVE  OneOutstanding
<1> SUFFICES ASSUME NEW j \in Crons
             PROVE  Cardinality(Unfinished("cron", j)) <= 1
  BY DEF OneOutstanding
<1> DEFINE U == Unfinished("cron", j)
<1>1. ASSUME NEW k \in U
      PROVE  \E n \in 1..cron[j].claims : k = CronTask(j, n) /\ Outstanding(CronTask(j, n))
  <2>1. k \in DOMAIN tasks /\ k[1] = "cron" /\ k[2] = j /\ tasks[k] = "outstanding"
    BY <1>1 DEF Unfinished, Of
  <2>2. PICK i \in Crons : \E n \in 1..cron[i].claims : k = CronTask(i, n)
    BY <2>1 DEF CronInv, OnlyOccurrences
  <2>3. i = j
    BY <2>1, <2>2, Names
  <2>4. QED
    BY <2>1, <2>2, <2>3 DEF Outstanding
<1>2. ASSUME NEW k \in U, NEW l \in U
      PROVE  k = l
  <2>1. PICK n \in 1..cron[j].claims : k = CronTask(j, n) /\ Outstanding(CronTask(j, n))
    BY <1>1
  <2>2. PICK m \in 1..cron[j].claims : l = CronTask(j, m) /\ Outstanding(CronTask(j, m))
    BY <1>1
  <2>3. JobKept(j) /\ cron[j].claims \in Nat
    BY DEF CronInv, TypeOK, SchedulingFits, Job
  <2>4. ASSUME NEW a \in 1..cron[j].claims, NEW b \in 1..cron[j].claims, a = cron[j].claim, b # a,
               Outstanding(CronTask(j, a)), Outstanding(CronTask(j, b))
        PROVE  FALSE
    <3>1. cron[j].last = CronTask(j, b) /\ cron[j].claim # 0
      BY <2>3, <2>4 DEF JobKept
    <3>2. CronTask(j, cron[j].claim) \in DOMAIN tasks
      BY <2>4 DEF Outstanding
    <3>3. QED
      BY <2>3, <2>4, <3>1, <3>2 DEF JobKept
  <2>5. CASE n # cron[j].claim /\ m # cron[j].claim
    BY <2>1, <2>2, <2>3, <2>5 DEF JobKept
  <2>6. QED
    BY <2>1, <2>2, <2>4, <2>5
<1> HIDE DEF U
<1>3. CASE U = {}
  <2>1. Cardinality(U) = 0
    BY <1>3, FS_EmptySet
  <2>2. QED
    BY <2>1 DEF U
<1>4. CASE U # {}
  <2>1. PICK k : U = {k}
    BY <1>2, <1>4
  <2>2. Cardinality(U) = 1
    BY <2>1, FS_Singleton
  <2>3. QED
    BY <2>2 DEF U
<1>5. QED
  BY <1>3, <1>4

(* A cron job has one pending, running or paused task at most, whatever    *)
(* any number of threads have read before they enqueue, and across crashes *)
(* and takeovers.                                                          *)
THEOREM OneOutstandingCorrect == Spec => []OneOutstanding
BY CronCorrect, AtMostOne, PTL
-----------------------------------------------------------------------------
(* The keys of run-now requests *)

(* What is remembered is the end of what was accepted. *)
Remembers(history, all) ==
  LET kept == Len(history)
  IN  /\ kept <= Len(all) /\ kept <= HistoryLimit
      /\ kept < HistoryLimit => kept = Len(all)
      /\ \A i \in 1..kept : history[i] = all[Len(all) - kept + i]

FarApart(all) ==
  \A m, n \in DOMAIN all : m < n /\ all[m] = all[n] => n - m > HistoryLimit

HistoryInv ==
  \A s \in Schedules :
    /\ schedule[s].state = "absent" => accepted[s] = <<>>
    /\ Remembers(schedule[s].history, accepted[s])
    /\ FarApart(accepted[s])

LEMMA RememberedIsEnd ==
  ASSUME NEW history \in Seq(Keys), NEW all \in Seq(Keys), NEW key \in Keys, Remembers(history, all)
  PROVE  Remembers(Remember(history, key), Append(all, key))
<1> DEFINE longer == Append(history, key)
           more   == Append(all, key)
           kept   == Len(history)
<1>1. HistoryLimit \in Nat /\ HistoryLimit > 0
  BY SchedulingAssumption DEF SchedulingAssumption
<1>2. /\ kept \in Nat /\ Len(all) \in Nat /\ kept <= Len(all) /\ kept <= HistoryLimit
      /\ kept < HistoryLimit => kept = Len(all)
      /\ \A i \in 1..kept : history[i] = all[Len(all) - kept + i]
  BY DEF Remembers
<1>3. /\ longer \in Seq(Keys) /\ Len(longer) = kept + 1 /\ longer[kept + 1] = key
      /\ \A i \in 1..kept : longer[i] = history[i]
  OBVIOUS
<1>4. /\ more \in Seq(Keys) /\ Len(more) = Len(all) + 1 /\ more[Len(all) + 1] = key
      /\ \A i \in 1..Len(all) : more[i] = all[i]
  OBVIOUS
<1>5. \A i \in 1..kept + 1 : longer[i] = more[Len(all) - kept + i]
  <2> SUFFICES ASSUME NEW i \in 1..kept + 1
               PROVE  longer[i] = more[Len(all) - kept + i]
    OBVIOUS
  <2>1. CASE i = kept + 1
    <3>1. Len(all) - kept + i = Len(all) + 1
      BY <1>2, <2>1
    <3>2. QED
      BY <1>3, <1>4, <2>1, <3>1
  <2>2. CASE i # kept + 1
    <3>1. i \in 1..kept /\ Len(all) - kept + i \in 1..Len(all)
      BY <1>2, <2>2
    <3>2. QED
      BY <1>2, <1>3, <1>4, <3>1
  <2>3. QED
    BY <2>1, <2>2
<1> HIDE DEF longer, more, kept
<1>6. CASE Len(longer) > HistoryLimit
  <2>1. kept = HistoryLimit
    BY <1>1, <1>2, <1>3, <1>6
  <2>2. /\ Len(Tail(longer)) = kept
        /\ \A i \in 1..kept : Tail(longer)[i] = longer[i + 1]
    <3>1. longer # <<>> /\ Len(longer) \in Nat
      BY <1>2, <1>3
    <3>2. Len(Tail(longer)) = Len(longer) - 1 /\ \A i \in 1..Len(longer) - 1 : Tail(longer)[i] = longer[i + 1]
      BY <1>3, <3>1
    <3>3. Len(longer) - 1 = kept
      BY <1>2, <1>3
    <3>4. QED
      BY <3>2, <3>3
  <2>3. \A i \in 1..kept : Tail(longer)[i] = more[Len(more) - kept + i]
    <3> SUFFICES ASSUME NEW i \in 1..kept
                 PROVE  Tail(longer)[i] = more[Len(more) - kept + i]
      OBVIOUS
    <3>1. i + 1 \in 1..kept + 1 /\ Len(all) - kept + (i + 1) = Len(more) - kept + i
      BY <1>2, <1>4
    <3>2. longer[i + 1] = more[Len(more) - kept + i]
      BY <1>5, <3>1
    <3>3. QED
      BY <2>2, <3>2
  <2>4. Remember(history, key) = Tail(longer)
    BY <1>6 DEF Remember, longer
  <2>5. kept <= Len(more)
    BY <1>2, <1>4
  <2>6. Remembers(Tail(longer), more)
    <3> DEFINE tail == Tail(longer)
    <3>1. Len(tail) = kept /\ \A i \in 1..kept : tail[i] = more[Len(more) - kept + i]
      BY <2>2, <2>3
    <3>2. Len(tail) <= Len(more) /\ Len(tail) <= HistoryLimit /\ ~(Len(tail) < HistoryLimit)
      BY <1>1, <2>1, <2>5, <3>1
    <3> HIDE DEF tail
    <3>3. Remembers(tail, more)
      BY <3>1, <3>2 DEF Remembers
    <3>4. QED
      BY <3>3 DEF tail
  <2>7. QED
    BY <2>4, <2>6 DEF more
<1>7. CASE ~(Len(longer) > HistoryLimit)
  <2>1. Remember(history, key) = longer
    BY <1>7 DEF Remember, longer
  <2>2. kept < HistoryLimit /\ kept = Len(all) /\ Len(longer) <= HistoryLimit
    BY <1>1, <1>2, <1>3, <1>7
  <2>3. Len(longer) = Len(more)
    BY <1>3, <1>4, <2>2
  <2>4. \A i \in 1..Len(longer) : longer[i] = more[Len(more) - Len(longer) + i]
    <3> SUFFICES ASSUME NEW i \in 1..Len(longer)
                 PROVE  longer[i] = more[Len(more) - Len(longer) + i]
      OBVIOUS
    <3>1. i \in 1..kept + 1 /\ Len(all) - kept + i = Len(more) - Len(longer) + i
      BY <1>2, <1>3, <1>4
    <3>2. QED
      BY <1>5, <3>1
  <2>5. Remembers(longer, more)
    BY <1>1, <1>2, <1>3, <2>2, <2>3, <2>4 DEF Remembers
  <2>6. QED
    BY <2>1, <2>5 DEF more
<1>8. QED
  BY <1>6, <1>7

(* A key that is not remembered was last accepted long ago. *)
LEMMA NewIsFarApart ==
  ASSUME NEW history \in Seq(Keys), NEW all \in Seq(Keys), NEW key \in Keys,
         Remembers(history, all), FarApart(all), key \notin ToSet(history)
  PROVE  FarApart(Append(all, key))
<1> DEFINE more == Append(all, key)
           kept == Len(history)
<1> SUFFICES ASSUME NEW m \in DOMAIN more, NEW n \in DOMAIN more, m < n, more[m] = more[n]
             PROVE  n - m > HistoryLimit
  BY DEF FarApart
<1>1. HistoryLimit \in Nat
  BY SchedulingAssumption DEF SchedulingAssumption
<1>2. /\ kept \in Nat /\ Len(all) \in Nat /\ kept <= Len(all) /\ kept <= HistoryLimit
      /\ kept < HistoryLimit => kept = Len(all)
      /\ \A i \in 1..kept : history[i] = all[Len(all) - kept + i]
  BY DEF Remembers
<1>3. /\ DOMAIN more = 1..Len(all) + 1 /\ more[Len(all) + 1] = key
      /\ \A i \in 1..Len(all) : more[i] = all[i]
      /\ DOMAIN all = 1..Len(all)
  OBVIOUS
<1>4. \A i \in 1..kept : history[i] # key
  BY DEF ToSet
<1> HIDE DEF more, kept
<1>5. m \in 1..Len(all) /\ (n \in 1..Len(all) \/ n = Len(all) + 1)
  <2>1. m \in 1..Len(all) + 1 /\ n \in 1..Len(all) + 1 /\ m < n
    BY <1>3
  <2>2. QED
    BY <1>2, <2>1
<1>6. CASE n \in 1..Len(all)
  BY <1>3, <1>5, <1>6 DEF FarApart
<1>7. CASE n = Len(all) + 1
  <2>1. all[m] = key
    BY <1>3, <1>5, <1>7
  <2>2. m <= Len(all) - kept
    <3> SUFFICES ASSUME m > Len(all) - kept
                 PROVE  FALSE
      BY <1>2, <1>5
    <3>1. m - (Len(all) - kept) \in 1..kept /\ Len(all) - kept + (m - (Len(all) - kept)) = m
      BY <1>2, <1>5
    <3>2. history[m - (Len(all) - kept)] = all[m]
      BY <1>2, <3>1
    <3>3. QED
      BY <1>4, <2>1, <3>1, <3>2
  <2>3. kept = HistoryLimit
    BY <1>1, <1>2, <1>5, <2>2
  <2>4. QED
    BY <1>1, <1>2, <1>5, <1>7, <2>2, <2>3
<1>8. QED
  BY <1>5, <1>6, <1>7

(* Only a request adds a key; a schedule that is new has none. *)
LEMMA HistoryStays ==
  ASSUME HistoryInv, accepted' = accepted,
         \A s \in Schedules :
           /\ \/ schedule'[s].history = schedule[s].history
              \/ schedule'[s].history = <<>> /\ schedule[s].state = "absent"
           /\ schedule'[s].state = "absent" => schedule[s].state = "absent"
  PROVE  HistoryInv'
<1> SUFFICES ASSUME NEW s \in Schedules
             PROVE  /\ schedule'[s].state = "absent" => accepted[s] = <<>>
                    /\ Remembers(schedule'[s].history, accepted[s])
                    /\ FarApart(accepted[s])
  BY DEF HistoryInv
<1>1. Remembers(schedule'[s].history, accepted[s])
  <2>1. CASE schedule'[s].history = schedule[s].history
    BY <2>1 DEF HistoryInv
  <2>2. CASE schedule'[s].history = <<>> /\ schedule[s].state = "absent"
    <3>1. accepted[s] = <<>>
      BY <2>2 DEF HistoryInv
    <3>2. HistoryLimit \in Nat /\ Len(<<>>) = 0
      BY SchedulingAssumption DEF SchedulingAssumption
    <3>3. QED
      BY <2>2, <3>1, <3>2 DEF Remembers
  <2>3. QED
    BY <2>1, <2>2
<1>2. QED
  BY <1>1 DEF HistoryInv

LEMMA RequestRunKeeps ==
  ASSUME TypeOK, HistoryInv, NEW s \in Schedules, NEW key \in Keys, RequestRun(s, key)
  PROVE  HistoryInv'
<1> DEFINE history == IF key = NoKey THEN schedule[s].history ELSE Remember(schedule[s].history, key)
           all     == IF key = NoKey THEN accepted[s] ELSE Append(accepted[s], key)
<1>1. /\ schedule \in [Schedules -> Timetable] /\ accepted \in [Schedules -> Seq(Keys)]
      /\ schedule[s].history \in Seq(Keys) /\ accepted[s] \in Seq(Keys)
  BY DEF TypeOK, SchedulingFits, Timetable
<1>2. /\ schedule[s].state = "active" /\ key \notin ToSet(schedule[s].history)
      /\ \/ schedule' = [schedule EXCEPT ![s].history = history]
         \/ schedule' = [[schedule EXCEPT ![s].history = history] EXCEPT ![s].run = TRUE]
      /\ accepted' = [accepted EXCEPT ![s] = all]
  BY <1>1 DEF RequestRun
<1>3. Remembers(history, all) /\ FarApart(all)
  <2>1. Remembers(schedule[s].history, accepted[s]) /\ FarApart(accepted[s])
    BY DEF HistoryInv
  <2>2. CASE key = NoKey
    BY <2>1, <2>2
  <2>3. CASE key # NoKey
    BY <1>1, <1>2, <2>1, <2>3, RememberedIsEnd, NewIsFarApart
  <2>4. QED
    BY <2>2, <2>3
<1> HIDE DEF history, all
<1>4. /\ schedule'[s].history = history /\ schedule'[s].state = "active"
      /\ \A t \in Schedules \ {s} : schedule'[t] = schedule[t]
  BY <1>1, <1>2 DEF Timetable
<1>5. accepted'[s] = all /\ \A t \in Schedules \ {s} : accepted'[t] = accepted[t]
  BY <1>1, <1>2
<1> SUFFICES ASSUME NEW t \in Schedules
             PROVE  /\ schedule'[t].state = "absent" => accepted'[t] = <<>>
                    /\ Remembers(schedule'[t].history, accepted'[t])
                    /\ FarApart(accepted'[t])
  BY DEF HistoryInv
<1>6. CASE t = s
  BY <1>3, <1>4, <1>5, <1>6
<1>7. CASE t # s
  BY <1>4, <1>5, <1>7 DEF HistoryInv
<1>8. QED
  BY <1>6, <1>7

LEMMA HistoryInit == Init => HistoryInv
<1> SUFFICES ASSUME Init, NEW s \in Schedules
             PROVE  /\ schedule[s].state = "absent" => accepted[s] = <<>>
                    /\ Remembers(schedule[s].history, accepted[s])
                    /\ FarApart(accepted[s])
  BY DEF HistoryInv
<1>1. accepted[s] = <<>> /\ schedule[s].history = <<>>
  <2>1. TypeOK
    BY TypeInit
  <2>2. NoSchedule.history = <<>>
    BY DEF NoSchedule
  <2>3. schedule[s] = Reconciled(NoSchedule, declared[s]) /\ accepted[s] = <<>>
    BY DEF Init
  <2>4. Reconciled(NoSchedule, declared[s]).history = <<>>
    BY <2>1, <2>2, AbsentFits, ReconciledFits DEF TypeOK, SchedulingFits
  <2>5. QED
    BY <2>3, <2>4
<1>2. HistoryLimit \in Nat /\ Len(<<>>) = 0 /\ DOMAIN <<>> = {}
  BY SchedulingAssumption DEF SchedulingAssumption
<1>3. QED
  BY <1>1, <1>2 DEF Remembers, FarApart

LEMMA HistoryStep ==
  ASSUME TypeOK, CronInv, HistoryInv, [Next]_vars
  PROVE  HistoryInv'
<1>1. ASSUME HistoryKept, accepted' = accepted
      PROVE  HistoryInv'
  BY <1>1, HistoryStays DEF HistoryKept
<1>2. ASSUME UNCHANGED <<schedule, accepted>>
      PROVE  HistoryInv'
  BY <1>1, <1>2 DEF HistoryKept
<1>3. ASSUME NEW j \in Crons, AddCron(j) \/ CancelCron(j)
      PROVE  HistoryInv'
  BY <1>2, <1>3, CronRequestFits
<1>4. ASSUME NEW s \in Schedules, PauseSchedule(s) \/ ResumeSchedule(s)
      PROVE  HistoryInv'
  <2>1. /\ schedule \in [Schedules -> Timetable] /\ accepted' = accepted
        /\ schedule[s].state # "absent"
    BY <1>4 DEF TypeOK, SchedulingFits, PauseSchedule, ResumeSchedule
  <2>2. \A t \in Schedules \ {s} : schedule'[t] = schedule[t]
    BY <1>4, <2>1 DEF PauseSchedule, ResumeSchedule
  <2>3. schedule[s] \in Timetable
    BY <2>1
  <2>4. schedule'[s].history = schedule[s].history /\ schedule'[s].state \in {"active", "paused"}
    <3>1. CASE PauseSchedule(s)
      <4>1. schedule'[s] = [schedule[s] EXCEPT !.state = "paused",
                                               !.run = @ /\ schedule[s].claim # 0]
        BY <2>1, <3>1 DEF PauseSchedule
      <4>2. QED
        BY <2>3, <4>1 DEF Timetable
    <3>2. CASE ResumeSchedule(s)
      BY <2>1, <2>3, <3>2 DEF ResumeSchedule, Timetable
    <3>3. QED
      BY <1>4, <3>1, <3>2
  <2>5. HistoryKept
    <3>1. \A t \in Schedules : t = s \/ t \in Schedules \ {s}
      OBVIOUS
    <3>2. QED
      BY <2>1, <2>2, <2>4, <3>1 DEF HistoryKept
  <2>6. QED
    BY <1>1, <2>1, <2>5
<1>5. ASSUME NEW s \in Schedules, NEW key \in Keys, RequestRun(s, key)
      PROVE  HistoryInv'
  BY <1>5, RequestRunKeeps
<1>6. ASSUME NEW i \in Items,
             RemoveItem(i) \/ \E priority \in 0..2 : AddItem(i, priority) \/ Reprioritize(i, priority)
      PROVE  HistoryInv'
  BY <1>2, <1>6, BacklogRequestFits
<1>7. ASSUME NEW p \in Passes,
             \/ Proceed(p) \/ AbandonPass(p)
             \/ PromoteWhenIdle(p) \/ \E i \in Items : PromoteOnRequest(p, i)
      PROVE  HistoryInv'
  BY <1>1, <1>7, PassStepKeeps DEF KeptByStep
<1>8. ASSUME NEW k \in DOMAIN tasks, TaskEnds(k)
      PROVE  HistoryInv'
  BY <1>2, <1>8, TaskEndsFits
<1>9. CASE Tick
  BY <1>2, <1>9, TickFits
<1>10. CASE Takeover
  BY <1>10, TakeoverFits, HistoryStays
<1>11. CASE UNCHANGED vars
  BY <1>2, <1>11 DEF vars, files
<1>12. QED
  BY <1>3, <1>4, <1>5, <1>6, <1>7, <1>8, <1>9, <1>10, <1>11 DEF Next, Requests

(* A run-now key accepted again is older than all the keys remembered, for *)
(* any number of keys, requests, pauses and takeovers.                     *)
THEOREM RunKeysCorrect == Spec => []RunKeysRemembered
<1>1. Init => HistoryInv
  BY HistoryInit
<1>2. TypeOK /\ CronInv /\ HistoryInv /\ [Next]_vars => HistoryInv'
  BY HistoryStep
<1>3. HistoryInv => RunKeysRemembered
  BY DEF HistoryInv, FarApart, RunKeysRemembered
<1>4. QED
  BY <1>1, <1>2, <1>3, CronCorrect, PTL DEF Spec
=============================================================================
