-------------------------- MODULE WorkspacesProofs --------------------------
(***************************************************************************)
(* Proofs about Workspaces and the Doctor it runs, for any number of       *)
(* tasks, attempts, faults and processes that run the checks.              *)
(***************************************************************************)
EXTENDS Workspaces, TLAPS

Job == [kind : {"edit", "reference"},
        status : {"absent", "pending", "running", "failed", "completed", "cancelled"},
        attempt : Nat, place : Tasks \union {0}, recorded : BOOLEAN,
        stage : {"", "captured", "review_published"},
        review : BOOLEAN, result : BOOLEAN, retried : BOOLEAN]
Steps   == {"off", "prepare", "prepared", "work", "inspect", "emptied", "doctor", "capture",
            "captured", "resume", "inspect reference", "publish", "published", "clean up",
            "hand over", "settle"}
Thread  == {th \in [pc : Steps, outcome : {"none", "failed", "retry", "completed"}] :
              th.pc = "settle" => th.outcome # "none"}

(* A task that was handed out has a place; a thread runs the running task. *)
TasksFit ==
  /\ job \in [Tasks -> Job] /\ running \in Tasks \union {0} /\ thread \in Thread
  /\ \A t \in Tasks : Status(t) # "absent" => job[t].place \in Tasks
  /\ running # 0 => Status(running) = "running"
  /\ thread.pc # "off" => running # 0

RepositoryFits ==
  /\ space \in [Tasks -> {"absent", "clean", "dirty"}]
  /\ branch \in [Tasks -> {"absent", "base", "change"}]
  /\ published \subseteq Tasks
  /\ edits \in [Tasks -> {"none", "made", "discarded"}]

(* From the capture, or the discovery that nothing was done, to the end of *)
(* the workspace it holds nothing that is not on the branch.               *)
Handover  == {"emptied", "captured", "publish", "published", "clean up", "hand over"}
Committed == thread.pc \in Handover => space[Place] # "dirty"

SpacesInv == TasksFit /\ RepositoryFits /\ Committed /\ WorkKept

(* The lock of the environment excludes: only its holder removes, and only *)
(* what it found unfit.                                                    *)
Doing == [pc : {"off", "look", "probe", "lock", "recheck", "remove", "build", "verify", "tests",
                "rest", "passed", "failed"},
          python : {"base", "managed"}, failed : BOOLEAN]
Guarded == {"recheck", "remove", "build"}
Excludes(d) == /\ doctor[d].pc \in Guarded => holder = d
               /\ doctor[d].pc = "remove" => env # "whole"
ProvisionInv == doctor \in [Doctors -> Doing] /\ \A d \in Doctors : Excludes(d)

-----------------------------------------------------------------------------
(* The environment *)

(* A step of d changes nothing of the others, and the lock and the         *)
(* environment only with the lock in hand.                                 *)
LEMMA OnlyOwn ==
  ASSUME ProvisionInv, NEW d \in Doctors, NEW r \in Doing, doctor' = [doctor EXCEPT ![d] = r],
         \/ holder' = holder /\ env' = env
         \/ holder' = holder /\ env # "whole" /\ env' # "whole" /\ holder = d
         \/ holder = NoDoctor /\ holder' = d /\ env' = env
         \/ holder = d /\ holder' = NoDoctor,
         r.pc \in Guarded => holder' = d,
         r.pc = "remove" => env' # "whole"
  PROVE  ProvisionInv'
<1>1. doctor' \in [Doctors -> Doing] /\ doctor'[d] = r
  BY DEF ProvisionInv
<1>2. ASSUME NEW e \in Doctors, e # d PROVE Excludes(e)'
  <2>1. doctor'[e] = doctor[e] /\ e # NoDoctor
    BY <1>2, DoctorAssumption DEF ProvisionInv
  <2>2. Excludes(e)
    BY DEF ProvisionInv
  <2>3. QED
    BY <1>2, <2>1, <2>2 DEF Excludes, Guarded
<1>3. Excludes(d)'
  BY <1>1 DEF Excludes
<1>4. QED
  BY <1>1, <1>2, <1>3 DEF ProvisionInv

LEMMA DoctorMoves ==
  ASSUME ProvisionInv, NEW d \in Doctors,
         Examine(d) \/ DoctorStep(d) \/ Collect(d) \/ Die(d) \/ Damage
  PROVE  ProvisionInv' /\ (env = "whole" => env' \in {"whole", "damaged"})
<1>1. doctor[d] \in Doing /\ Idle \in Doing /\ Idle.pc = "off" /\ Excludes(d)
  BY DEF ProvisionInv, Doing, Idle
<1>2. ASSUME NEW r \in Doing, doctor' = [doctor EXCEPT ![d] = r], r.pc \notin Guarded, env' = env,
             holder' = holder \/ (holder = d /\ holder' = NoDoctor)
      PROVE  ProvisionInv' /\ (env = "whole" => env' \in {"whole", "damaged"})
  BY <1>2, OnlyOwn DEF Guarded
<1>3. CASE Examine(d)
  <2>1. [Idle EXCEPT !.pc = "look"] \in Doing /\ [Idle EXCEPT !.pc = "look"].pc = "look"
    BY <1>1 DEF Doing
  <2>2. QED
    BY <1>2, <1>3, <2>1 DEF Examine, Guarded
<1>4. CASE Collect(d) \/ Die(d)
  BY <1>1, <1>2, <1>4 DEF Collect, Die, Guarded
<1>5. CASE Damage
  BY <1>5 DEF Damage, ProvisionInv, Excludes
<1>6. CASE LookUp(d) \/ Probe(d) \/ Verify(d) \/ RunTests(d) \/ Conclude(d)
  <2>1. /\ env' = env /\ holder' = holder
        /\ \E r \in Doing : doctor' = [doctor EXCEPT ![d] = r] /\ r.pc \notin Guarded
    <3>1. CASE LookUp(d)
      <4> DEFINE r == [doctor[d] EXCEPT !.pc = "probe", !.python = IF Complete THEN "managed" ELSE "base"]
      <4>1. r \in Doing /\ r.pc = "probe" /\ doctor' = [doctor EXCEPT ![d] = r]
        BY <1>1, <3>1 DEF LookUp, Doing
      <4>2. QED
        BY <3>1, <4>1 DEF LookUp, Guarded
    <3>2. ASSUME NEW to \in {"tests", "lock", "rest", "passed", "failed"}, Goto(d, to)
          PROVE  \E r \in Doing : doctor' = [doctor EXCEPT ![d] = r] /\ r.pc \notin Guarded
      <4> DEFINE r == [doctor[d] EXCEPT !.pc = to]
      <4>1. r \in Doing /\ r.pc = to /\ doctor' = [doctor EXCEPT ![d] = r]
        BY <1>1, <3>2 DEF Goto, Doing
      <4>2. QED
        BY <4>1 DEF Guarded
    <3>3. ASSUME Fails(d)
          PROVE  \E r \in Doing : doctor' = [doctor EXCEPT ![d] = r] /\ r.pc \notin Guarded
      <4> DEFINE r == [doctor[d] EXCEPT !.pc = "rest", !.failed = TRUE]
      <4>1. r \in Doing /\ r.pc = "rest" /\ doctor' = [doctor EXCEPT ![d] = r]
        BY <1>1, <3>3 DEF Fails, Doing
      <4>2. QED
        BY <4>1 DEF Guarded
    <3>4. QED
      BY <1>6, <3>1, <3>2, <3>3 DEF Probe, Verify, RunTests, Conclude
  <2>2. QED
    BY <1>2, <2>1
<1>7. CASE EnterProvision(d)
  <2> DEFINE r == [doctor[d] EXCEPT !.pc = "recheck"]
  <2>1. r \in Doing /\ r.pc = "recheck" /\ doctor' = [doctor EXCEPT ![d] = r]
    BY <1>1, <1>7 DEF EnterProvision, Goto, Doing
  <2> HIDE DEF r
  <2>2. QED
    BY <1>7, <2>1, OnlyOwn DEF EnterProvision
<1>8. CASE Recheck(d)
  <2>1. holder = d /\ env' = env
    BY <1>1, <1>8 DEF Recheck, At, Excludes, Guarded
  <2>2. CASE holder' = NoDoctor
    <3>1. \E r \in Doing : doctor' = [doctor EXCEPT ![d] = r] /\ r.pc \in {"verify", "rest"}
      <4> DEFINE v == [doctor[d] EXCEPT !.pc = "verify", !.python = "managed"]
                 f == [doctor[d] EXCEPT !.pc = "rest", !.failed = TRUE]
      <4>1. v \in Doing /\ v.pc = "verify" /\ f \in Doing /\ f.pc = "rest"
        BY <1>1 DEF Doing
      <4>2. doctor' = [doctor EXCEPT ![d] = v] \/ doctor' = [doctor EXCEPT ![d] = f]
        BY <1>8, <2>1, <2>2, DoctorAssumption DEF Recheck, Fails
      <4> HIDE DEF v, f
      <4>3. QED
        BY <4>1, <4>2
    <3>2. QED
      BY <1>2, <2>1, <2>2, <3>1 DEF Guarded
  <2>3. CASE holder' = holder /\ env # "whole" /\ Goto(d, IF env = "absent" THEN "build" ELSE "remove")
    <3> DEFINE r == [doctor[d] EXCEPT !.pc = IF env = "absent" THEN "build" ELSE "remove"]
    <3>1. r \in Doing /\ doctor' = [doctor EXCEPT ![d] = r]
      BY <1>1, <2>3 DEF Goto, Doing
    <3> HIDE DEF r
    <3>2. QED
      BY <2>1, <2>3, <3>1, OnlyOwn
  <2>4. QED
    BY <1>8, <2>2, <2>3 DEF Recheck
<1>9. CASE Remove(d)
  <2>1. holder = d /\ env # "whole" /\ env' # "whole" /\ holder' = holder
    BY <1>1, <1>9 DEF Remove, At, Excludes, Guarded
  <2>2. \E r \in Doing : doctor' = [doctor EXCEPT ![d] = r]
    <3>1. CASE UNCHANGED doctor
      <4>1. doctor' = [doctor EXCEPT ![d] = doctor[d]]
        BY <3>1 DEF ProvisionInv
      <4>2. QED
        BY <1>1, <4>1
    <3>2. CASE Goto(d, "build")
      <4>1. [doctor[d] EXCEPT !.pc = "build"] \in Doing
        BY <1>1 DEF Doing
      <4>2. QED
        BY <3>2, <4>1 DEF Goto
    <3>3. QED
      BY <1>9, <3>1, <3>2 DEF Remove
  <2>3. QED
    BY <2>1, <2>2, OnlyOwn
<1>10. CASE Build(d)
  <2>1. holder = d /\ holder' = NoDoctor
    BY <1>1, <1>10 DEF Build, At, Excludes, Guarded
  <2>2. \E r \in Doing : doctor' = [doctor EXCEPT ![d] = r] /\ r.pc \in {"verify", "rest"}
    <3> DEFINE v == [doctor[d] EXCEPT !.pc = "verify", !.python = "managed"]
               f == [doctor[d] EXCEPT !.pc = "rest", !.failed = TRUE]
    <3>1. v \in Doing /\ v.pc = "verify" /\ f \in Doing /\ f.pc = "rest"
      BY <1>1 DEF Doing
    <3>2. doctor' = [doctor EXCEPT ![d] = v] \/ doctor' = [doctor EXCEPT ![d] = f]
      BY <1>10 DEF Build, Fails
    <3> HIDE DEF v, f
    <3>3. QED
      BY <3>1, <3>2
  <2>3. env = "whole" => env' = "whole"
    BY <1>10 DEF Build
  <2>4. QED
    BY <2>1, <2>2, <2>3, OnlyOwn DEF Guarded
<1>11. QED
  BY <1>3, <1>4, <1>5, <1>6, <1>7, <1>8, <1>9, <1>10 DEF DoctorStep

LEMMA ProvisionInit == WorkspacesInit => ProvisionInv
  BY DEF WorkspacesInit, DoctorInit, Idle, ProvisionInv, Doing, Excludes, Guarded

LEMMA ProvisionStep ==
  ASSUME ProvisionInv, [Next]_allVars
  PROVE  ProvisionInv' /\ (env = "whole" => env' \in {"whole", "damaged"})
<1>1. {"task", "operator"} \subseteq Doctors
  BY WorkspacesAssumption
<1>2. CASE UNCHANGED doctorVars
  BY <1>2 DEF doctorVars, ProvisionInv, Excludes
<1>3. CASE \E d \in {"task", "operator"} :
             Examine(d) \/ DoctorStep(d) \/ Collect(d) \/ Die(d) \/ Damage
  BY <1>1, <1>3, DoctorMoves
<1>4. CASE Request \/ Crash \/ Restart \/ Operator \/ Accident
  BY <1>2, <1>3, <1>4 DEF Request, Submit, Cancel, Retry, Clean, Discard, Crash, Restart, Operator,
     Accident
<1>5. CASE Running
  BY <1>2, <1>3, <1>5 DEF Running, Start, Prepare, RecordWorkspace, Work, Inspect, Emptied,
     Examination, Diagnose, Capture, RecordCapture, Resume, InspectReference, Publish, RecordReview,
     CleanUp, Settle
<1>6. QED
  BY <1>2, <1>4, <1>5 DEF Next, allVars

-----------------------------------------------------------------------------
(* The tasks and the thread *)

LEMMA Leaves ==
  ASSUME NEW outcomes \in SUBSET {"failed", "retry", "completed"}, Leave(outcomes)
  PROVE  thread' \in Thread /\ thread'.pc = "settle"
  BY DEF Leave, Thread, Steps

(* The record of one task changes; one that completed is not touched.      *)
LEMMA OneJob ==
  ASSUME TasksFit, NEW t \in Tasks, NEW j \in Job, job' = [job EXCEPT ![t] = j],
         Status(t) # "completed", j.status # "absent" => j.place \in Tasks
  PROVE  /\ job' \in [Tasks -> Job] /\ job'[t] = j
         /\ \A s \in Tasks : s # t => job'[s] = job[s]
         /\ \A s \in Tasks : Status(s)' # "absent" => job'[s].place \in Tasks
         /\ \A s \in Tasks : Status(s) = "completed" => job'[s] = job[s]
  BY DEF TasksFit, Status

(* Open(p): no task that uses the workspace completed.                     *)
Open(p) == \A t \in Tasks : job[t].place = p => Status(t) # "completed"

CompletedStay == \A t \in Tasks : Status(t) = "completed" => job'[t] = job[t]

LEMMA OpenBefore ==
  ASSUME CompletedStay, NEW p \in Tasks, Open(p)'
  PROVE  Open(p)
  BY DEF CompletedStay, Open, Status

(* The record of the running task changes, and it goes on.                 *)
LEMMA RunningJob ==
  ASSUME TasksFit, running # 0, NEW j \in Job, job' = [job EXCEPT ![running] = j],
         running' = running, thread' \in Thread, j.status = "running", j.place = Place
  PROVE  TasksFit' /\ CompletedStay /\ Place' = Place
<1>1. running \in Tasks /\ Status(running) = "running" /\ Place \in Tasks
  BY DEF TasksFit, Place
<1>2. QED
  BY <1>1, OneJob DEF TasksFit, CompletedStay, Status, Place

LEMMA ThreadGoesOn ==
  ASSUME TasksFit, UNCHANGED taskVars, thread' \in Thread, running # 0 \/ thread'.pc = "off"
  PROVE  TasksFit' /\ CompletedStay /\ Place' = Place
  BY DEF TasksFit, CompletedStay, Status, Place, taskVars

(* settle, and the recovery of a task whose daemon died.                   *)
LEMMA FinishFits ==
  ASSUME TasksFit, running # 0, NEW status \in {"pending", "failed", "completed"}, Finish(status)
  PROVE  /\ TasksFit' /\ CompletedStay /\ thread'.pc = "off"
         /\ job'[running].status = status /\ job'[running].place = Place
<1>1. running \in Tasks /\ Status(running) = "running" /\ job[running] \in Job /\ Place \in Tasks
  BY DEF TasksFit, Place
<1> DEFINE j == [job[running] EXCEPT !.status = status]
<1>2. j \in Job /\ j.status = status /\ j.place = Place /\ job' = [job EXCEPT ![running] = j]
  BY <1>1 DEF Job, Finish, Place
<1> HIDE DEF j
<1>3. running' = 0 /\ thread' = Off /\ Off \in Thread /\ Off.pc = "off"
  BY DEF Finish, Off, Thread, Steps
<1>4. /\ job' \in [Tasks -> Job] /\ job'[running] = j
      /\ \A s \in Tasks : Status(s)' # "absent" => job'[s].place \in Tasks
      /\ \A s \in Tasks : Status(s) = "completed" => job'[s] = job[s]
  BY <1>1, <1>2, OneJob
<1>5. TasksFit'
  BY <1>3, <1>4 DEF TasksFit
<1>6. CompletedStay
  BY <1>4 DEF CompletedStay
<1>7. QED
  BY <1>2, <1>3, <1>4, <1>5, <1>6 DEF Status

(* Requests and the start of a task.                                       *)
LEMMA RequestTasks ==
  ASSUME TasksFit, Request
  PROVE  TasksFit' /\ CompletedStay /\ thread' = thread /\ (running # 0 => Place' = Place)
<1>1. UNCHANGED <<running, thread>>
  BY DEF Request, Submit, Cancel, Retry, Clean, Discard, taskVars
<1>2. ASSUME NEW t \in Tasks, NEW j \in Job, job' = [job EXCEPT ![t] = j],
             Status(t) \notin {"completed", "running"}, j.status # "absent", j.place \in Tasks
      PROVE  TasksFit' /\ CompletedStay /\ thread' = thread /\ (running # 0 => Place' = Place)
  <2>1. /\ job' \in [Tasks -> Job]
        /\ \A s \in Tasks : s # t => job'[s] = job[s]
        /\ \A s \in Tasks : Status(s)' # "absent" => job'[s].place \in Tasks
    BY <1>2, OneJob
  <2>2. CompletedStay
    BY <1>2, OneJob DEF CompletedStay
  <2>3. running # 0 => job'[running] = job[running]
    BY <1>2, <2>1 DEF TasksFit
  <2>4. TasksFit'
    BY <1>1, <2>1, <2>3 DEF TasksFit, Status
  <2>5. QED
    BY <1>1, <2>2, <2>3, <2>4 DEF Place
<1>3. ASSUME NEW t \in Tasks, Submit(t) PROVE TasksFit' /\ CompletedStay /\ thread' = thread /\ (running # 0 => Place' = Place)
  <2>1. PICK kind \in Kinds :
          job' = [job EXCEPT ![t] = [NoTask EXCEPT !.status = "pending", !.kind = kind, !.place = t]]
    BY <1>3 DEF Submit
  <2> DEFINE j == [NoTask EXCEPT !.status = "pending", !.kind = kind, !.place = t]
  <2>2. j \in Job /\ j.status = "pending" /\ j.place = t
    BY WorkspacesAssumption DEF NoTask, Job
  <2> HIDE DEF j
  <2>3. Status(t) = "absent"
    BY <1>3 DEF Submit, Fresh
  <2>4. job' = [job EXCEPT ![t] = j]
    BY <2>1 DEF j
  <2>5. QED
    BY <1>2, <2>2, <2>3, <2>4
<1>4. ASSUME NEW t \in Tasks, Cancel(t) PROVE TasksFit' /\ CompletedStay /\ thread' = thread /\ (running # 0 => Place' = Place)
  <2> DEFINE j == [job[t] EXCEPT !.status = "cancelled"]
  <2>1. job[t] \in Job /\ Status(t) = "pending" /\ job[t].place \in Tasks
    BY <1>4 DEF TasksFit, Cancel
  <2>2. j \in Job /\ j.status = "cancelled" /\ j.place = job[t].place /\ job' = [job EXCEPT ![t] = j]
    BY <1>4, <2>1 DEF Job, Cancel
  <2> HIDE DEF j
  <2>3. QED
    BY <1>2, <2>1, <2>2
<1>5. ASSUME NEW t \in Tasks, NEW s \in Tasks, Retry(t, s)
      PROVE  TasksFit' /\ CompletedStay /\ thread' = thread /\ (running # 0 => Place' = Place)
  <2> DEFINE old == [job[s] EXCEPT !.retried = TRUE]
             j == [job[s] EXCEPT !.status = "pending", !.attempt = 0, !.result = FALSE,
                                 !.place = IF job[s].recorded THEN @ ELSE t]
  <2>1. job[s] \in Job /\ Status(s) = "failed" /\ job[s].place \in Tasks /\ Status(t) = "absent" /\ t # s
    BY <1>5 DEF TasksFit, Retry, Fresh
  <2>2. old \in Job /\ old.status = Status(s) /\ old.place = job[s].place
    BY <2>1 DEF Job, Status
  <2>3. j \in Job /\ j.status = "pending" /\ j.place \in Tasks
    BY <2>1 DEF Job
  <2>4. job' = [job EXCEPT ![s] = old, ![t] = j]
    BY <1>5 DEF Retry
  <2> HIDE DEF old, j
  <2>5. /\ job' \in [Tasks -> Job] /\ job'[s] = old /\ job'[t] = j
        /\ \A u \in Tasks : u # s /\ u # t => job'[u] = job[u]
    BY <2>1, <2>2, <2>3, <2>4 DEF TasksFit
  <2>6. \A u \in Tasks : job'[u].status # "absent" => job'[u].place \in Tasks
    BY <2>1, <2>2, <2>3, <2>5 DEF TasksFit, Status
  <2>7. CompletedStay
    BY <2>1, <2>5 DEF CompletedStay
  <2>8. running # 0 => job'[running].status = "running" /\ job'[running] = job[running]
    BY <2>1, <2>5 DEF TasksFit, Status
  <2>9. running # 0 => Place' = Place
    BY <1>1, <2>8 DEF Place
  <2>10. TasksFit'
    BY <1>1, <2>5, <2>6, <2>8 DEF TasksFit, Status
  <2>11. QED
    BY <1>1, <2>7, <2>9, <2>10
<1>6. ASSUME UNCHANGED taskVars PROVE TasksFit' /\ CompletedStay /\ thread' = thread /\ (running # 0 => Place' = Place)
  BY <1>1, <1>6, ThreadGoesOn DEF TasksFit
<1>7. QED
  BY <1>3, <1>4, <1>5, <1>6 DEF Request, Clean, Discard

LEMMA StartTasks ==
  ASSUME TasksFit, NEW t \in Tasks, Start(t)
  PROVE  TasksFit' /\ CompletedStay /\ thread'.pc \in {"settle", "resume", "prepare"}
<1> DEFINE j == [job[t] EXCEPT !.status = "running", !.attempt = job[t].attempt + 1]
<1>1. job[t] \in Job /\ Status(t) = "pending" /\ job[t].place \in Tasks
  BY DEF TasksFit, Start
<1>2. j \in Job /\ j.status = "running" /\ j.place = job[t].place
  <2>1. job[t].attempt + 1 \in Nat
    <3>1. job[t].attempt \in Nat
      BY <1>1 DEF Job
    <3>2. QED
      BY <3>1
  <2>2. ASSUME NEW n \in Nat
        PROVE  LET k == [job[t] EXCEPT !.status = "running", !.attempt = n]
               IN  k \in Job /\ k.status = "running" /\ k.place = job[t].place
    BY <1>1 DEF Job
  <2>3. QED
    BY <2>1, <2>2
<1>6. job' = [job EXCEPT ![t] = j]
  <2>1. job' = [job EXCEPT ![t].status = "running", ![t].attempt = @ + 1]
    BY DEF Start
  <2>2. QED
    BY <1>1, <2>1 DEF TasksFit, Job
<1> HIDE DEF j
<1>3. running' = t /\ thread' \in Thread /\ thread'.pc \in {"settle", "resume", "prepare"}
  BY DEF Start, Entry, Off, Thread, Steps
<1>4. /\ job' \in [Tasks -> Job] /\ job'[t] = j
      /\ \A s \in Tasks : Status(s)' # "absent" => job'[s].place \in Tasks
      /\ \A s \in Tasks : Status(s) = "completed" => job'[s] = job[s]
  BY <1>1, <1>2, <1>6, OneJob
<1>5. TasksFit'
  <2>1. t # 0 /\ job'[t].status = "running"
    BY <1>2, <1>4, WorkspacesAssumption DEF Tasks
  <2>2. QED
    BY <1>3, <1>4, <2>1 DEF TasksFit, Status
<1>7. QED
  BY <1>3, <1>4, <1>5 DEF CompletedStay

-----------------------------------------------------------------------------
(* The workspaces *)

Safe(p) == space[p] = "dirty" \/ branch[p] = "change" \/ p \in published
Loses(p) == ~(edits'[p] = "made" => edits[p] = "made" /\ (Safe(p) => Safe(p)')) /\ ~Safe(p)'

(* What was done is kept by a step that loses none of it, or only that of  *)
(* a workspace whose task completed.                                       *)
LEMMA Keeps ==
  ASSUME SpacesInv, CompletedStay, NEW p \in Tasks, ~Loses(p) \/ ~Open(p)'
  PROVE  edits'[p] = "made" /\ Open(p)' => Safe(p)'
<1>1. edits[p] = "made" /\ Open(p) => Safe(p)
  BY DEF SpacesInv, WorkKept, Open, Safe
<1>2. Open(p)' => Open(p)
  BY OpenBefore
<1>3. QED
  BY <1>1, <1>2 DEF Loses

LEMMA KeepsAll ==
  ASSUME SpacesInv, CompletedStay, \A p \in Tasks : ~Loses(p) \/ ~Open(p)'
  PROVE  WorkKept'
<1>1. ASSUME NEW p \in Tasks PROVE edits'[p] = "made" /\ Open(p)' => Safe(p)'
  BY Keeps
<1>2. QED
  BY <1>1 DEF WorkKept, Open, Safe

LEMMA Untouched ==
  ASSUME UNCHANGED repository
  PROVE  \A p \in Tasks : ~Loses(p)
  BY DEF repository, Loses, Safe

(* A workspace changes.                                                    *)
LEMMA OneSpace ==
  ASSUME RepositoryFits, NEW p \in Tasks, UNCHANGED <<published, edits>>,
         NEW sp \in {"absent", "clean", "dirty"}, NEW br \in {"absent", "base", "change"},
         space' = [space EXCEPT ![p] = sp], branch' = [branch EXCEPT ![p] = br]
  PROVE  /\ RepositoryFits' /\ space'[p] = sp /\ branch'[p] = br
         /\ \A q \in Tasks : q # p => ~Loses(q) /\ space'[q] = space[q]
         /\ (Safe(p) => sp = "dirty" \/ br = "change" \/ p \in published) => ~Loses(p)
         /\ edits[p] # "made" => ~Loses(p)
  BY DEF RepositoryFits, Loses, Safe

(* Between requests only an idle workspace goes, and its branch with it    *)
(* only if nothing is lost, or if a person said so.                        *)
LEMMA RequestKeeps ==
  ASSUME SpacesInv, Request
  PROVE  RepositoryFits' /\ (\A p \in Tasks : ~Loses(p)) /\ \A p \in Tasks : space'[p] \in {space[p], "absent"}
<1>1. RepositoryFits
  BY DEF SpacesInv
<1>2. CASE UNCHANGED repository
  BY <1>1, <1>2, Untouched DEF repository, RepositoryFits
<1>3. ASSUME NEW t \in Tasks, Submit(t)
      PROVE  RepositoryFits' /\ (\A p \in Tasks : ~Loses(p)) /\ space' = space
  <2>1. PICK kind \in Kinds :
          /\ branch' = [branch EXCEPT ![t] = IF kind = "reference" THEN "change" ELSE @]
          /\ edits' = [edits EXCEPT ![t] = IF kind = "reference" THEN "made" ELSE @]
          /\ UNCHANGED <<space, published>>
    BY <1>3 DEF Submit
  <2>2. QED
    BY <1>1, <2>1 DEF RepositoryFits, Loses, Safe
<1>4. ASSUME NEW q \in Tasks, Clean(q)
      PROVE  RepositoryFits' /\ (\A p \in Tasks : ~Loses(p)) /\ \A p \in Tasks : space'[p] \in {space[p], "absent"}
  <2>1. /\ space[q] = "clean" /\ space' = [space EXCEPT ![q] = "absent"]
        /\ UNCHANGED <<published, edits>>
        /\ \/ (branch[q] = "change" => q \in published) /\ branch' = [branch EXCEPT ![q] = "absent"]
           \/ branch[q] = "change" /\ UNCHANGED branch
    BY <1>4 DEF Clean
  <2>2. CASE UNCHANGED branch
    BY <1>1, <2>1, <2>2 DEF RepositoryFits, Loses, Safe
  <2>3. CASE (branch[q] = "change" => q \in published) /\ branch' = [branch EXCEPT ![q] = "absent"]
    <3>1. Safe(q) => q \in published
      BY <2>1, <2>3 DEF Safe
    <3>2. QED
      BY <1>1, <2>1, <2>3, <3>1, OneSpace
  <2>4. QED
    BY <2>1, <2>2, <2>3
<1>5. ASSUME NEW q \in Tasks, Discard(q)
      PROVE  RepositoryFits' /\ (\A p \in Tasks : ~Loses(p)) /\ \A p \in Tasks : space'[p] \in {space[p], "absent"}
  BY <1>1, <1>5 DEF Discard, RepositoryFits, Loses, Safe
<1>6. QED
  BY <1>1, <1>2, <1>3, <1>4, <1>5 DEF Request, Cancel, Retry, repository, RepositoryFits

(* The workspace of a task that ends goes with its branch only if it       *)
(* completed.                                                              *)
LEMMA FinishKeeps ==
  ASSUME SpacesInv, running # 0, NEW status \in {"pending", "failed", "completed"}, Finish(status)
  PROVE  SpacesInv'
<1>1. TasksFit /\ RepositoryFits /\ running \in Tasks /\ Place \in Tasks
  BY DEF SpacesInv, TasksFit, Place
<1>2. /\ TasksFit' /\ CompletedStay /\ thread'.pc = "off"
      /\ job'[running].status = status /\ job'[running].place = Place
  BY <1>1, FinishFits
<1>3. /\ RepositoryFits'
      /\ \A p \in Tasks : ~Loses(p) \/ (p = Place /\ status = "completed")
  <2>1. UNCHANGED <<published, edits>>
    BY DEF Finish
  <2>2. CASE UNCHANGED <<space, branch>>
    BY <1>1, <2>1, <2>2, Untouched DEF repository, RepositoryFits
  <2>3. CASE /\ status = "completed" /\ space' = [space EXCEPT ![Place] = "absent"]
             /\ branch' = [branch EXCEPT ![Place] = "absent"]
    BY <1>1, <2>1, <2>3, OneSpace
  <2>4. QED
    BY <2>2, <2>3 DEF Finish, Tidy, Place
<1>4. ASSUME NEW q \in Tasks, q = Place, status = "completed" PROVE ~Open(q)'
  <2>1. job'[running].place = q /\ job'[running].status = "completed"
    BY <1>2, <1>4
  <2>2. QED
    BY <1>1, <2>1 DEF Open, Status
<1>5. \A p \in Tasks : ~Loses(p) \/ ~Open(p)'
  BY <1>3, <1>4
<1>6. Committed'
  BY <1>2 DEF Committed, Handover
<1>7. QED
  BY <1>2, <1>3, <1>5, <1>6, KeepsAll DEF SpacesInv

(* The thread goes on, and the workspace is as it was, *)
LEMMA ThreadKeeps ==
  ASSUME SpacesInv, running # 0, UNCHANGED <<taskVars, repository>>, thread' \in Thread,
         thread'.pc \in Handover => space[Place] # "dirty"
  PROVE  SpacesInv'
<1>1. TasksFit' /\ CompletedStay /\ Place' = Place
  BY ThreadGoesOn DEF SpacesInv
<1>2. RepositoryFits' /\ Committed'
  BY <1>1 DEF SpacesInv, RepositoryFits, Committed, repository
<1>3. QED
  BY <1>1, <1>2, Untouched, KeepsAll DEF SpacesInv

(* or it changes, *)
LEMMA SpaceKeeps ==
  ASSUME SpacesInv, running # 0, UNCHANGED <<taskVars, published, edits>>, thread' \in Thread,
         NEW sp \in {"absent", "clean", "dirty"}, NEW br \in {"absent", "base", "change"},
         space' = [space EXCEPT ![Place] = sp], branch' = [branch EXCEPT ![Place] = br],
         thread'.pc \in Handover => sp # "dirty",
         Safe(Place) => sp = "dirty" \/ br = "change" \/ Place \in published
  PROVE  SpacesInv'
<1>1. TasksFit' /\ CompletedStay /\ Place' = Place
  BY ThreadGoesOn DEF SpacesInv
<1>2. Place \in Tasks
  BY DEF SpacesInv, TasksFit, Place
<1>3. /\ RepositoryFits' /\ space'[Place] = sp
      /\ \A p \in Tasks : ~Loses(p)
  BY <1>2, OneSpace DEF SpacesInv
<1>4. Committed'
  BY <1>1, <1>3 DEF Committed
<1>5. QED
  BY <1>1, <1>3, <1>4, KeepsAll DEF SpacesInv

(* or the queue is told of a stage.                                        *)
LEMMA RecordKeeps ==
  ASSUME SpacesInv, running # 0, UNCHANGED <<repository, running>>, thread' \in Thread,
         NEW j \in Job, job' = [job EXCEPT ![running] = j], j.status = "running", j.place = Place,
         thread'.pc \in Handover => space[Place] # "dirty"
  PROVE  SpacesInv'
<1>1. TasksFit' /\ CompletedStay /\ Place' = Place
  BY RunningJob DEF SpacesInv
<1>2. RepositoryFits' /\ Committed'
  BY <1>1 DEF SpacesInv, RepositoryFits, Committed, repository
<1>3. QED
  BY <1>1, <1>2, Untouched, KeepsAll DEF SpacesInv

LEMMA RunningStep ==
  ASSUME SpacesInv, remote \in BOOLEAN, Running
  PROVE  SpacesInv'
<1>1. TasksFit /\ RepositoryFits /\ Committed
  BY DEF SpacesInv
<1>2. ASSUME thread.pc # "off"
      PROVE  /\ running # 0 /\ running \in Tasks /\ Place \in Tasks /\ job[running] \in Job
             /\ job[running].status = "running" /\ thread \in Thread
             /\ space[Place] \in {"absent", "clean", "dirty"}
             /\ branch[Place] \in {"absent", "base", "change"}
             /\ space = [space EXCEPT ![Place] = space[Place]]
             /\ branch = [branch EXCEPT ![Place] = branch[Place]]
  <2>1. running \in Tasks /\ running # 0 /\ Status(running) = "running"
    BY <1>1, <1>2 DEF TasksFit
  <2>2. Place \in Tasks /\ job[running] \in Job /\ thread \in Thread
    BY <1>1, <2>1 DEF TasksFit, Place
  <2>3. QED
    BY <1>1, <2>1, <2>2 DEF RepositoryFits, Status
<1>3. ASSUME NEW t \in Tasks, Start(t) PROVE SpacesInv'
  <2>1. TasksFit' /\ CompletedStay /\ thread'.pc \notin Handover
    BY <1>1, <1>3, StartTasks DEF Handover
  <2>2. UNCHANGED repository
    BY <1>3 DEF Start
  <2>3. RepositoryFits' /\ Committed'
    BY <1>1, <2>1, <2>2 DEF RepositoryFits, Committed, repository
  <2>4. QED
    BY <2>1, <2>2, <2>3, Untouched, KeepsAll DEF SpacesInv
<1>4. CASE Prepare
  <2>1. running # 0 /\ thread \in Thread /\ UNCHANGED <<taskVars, published, edits>>
    BY <1>2, <1>4 DEF Prepare, Here
  <2>2. CASE UNCHANGED <<space, branch>>
    <3>1. thread' \in Thread /\ thread'.pc \in {"prepared", "settle"}
      <4>1. Leave(Bad) => thread' \in Thread /\ thread'.pc = "settle"
        BY Leaves DEF Bad
      <4>2. Step("prepared") => thread' \in Thread /\ thread'.pc = "prepared"
        BY <2>1 DEF Step, Thread, Steps
      <4>3. QED
        BY <1>4, <4>1, <4>2 DEF Prepare
    <3>2. QED
      BY <2>1, <2>2, <3>1, ThreadKeeps DEF Handover, repository
  <2>3. CASE /\ Step("prepared") /\ space[Place] = "absent"
             /\ space' = [space EXCEPT ![Place] = "clean"]
             /\ branch' = [branch EXCEPT ![Place] = IF @ = "absent" THEN "base" ELSE @]
    <3> DEFINE br == IF branch[Place] = "absent" THEN "base" ELSE branch[Place]
    <3>1. /\ br \in {"absent", "base", "change"} /\ branch' = [branch EXCEPT ![Place] = br]
          /\ branch[Place] = "change" => br = "change"
      BY <1>2, <1>4, <2>3 DEF Prepare, Here
    <3> HIDE DEF br
    <3>2. thread' \in Thread /\ thread'.pc = "prepared"
      BY <2>1, <2>3 DEF Step, Thread, Steps
    <3>3. Safe(Place) => br = "change" \/ Place \in published
      BY <2>3, <3>1 DEF Safe
    <3>4. QED
      BY <2>1, <2>3, <3>1, <3>2, <3>3, SpaceKeeps DEF Handover
  <2>4. QED
    BY <1>4, <2>2, <2>3 DEF Prepare
<1>5. CASE RecordWorkspace
  <2> DEFINE j == [job[running] EXCEPT !.recorded = TRUE]
  <2>1. running # 0 /\ thread \in Thread /\ job[running] \in Job /\ job[running].status = "running"
    BY <1>2, <1>5 DEF RecordWorkspace, Here
  <2>2. j \in Job /\ j.status = "running" /\ j.place = Place /\ job' = [job EXCEPT ![running] = j]
    BY <1>5, <2>1 DEF RecordWorkspace, Job, Place
  <2> HIDE DEF j
  <2>3. thread' \in Thread /\ thread'.pc \in {"inspect reference", "work"}
    BY <1>5, <2>1 DEF RecordWorkspace, Step, Thread, Steps
  <2>4. QED
    BY <1>5, <2>1, <2>2, <2>3, RecordKeeps DEF RecordWorkspace, Handover
<1>6. CASE Work
  <2>1. /\ running # 0 /\ thread \in Thread /\ UNCHANGED <<taskVars, published>> /\ Place \in Tasks
    BY <1>2, <1>6 DEF Work, Here
  <2>2. thread' \in Thread /\ thread'.pc \in {"inspect", "settle"}
    <3>1. Leave(Bad) => thread' \in Thread /\ thread'.pc = "settle"
      BY Leaves DEF Bad
    <3>2. Step("inspect") => thread' \in Thread /\ thread'.pc = "inspect"
      BY <2>1 DEF Step, Thread, Steps
    <3>3. QED
      BY <1>6, <3>1, <3>2 DEF Work
  <2>3. CASE UNCHANGED <<space, branch, edits>>
    BY <2>1, <2>2, <2>3, ThreadKeeps DEF Handover, repository
  <2>4. CASE /\ edits' = [edits EXCEPT ![Place] = "made"]
             /\ \/ space' = [space EXCEPT ![Place] = "dirty"] /\ UNCHANGED branch
                \/ /\ space' = [space EXCEPT ![Place] = "clean"]
                   /\ branch' = [branch EXCEPT ![Place] = "change"]
    <3>1. TasksFit' /\ CompletedStay
      BY <1>1, <2>1, <2>2, ThreadGoesOn
    <3>2. RepositoryFits' /\ \A p \in Tasks : ~Loses(p)
      BY <1>1, <2>1, <2>4 DEF RepositoryFits, Loses, Safe
    <3>3. Committed'
      BY <2>2 DEF Committed, Handover
    <3>4. QED
      BY <3>1, <3>2, <3>3, KeepsAll DEF SpacesInv
  <2>5. QED
    BY <1>6, <2>3, <2>4 DEF Work
<1>7. CASE Inspect \/ Examination \/ Diagnose \/ Resume \/ InspectReference
  <2>1. /\ running # 0 \/ Examination
        /\ thread \in Thread /\ UNCHANGED <<taskVars, repository>>
    <3>1. CASE Examination
      BY <1>1, <3>1 DEF Examination, spaceVars, TasksFit
    <3>2. CASE ~Examination
      <4>1. thread.pc # "off" /\ UNCHANGED <<taskVars, repository>>
        BY <1>7, <3>2 DEF Inspect, Diagnose, Resume, InspectReference, Here
      <4>2. QED
        BY <1>2, <4>1
    <3>3. QED
      BY <3>1, <3>2
  <2>2. CASE UNCHANGED thread
    <3>1. TasksFit' /\ CompletedStay /\ Place' = Place
      BY <1>1, <2>1, <2>2, ThreadGoesOn DEF TasksFit
    <3>2. RepositoryFits' /\ Committed'
      BY <1>1, <2>1, <2>2, <3>1 DEF RepositoryFits, Committed, repository
    <3>3. QED
      BY <2>1, <3>1, <3>2, Untouched, KeepsAll DEF SpacesInv
  <2>3. CASE Leave({"failed"}) \/ Leave({"retry"}) \/ Leave(Bad)
    <3>1. thread' \in Thread /\ thread'.pc = "settle"
      BY <2>3, Leaves DEF Bad
    <3>2. QED
      BY <1>7, <2>1, <2>2, <3>1, ThreadKeeps DEF Handover, Examination, spaceVars
  <2>4. CASE \E to \in {"doctor", "emptied", "capture", "publish", "clean up"} :
               Step(to) /\ (to \in Handover => space[Place] = "clean")
    <3>1. PICK to \in {"doctor", "emptied", "capture", "publish", "clean up"} :
            Step(to) /\ (to \in Handover => space[Place] = "clean")
      BY <2>4
    <3>2. thread' \in Thread /\ thread'.pc = to
      BY <2>1, <3>1 DEF Step, Thread, Steps
    <3>3. QED
      BY <1>7, <2>1, <2>2, <3>1, <3>2, ThreadKeeps DEF Examination, spaceVars
  <2>5. QED
    BY <1>7, <2>2, <2>3, <2>4 DEF Inspect, Examination, Diagnose, Resume, InspectReference, Handover, spaceVars
<1>8. CASE Emptied \/ CleanUp
  <2>1. /\ running # 0 /\ thread.pc \in Handover /\ UNCHANGED <<taskVars, branch, published, edits>>
    BY <1>2, <1>8 DEF Emptied, CleanUp, Here, Handover
  <2>2. thread' \in Thread /\ thread'.pc = "settle"
    BY <1>8, Leaves DEF Emptied, CleanUp
  <2>3. CASE UNCHANGED space
    BY <2>1, <2>2, <2>3, ThreadKeeps DEF Handover, repository
  <2>4. CASE space' = [space EXCEPT ![Place] = "absent"]
    <3>1. Safe(Place) => branch[Place] = "change" \/ Place \in published
      BY <1>1, <2>1 DEF Committed, Safe
    <3>2. branch' = [branch EXCEPT ![Place] = branch[Place]] /\ branch[Place] \in {"absent", "base", "change"}
      BY <1>2, <1>8, <2>1 DEF Emptied, CleanUp, Here
    <3>3. QED
      BY <2>1, <2>2, <2>4, <3>1, <3>2, SpaceKeeps
  <2>5. QED
    BY <1>8, <2>3, <2>4 DEF Emptied, CleanUp
<1>9. CASE Capture
  <2>1. running # 0 /\ thread \in Thread /\ UNCHANGED <<taskVars, published, edits>>
    BY <1>2, <1>9 DEF Capture, Here
  <2>2. CASE Leave(Bad) /\ UNCHANGED <<space, branch>>
    <3>1. thread' \in Thread /\ thread'.pc = "settle"
      BY <2>2, Leaves DEF Bad
    <3>2. QED
      BY <2>1, <2>2, <3>1, ThreadKeeps DEF Handover, repository
  <2>3. CASE /\ Step("captured") /\ space' = [space EXCEPT ![Place] = "clean"]
             /\ branch' = [branch EXCEPT ![Place] = "change"]
    <3>1. thread' \in Thread
      BY <2>1, <2>3 DEF Step, Thread, Steps
    <3>2. QED
      BY <2>1, <2>3, <3>1, SpaceKeeps
  <2>4. QED
    BY <1>9, <2>2, <2>3 DEF Capture
<1>10. CASE RecordCapture \/ RecordReview
  <2>1. /\ running # 0 /\ thread \in Thread /\ job[running] \in Job /\ space[Place] # "dirty"
        /\ job[running].status = "running" /\ UNCHANGED <<repository, running>>
    BY <1>1, <1>2, <1>10 DEF RecordCapture, RecordReview, Here, Committed, Handover
  <2>2. thread' \in Thread
    <3>1. \A to \in {"publish", "clean up", "hand over"} : Step(to) => thread' \in Thread
      BY <2>1 DEF Step, Thread, Steps
    <3>2. QED
      BY <1>10, <3>1, Leaves DEF RecordCapture, RecordReview
  <2>3. \E j \in Job : job' = [job EXCEPT ![running] = j] /\ j.status = "running" /\ j.place = Place
    <3>1. CASE RecordCapture
      <4> DEFINE j == [job[running] EXCEPT !.stage = "captured"]
      <4>1. j \in Job /\ j.status = "running" /\ j.place = Place /\ job' = [job EXCEPT ![running] = j]
        BY <2>1, <3>1 DEF RecordCapture, Job, Place
      <4> HIDE DEF j
      <4>2. QED
        BY <4>1
    <3>2. CASE RecordReview
      <4> DEFINE j == [job[running] EXCEPT !.stage = "review_published", !.review = remote,
                                           !.result = remote]
      <4>1. j \in Job /\ j.status = "running" /\ j.place = Place /\ job' = [job EXCEPT ![running] = j]
        BY <2>1, <3>2 DEF RecordReview, Job, Place
      <4> HIDE DEF j
      <4>2. QED
        BY <4>1
    <3>3. QED
      BY <1>10, <3>1, <3>2
  <2>4. QED
    BY <2>1, <2>2, <2>3, RecordKeeps
<1>11. CASE Publish
  <2>1. /\ running # 0 /\ thread \in Thread /\ Place \in Tasks /\ space[Place] # "dirty"
        /\ UNCHANGED <<taskVars, space, branch, edits>>
        /\ published' = published \/ published' = published \union {Place}
    BY <1>1, <1>2, <1>11 DEF Publish, Here, Committed, Handover
  <2>2. thread' \in Thread
    <3>1. Step("published") => thread' \in Thread
      BY <2>1 DEF Step, Thread, Steps
    <3>2. QED
      BY <1>11, <3>1, Leaves DEF Publish, Bad
  <2>3. TasksFit' /\ CompletedStay /\ Place' = Place
    BY <1>1, <2>1, <2>2, ThreadGoesOn
  <2>4. RepositoryFits' /\ Committed' /\ \A p \in Tasks : ~Loses(p)
    BY <1>1, <2>1, <2>3 DEF RepositoryFits, Committed, Loses, Safe
  <2>5. QED
    BY <2>3, <2>4, KeepsAll DEF SpacesInv
<1>12. CASE Settle
  <2> DEFINE status == IF thread.outcome = "retry" THEN Again ELSE thread.outcome
  <2>1. running # 0 /\ thread \in Thread /\ thread.pc = "settle" /\ Finish(status)
    BY <1>2, <1>12 DEF Settle, Here
  <2>2. status \in {"pending", "failed", "completed"}
    BY <2>1 DEF Again, Thread
  <2> HIDE DEF status
  <2>3. QED
    BY <2>1, <2>2, FinishKeeps
<1>13. QED
  BY <1>3, <1>4, <1>5, <1>6, <1>7, <1>8, <1>9, <1>10, <1>11, <1>12 DEF Running

-----------------------------------------------------------------------------
(* What holds in every state, and of every step *)

KeptInv == SpacesInv /\ remote \in BOOLEAN

LEMMA SpacesInit == WorkspacesInit => KeptInv
<1> SUFFICES ASSUME WorkspacesInit PROVE KeptInv
  OBVIOUS
<1>1. NoTask \in Job /\ NoTask.status = "absent" /\ Off \in Thread /\ Off.pc = "off"
  BY DEF NoTask, Job, Off, Thread, Steps
<1>2. TasksFit
  BY <1>1 DEF WorkspacesInit, TasksFit, Status
<1>3. RepositoryFits /\ WorkKept /\ remote \in BOOLEAN
  BY WorkspacesAssumption DEF WorkspacesInit, RepositoryFits, WorkKept
<1>4. Committed
  BY <1>1 DEF WorkspacesInit, Committed, Handover
<1>5. QED
  BY <1>2, <1>3, <1>4 DEF KeptInv, SpacesInv

LEMMA SpacesStep == ASSUME KeptInv, [Next]_allVars PROVE KeptInv'
<1>1. SpacesInv /\ TasksFit /\ RepositoryFits /\ Committed /\ remote' = remote
  BY DEF KeptInv, SpacesInv, Next, allVars, spaceVars
<1>2. CASE Request
  <2>1. TasksFit' /\ CompletedStay /\ thread' = thread /\ (running # 0 => Place' = Place)
    BY <1>1, <1>2, RequestTasks
  <2>2. /\ RepositoryFits' /\ \A p \in Tasks : ~Loses(p)
        /\ \A p \in Tasks : space'[p] \in {space[p], "absent"}
    BY <1>1, <1>2, RequestKeeps
  <2>3. Committed'
    <3>1. thread.pc \in Handover => running # 0 /\ Place \in Tasks
      BY <1>1 DEF TasksFit, Handover, Place, Status
    <3>2. QED
      BY <1>1, <2>1, <2>2, <3>1 DEF Committed
  <2>4. QED
    BY <1>1, <2>1, <2>2, <2>3, KeepsAll DEF SpacesInv, KeptInv
<1>3. CASE Running
  BY <1>1, <1>3, RunningStep DEF KeptInv
<1>4. ASSUME UNCHANGED <<taskVars, repository>>, thread' = thread \/ thread' = Off
      PROVE  SpacesInv'
  <2>1. Off \in Thread /\ Off.pc = "off"
    BY DEF Off, Thread, Steps
  <2>2. TasksFit'
    BY <1>1, <1>4, <2>1 DEF TasksFit, taskVars, Status
  <2>3. CompletedStay /\ RepositoryFits' /\ Committed'
    BY <1>1, <1>4, <2>1 DEF CompletedStay, RepositoryFits, repository, Committed, Handover, taskVars, Place
  <2>4. QED
    BY <1>1, <1>4, <2>2, <2>3, Untouched, KeepsAll DEF SpacesInv
<1>5. CASE Crash \/ Operator \/ Accident \/ UNCHANGED allVars
  <2>1. UNCHANGED <<taskVars, repository>> /\ (thread' = thread \/ thread' = Off)
    BY <1>5 DEF Crash, Operator, Accident, allVars, spaceVars
  <2>2. QED
    BY <1>1, <1>4, <2>1 DEF KeptInv
<1>6. CASE Restart
  <2>1. CASE running = 0
    BY <1>1, <1>4, <1>6, <2>1 DEF Restart, KeptInv
  <2>2. CASE running # 0
    <3> DEFINE status == IF job[running].stage = "review_published" THEN "completed" ELSE Again
    <3>1. status \in {"pending", "failed", "completed"} /\ Finish(status)
      BY <1>6, <2>2 DEF Restart, Again
    <3> HIDE DEF status
    <3>2. QED
      BY <1>1, <2>2, <3>1, FinishKeeps DEF KeptInv
  <2>3. QED
    BY <2>1, <2>2
<1>7. QED
  BY <1>2, <1>3, <1>5, <1>6 DEF Next

(* The invariant of the tasks and their workspaces.                        *)
THEOREM SpacesCorrect == WorkspacesSpec => []SpacesInv
<1>1. KeptInv => SpacesInv
  BY DEF KeptInv
<1>2. QED
  BY <1>1, SpacesInit, SpacesStep, PTL DEF WorkspacesSpec

(* What a task did in a workspace is there, on its branch or in a review   *)
(* until a task that uses the workspace completes: no crash, retry,        *)
(* cancellation or cleanup of anyone loses it.                             *)
THEOREM WorkKeptCorrect == WorkspacesSpec => []WorkKept
<1>1. SpacesInv => WorkKept
  BY DEF SpacesInv
<1>2. QED
  BY <1>1, SpacesCorrect, PTL

(* A workspace that is about to be removed by force holds nothing that is  *)
(* not on its branch.                                                      *)
THEOREM CommittedCorrect == WorkspacesSpec => []Committed
<1>1. SpacesInv => Committed
  BY DEF SpacesInv
<1>2. QED
  BY <1>1, SpacesCorrect, PTL

(* Only the holder of the lock .provision builds or removes, and what it   *)
(* removes it found unfit while it held it.                                *)
THEOREM ProvisionCorrect == WorkspacesSpec => []ProvisionInv
  BY ProvisionInit, ProvisionStep, PTL DEF WorkspacesSpec

(* A whole environment is never removed by Ruth, whoever runs tests in it. *)
THEOREM TestsCorrect == WorkspacesSpec => TestsUndisturbed
<1>1. ProvisionInv /\ [Next]_allVars
        => [(\E d \in Doctors : InUse(d)) /\ env = "whole" => env' \in {"whole", "damaged"}]_doctorVars
  BY ProvisionStep
<1>2. QED
  BY <1>1, ProvisionCorrect, PTL DEF WorkspacesSpec, TestsUndisturbed
=============================================================================
