----------------------------- MODULE Workspaces -----------------------------
(***************************************************************************)
(* The workspaces of tasks (tasks/worktree.py, app/task_workflow.py): the  *)
(* working copy and the branch a task has for itself, from the first edit  *)
(* to the review, and what becomes of them.                                *)
(*                                                                         *)
(* One task runs at a time.  Its thread prepares a workspace, lets the     *)
(* runtime work there, has the doctor look at it, captures the change on   *)
(* the branch, publishes it and removes the workspace; each stage is       *)
(* recorded in the queue, and the daemon may die between any two steps.    *)
(* What the queue does with a task is TaskQueue; here a task is its        *)
(* status, what it recorded, and the task whose workspace it uses: a retry *)
(* goes on in that of the task it retries.                                 *)
(***************************************************************************)
EXTENDS Doctor

CONSTANTS MaxTasks,     \* bound: tasks
          MaxAttempts,  \* attempts of a task
          MaxFaults,    \* bound: crashes, and calls of providers that fail
          Forges,       \* whether the forge keeps what it is given to review
          Kinds         \* bound: what tasks ask for, "edit" or "reference"

ASSUME WorkspacesAssumption ==
  /\ {MaxTasks, MaxAttempts} \subseteq Nat \ {0} /\ MaxFaults \in Nat
  /\ Forges \subseteq BOOLEAN /\ Kinds \subseteq {"edit", "reference"}
  /\ {"task", "operator"} \subseteq Doctors

VARIABLES
  remote,     \* the forge that is installed keeps it
  job,        \* what the queue knows of each task
  running,    \* the task that runs, or 0
  thread,     \* where its thread is
  up,         \* the daemon is running
  space,      \* the working copy of each workspace: absent, clean or dirty
  branch,     \* the tip of its branch: absent, the base or a change
  published,  \* workspaces whose change is in a review
  edits,      \* what was done in each workspace: nothing, a change, or discarded
  faults

taskVars   == <<job, running>>
repository == <<space, branch, published, edits>>
spaceVars  == <<remote, taskVars, thread, up, repository, faults>>
allVars    == <<spaceVars, doctorVars>>

Tasks  == 1..MaxTasks
NoTask == [kind |-> "edit", status |-> "absent", attempt |-> 0, place |-> 0, recorded |-> FALSE,
           stage |-> "", review |-> FALSE, result |-> FALSE, retried |-> FALSE]
Off    == [pc |-> "off", outcome |-> "none"]

WorkspacesInit ==
  /\ DoctorInit /\ remote \in Forges
  /\ job = [t \in Tasks |-> NoTask] /\ running = 0 /\ thread = Off /\ up = TRUE
  /\ space = [t \in Tasks |-> "absent"] /\ branch = [t \in Tasks |-> "absent"]
  /\ published = {} /\ edits = [t \in Tasks |-> "none"] /\ faults = 0

Status(t) == job[t].status
Place     == job[running].place
Kind      == job[running].kind
Fault     == faults < MaxFaults /\ faults' = faults + 1
Fresh     == {t \in Tasks : Status(t) = "absent" /\ \A s \in 1..(t - 1) : Status(s) # "absent"}

-----------------------------------------------------------------------------
(* Requests *)

(* A task that publishes a reference finds a branch with a change nobody   *)
(* published yet.                                                          *)
Submit(t) ==
  /\ up /\ t \in Fresh
  /\ \E kind \in Kinds :
       /\ job' = [job EXCEPT ![t] = [NoTask EXCEPT !.status = "pending", !.kind = kind, !.place = t]]
       /\ branch' = [branch EXCEPT ![t] = IF kind = "reference" THEN "change" ELSE @]
       /\ edits' = [edits EXCEPT ![t] = IF kind = "reference" THEN "made" ELSE @]
  /\ UNCHANGED <<running, thread, up, space, published, faults, doctorVars>>

(* /task retry: the new task keeps the workspace, the stage and the review *)
(* of the failed one, not its result.                                      *)
Retry(t, s) ==
  /\ up /\ t \in Fresh
  /\ Status(s) = "failed" /\ ~job[s].retried
  /\ job' = [job EXCEPT ![s].retried = TRUE,
                        ![t] = [job[s] EXCEPT !.status = "pending", !.attempt = 0, !.result = FALSE,
                                              !.place = IF job[s].recorded THEN @ ELSE t]]
  /\ UNCHANGED <<running, thread, up, repository, faults, doctorVars>>

Cancel(t) ==
  /\ up /\ Status(t) = "pending"
  /\ job' = [job EXCEPT ![t].status = "cancelled"]
  /\ UNCHANGED <<running, thread, up, repository, faults, doctorVars>>

(* /worktree: nothing is removed while a task that may still run uses it,  *)
(* found by the path it recorded or by its branch.                         *)
UsesPlace(t, p) == job[t].place = p /\ job[t].recorded
InPlay(p) == \E t \in Tasks : Status(t) \in {"pending", "running"} /\ UsesPlace(t, p)

(* A branch whose change is only there is kept; one that is in a review    *)
(* may be.                                                                 *)
Clean(p) ==
  /\ up /\ space[p] = "clean" /\ ~InPlay(p)
  /\ space' = [space EXCEPT ![p] = "absent"]
  /\ \/ (branch[p] = "change" => p \in published) /\ branch' = [branch EXCEPT ![p] = "absent"]
     \/ branch[p] = "change" /\ UNCHANGED branch
  /\ UNCHANGED <<taskVars, thread, up, published, edits, faults, doctorVars>>

Discard(p) ==
  /\ up /\ space[p] # "absent" /\ ~InPlay(p)
  /\ space' = [space EXCEPT ![p] = "absent"]
  /\ branch' = [branch EXCEPT ![p] = "absent"]
  /\ edits' = [edits EXCEPT ![p] = "discarded"]
  /\ UNCHANGED <<taskVars, thread, up, published, faults, doctorVars>>

-----------------------------------------------------------------------------
(* The thread of the running task *)

Here(pc) == up /\ thread.pc = pc
Step(to) == thread' = [thread EXCEPT !.pc = to]
Leave(outcomes) == \E outcome \in outcomes : thread' = [pc |-> "settle", outcome |-> outcome]
Bad == {"failed", "retry"}   \* as the text of the error is classified

Entry(t) ==
  CASE job[t].review /\ job[t].result -> [pc |-> "settle", outcome |-> "completed"]
    [] job[t].stage # "" /\ ~(job[t].review /\ job[t].result) -> [Off EXCEPT !.pc = "resume"]
    [] OTHER -> [Off EXCEPT !.pc = "prepare"]

Start(t) ==
  /\ up /\ running = 0 /\ Status(t) = "pending"
  /\ running' = t /\ thread' = Entry(t)
  /\ job' = [job EXCEPT ![t].status = "running", ![t].attempt = @ + 1]
  /\ UNCHANGED <<up, repository, faults, doctorVars>>

(* A workspace that is there is used as it is.  A branch left without one  *)
(* is checked out again or refused, as the provider has it.                *)
Prepare ==
  /\ Here("prepare")
  /\ UNCHANGED <<taskVars, up, published, edits, doctorVars>>
  /\ \/ /\ space[Place] # "absent"
        /\ Step("prepared") /\ UNCHANGED <<space, branch, faults>>
     \/ /\ space[Place] = "absent" /\ (Kind = "reference" => branch[Place] # "absent")
        /\ Step("prepared") /\ UNCHANGED faults
        /\ space' = [space EXCEPT ![Place] = "clean"]
        /\ branch' = [branch EXCEPT ![Place] = IF @ = "absent" THEN "base" ELSE @]
     \/ /\ IF Kind = "reference" THEN branch[Place] = "absent" ELSE branch[Place] # "absent"
        /\ space[Place] = "absent"
        /\ Leave(Bad) /\ UNCHANGED <<space, branch, faults>>
     \/ Fault /\ Leave(Bad) /\ UNCHANGED <<space, branch>>

RecordWorkspace ==
  /\ Here("prepared")
  /\ Step(IF Kind = "reference" THEN "inspect reference" ELSE "work")
  /\ job' = [job EXCEPT ![running].recorded = TRUE]
  /\ UNCHANGED <<running, up, repository, faults, doctorVars>>

(* What the runtime leaves behind, whether it succeeds or fails; it may    *)
(* also commit by itself.                                                  *)
Work ==
  /\ Here("work")
  /\ \/ UNCHANGED <<space, branch, edits>>
     \/ /\ space[Place] # "absent"
        /\ edits' = [edits EXCEPT ![Place] = "made"]
        /\ \/ space' = [space EXCEPT ![Place] = "dirty"] /\ UNCHANGED branch
           \/ /\ space' = [space EXCEPT ![Place] = "clean"]
              /\ branch' = [branch EXCEPT ![Place] = "change"]
  /\ \/ space[Place] # "absent" /\ Step("inspect")
     \/ Leave(Bad)
  /\ UNCHANGED <<taskVars, up, published, faults, doctorVars>>

Inspect ==
  /\ Here("inspect")
  /\ \/ /\ space[Place] = "dirty"
        /\ Step("doctor") /\ Examine("task")
     \/ /\ space[Place] = "clean"
        /\ Step("emptied") /\ UNCHANGED doctorVars
  /\ UNCHANGED <<taskVars, up, repository, faults>>

(* "No files changed": the workspace goes, by force. *)
Emptied ==
  /\ Here("emptied")
  /\ Leave({"completed"})
  /\ \/ space' = [space EXCEPT ![Place] = "absent"] /\ UNCHANGED faults
     \/ Fault /\ UNCHANGED space
  /\ UNCHANGED <<taskVars, up, branch, published, edits, doctorVars>>

Diagnose ==
  /\ Here("doctor")
  /\ \/ doctor["task"].pc = "passed" /\ Step("capture")
     \/ doctor["task"].pc = "failed" /\ Leave({"failed"})
  /\ Collect("task")
  /\ UNCHANGED <<taskVars, up, repository, faults>>

Capture ==
  /\ Here("capture")
  /\ \/ /\ Step("captured") /\ UNCHANGED faults
        /\ space' = [space EXCEPT ![Place] = "clean"]
        /\ branch' = [branch EXCEPT ![Place] = "change"]
     \/ Fault /\ Leave(Bad) /\ UNCHANGED <<space, branch>>
  /\ UNCHANGED <<taskVars, up, published, edits, doctorVars>>

RecordCapture ==
  /\ Here("captured")
  /\ job' = [job EXCEPT ![running].stage = "captured"]
  /\ \/ Step("publish") /\ UNCHANGED faults
     \/ Fault /\ Leave({"retry"})
  /\ UNCHANGED <<running, up, repository, doctorVars>>

(* An earlier attempt captured: its revision must still be there, clean. *)
Resume ==
  /\ Here("resume")
  /\ LET whole == space[Place] = "clean" /\ branch[Place] = "change"
     IN \/ /\ whole
           /\ Step(IF job[running].stage = "captured" THEN "publish" ELSE "clean up")
        \/ ~whole /\ Leave({"retry"})
  /\ UNCHANGED <<taskVars, up, repository, faults, doctorVars>>

InspectReference ==
  /\ Here("inspect reference")
  /\ \/ space[Place] = "clean" /\ Step("publish")
     \/ space[Place] # "clean" /\ Leave(Bad)
  /\ UNCHANGED <<taskVars, up, repository, faults, doctorVars>>

(* The request may fail before the review is made or after. *)
Publish ==
  /\ Here("publish")
  /\ \/ /\ Step("published") /\ UNCHANGED faults
        /\ published' = published \union (IF remote THEN {Place} ELSE {})
     \/ /\ Fault /\ Leave(IF Kind = "edit" THEN {"retry"} ELSE Bad)
        /\ \/ UNCHANGED published
           \/ remote /\ published' = published \union {Place}
  /\ UNCHANGED <<taskVars, up, space, branch, edits, doctorVars>>

(* The review, and then the result if the review has an address; who dies  *)
(* between the two is recovered as after both.                             *)
RecordReview ==
  /\ Here("published")
  /\ Step(IF Kind = "edit" THEN "clean up" ELSE "hand over")
  /\ job' = [job EXCEPT ![running].stage = "review_published",
                        ![running].review = remote, ![running].result = remote]
  /\ UNCHANGED <<running, up, repository, faults, doctorVars>>

(* A change that cannot be removed is tried again; a reference has been    *)
(* published, and its task is completed whatever becomes of the workspace. *)
CleanUp ==
  /\ Here("clean up") \/ Here("hand over")
  /\ \/ /\ space' = [space EXCEPT ![Place] = "absent"] /\ UNCHANGED faults
        /\ Leave({"completed"})
     \/ /\ Fault /\ UNCHANGED space
        /\ Leave({IF thread.pc = "clean up" THEN "retry" ELSE "completed"})
  /\ UNCHANGED <<taskVars, up, branch, published, edits, doctorVars>>

(* Seeded fault: the workspace of any task that ended is tidied up. *)
TidyAnyway(t, status) ==
  \/ /\ job[t].recorded /\ space[job[t].place] = "clean"
     /\ space' = [space EXCEPT ![job[t].place] = "absent"]
     /\ branch' = [branch EXCEPT ![job[t].place] = "absent"]
  \/ UNCHANGED <<space, branch>>

(* _cleanup_completed_task_worktree: without force, but the branch goes    *)
(* whatever is on it.  What fails is left.                                 *)
Tidy(t, status) ==
  \/ /\ status = "completed" /\ job[t].recorded /\ space[job[t].place] = "clean"
     /\ space' = [space EXCEPT ![job[t].place] = "absent"]
     /\ branch' = [branch EXCEPT ![job[t].place] = "absent"]
  \/ UNCHANGED <<space, branch>>

Finish(status) ==
  /\ job' = [job EXCEPT ![running].status = status]
  /\ running' = 0 /\ thread' = Off
  /\ Tidy(running, status)
  /\ UNCHANGED <<published, edits>>

Again == IF job[running].attempt < MaxAttempts THEN "pending" ELSE "failed"

Settle ==
  /\ Here("settle")
  /\ Finish(IF thread.outcome = "retry" THEN Again ELSE thread.outcome)
  /\ UNCHANGED <<up, faults, doctorVars>>

-----------------------------------------------------------------------------
(* The end of the daemon, and the next one *)

Crash ==
  /\ up /\ Fault
  /\ up' = FALSE /\ thread' = Off
  /\ IF At("task", "off") THEN UNCHANGED doctorVars ELSE Die("task")
  /\ UNCHANGED <<taskVars, repository>>

Restart ==
  /\ ~up /\ up' = TRUE
  /\ IF running = 0 THEN UNCHANGED <<taskVars, thread, repository>>
     ELSE Finish(IF job[running].stage = "review_published" THEN "completed" ELSE Again)
  /\ UNCHANGED <<faults, doctorVars>>

(* Someone else runs the checks, from a shell. *)
Operator ==
  /\ \/ Examine("operator") \/ DoctorStep("operator") \/ Collect("operator")
  /\ UNCHANGED spaceVars
Accident ==
  /\ Fault
  /\ Damage \/ Die("operator")
  /\ UNCHANGED <<taskVars, thread, up, repository>>
Examination == up /\ DoctorStep("task") /\ UNCHANGED spaceVars

Request ==
  \/ \E t \in Tasks : Submit(t) \/ Cancel(t) \/ \E s \in Tasks : Retry(t, s)
  \/ \E p \in Tasks : Clean(p) \/ Discard(p)
Running ==
  \/ \E t \in Tasks : Start(t)
  \/ Prepare \/ RecordWorkspace \/ Work \/ Inspect \/ Emptied \/ Examination \/ Diagnose
  \/ Capture \/ RecordCapture \/ Resume \/ InspectReference \/ Publish \/ RecordReview
  \/ CleanUp \/ Settle

Next == UNCHANGED remote /\ (Request \/ Running \/ Crash \/ Restart \/ Operator \/ Accident)
WorkspacesSpec == WorkspacesInit /\ [][Next]_allVars

-----------------------------------------------------------------------------
(* Properties *)

(* "Remove successful task worktrees after handoff; preserve failed" ones: *)
(* until a task that uses it completes, what was done in a workspace is    *)
(* there, on its branch or in a review, unless a person discarded it.      *)
WorkKept ==
  \A p \in Tasks :
    edits[p] = "made" /\ (\A t \in Tasks : job[t].place = p => Status(t) # "completed")
      => space[p] = "dirty" \/ branch[p] = "change" \/ p \in published
=============================================================================
