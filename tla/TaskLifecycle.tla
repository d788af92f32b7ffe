--------------------------- MODULE TaskLifecycle ---------------------------
(***************************************************************************)
(* What the task queue promises of each task, whatever lists, leases and   *)
(* recoveries implement it: tasks are created in order of their ids, one   *)
(* runs at a time, a task that failed or was cancelled stays so, and a     *)
(* completed one can only be found regressed and then repaired             *)
(* (TaskJob.status in src/ruth/tasks/queue.py).                            *)
(***************************************************************************)
EXTENDS Naturals

CONSTANT MaxTasks  \* bound: ids handed out

Tasks == 1..MaxTasks

VARIABLE phase

Init == phase = [t \in Tasks |-> "absent"]

NoneRuns == \A t \in Tasks : phase[t] # "running"

Move(t, from, to) ==
  /\ phase[t] \in from
  /\ phase' = [phase EXCEPT ![t] = to]

Create(t, to) ==
  /\ \A u \in Tasks : u < t <=> phase[u] # "absent"
  /\ to = "running" => NoneRuns
  /\ Move(t, {"absent"}, to)

Start(t)  == NoneRuns /\ Move(t, {"pending"}, "running")
Stop(t)   == \E to \in {"pending", "paused", "completed", "failed", "cancelled"} :
               Move(t, {"running"}, to)
Shelve(t) == \E to \in {"paused", "cancelled"} : Move(t, {"pending"}, to)
Drop(t)   == Move(t, {"paused"}, "cancelled")
Regress(t) == Move(t, {"completed"}, "regressed")
Repair(t) == \E to \in {"reverted", "forward-fixed"} : Move(t, {"regressed"}, to)

(* One or all paused tasks return to the queue. *)
Resume == \E S \in SUBSET {t \in Tasks : phase[t] = "paused"} :
            /\ S # {}
            /\ phase' = [t \in Tasks |-> IF t \in S THEN "pending" ELSE phase[t]]

Next ==
  \/ \E t \in Tasks :
       \/ \E to \in {"pending", "running"} : Create(t, to)
       \/ Start(t) \/ Stop(t) \/ Shelve(t) \/ Drop(t) \/ Regress(t) \/ Repair(t)
  \/ Resume

Spec == Init /\ [][Next]_phase
=============================================================================
