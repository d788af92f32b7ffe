------------------------------ MODULE Lineage -------------------------------
(***************************************************************************)
(* Inheritance (lineage/core.py, assessment.py, assessment_queue.py,       *)
(* lifecycle.py and /inherit in app/core.py): what an agent takes over     *)
(* from its parent.                                                        *)
(*                                                                         *)
(* A scan reads the inbox, asks the parent for its changes since the       *)
(* cursor, and writes the inbox back; only the update of one candidate is  *)
(* a transaction.  A queue of one job has the new candidates assessed, in  *)
(* a thread of its own.  A candidate that is assessed may be adapted by a  *)
(* task, and is adopted when the review of that task has landed.  Commands *)
(* come from the chat, one at a time; a handler may fail and is called     *)
(* again, and a daemon that was replaced may be in the middle of one while *)
(* its successor is asked the same: what it looked at before it writes may *)
(* be old by then.                                                         *)
(***************************************************************************)
EXTENDS Integers, FiniteSets, Sequences, FiniteSetsExt

CONSTANTS MaxChanges,   \* bound: changes of the parent
          MaxRequests,  \* bound: commands
          MaxDaemons,   \* bound: daemons, each with a later epoch
          MaxFaults,    \* bound: the parent, the model, a read or a write fails
          RefreshLimit  \* changes the first scan lists, at most

ASSUME LineageAssumption ==
  {MaxChanges, MaxRequests, MaxFaults, RefreshLimit} \subseteq Nat /\ MaxDaemons \in Nat \ {0}

VARIABLES
  head,      \* the parent: its latest change
  cursor, candidates,  \* lineage/inbox.json
  job, last, \* lineage/assessment_queue.json
  tasks,     \* tasks for changes, with their reviews
  requests,  \* commands of the chat
  epoch,
  command,   \* what each daemon's chat thread is doing
  worker,    \* what each daemon's assessment thread is doing
  faults,
  base,      \* history: the changes up to this one are older than the first scan listed
  astray     \* history: changes whose decision was written over, or whose task was left without a link

vars  == <<head, cursor, candidates, base, job, last, tasks, requests, epoch, command, worker, faults, astray>>
inbox == <<cursor, candidates, base>>
queue == <<job, last>>
doing == <<command, worker>>

Changes == 1..MaxChanges
Daemons == 1..MaxDaemons
Absent  == [status |-> "absent", assessed |-> "no", diff |-> FALSE, task |-> 0]
NoJob   == [id |-> 0, ids |-> {}, owner |-> 0, status |-> "none"]
Idle    == [pc |-> "idle", of |-> 0, change |-> 0, landed |-> {}, base |-> 0,
            cursor |-> 0, candidates |-> [c \in Changes |-> Absent], latest |-> 0]
Answered == [kind |-> "answered", change |-> 0, by |-> MaxDaemons]
Asleep  == [pc |-> "idle", job |-> 0, ids |-> {}, at |-> 0]

Init ==
  /\ head = 0 /\ cursor = 0 /\ candidates = [c \in Changes |-> Absent] /\ base = 0
  /\ job = NoJob /\ last = NoJob /\ tasks = <<>> /\ requests = <<>>
  /\ epoch = 1 /\ command = [d \in Daemons |-> Idle] /\ worker = [d \in Daemons |-> Asleep]
  /\ faults = 0 /\ astray = {}

Fault == faults < MaxFaults /\ faults' = faults + 1
Well  == UNCHANGED faults
-----------------------------------------------------------------------------
(* The world *)

Publish ==
  /\ head < MaxChanges
  /\ head' = head + 1
  /\ UNCHANGED <<inbox, queue, tasks, requests, epoch, doing, faults, astray>>

(* The next command is given when the last one is answered. *)
Ask(kind, c) ==
  /\ Len(requests) < MaxRequests /\ \A r \in DOMAIN requests : requests[r] = Answered
  /\ IF kind = "scan" THEN c = 0 ELSE c \in Changes /\ candidates[c].status # "absent"
  /\ requests' = Append(requests, [kind |-> kind, change |-> c, by |-> 0])
  /\ UNCHANGED <<head, inbox, queue, tasks, epoch, doing, faults, astray>>

(* A task completes and its review lands; what else becomes of it makes no *)
(* difference here.                                                        *)
TaskLands(t) ==
  /\ tasks[t].status = "queued"
  /\ tasks' = [tasks EXCEPT ![t].status = "landed"]
  /\ UNCHANGED <<head, inbox, queue, requests, epoch, doing, faults, astray>>

Takeover ==
  /\ epoch < MaxDaemons
  /\ epoch' = epoch + 1
  /\ UNCHANGED <<head, inbox, queue, tasks, requests, doing, faults, astray>>

(* A daemon that was replaced ends at any moment. *)
Stop(d) ==
  /\ d < epoch
  /\ <<command[d], worker[d]>> # <<Idle, Asleep>>
  /\ command' = [command EXCEPT ![d] = Idle]
  /\ worker' = [worker EXCEPT ![d] = Asleep]
  /\ UNCHANGED <<head, inbox, queue, tasks, requests, epoch, faults, astray>>
-----------------------------------------------------------------------------
(* Commands *)

Landed(c) ==
  candidates[c].status = "linked" /\ \E t \in DOMAIN tasks : tasks[t].change = c /\ tasks[t].status = "landed"

(* The reply and its acknowledgment are those of the daemon that may act. *)
Done(d) ==
  /\ command' = [command EXCEPT ![d] = Idle]
  /\ requests' = IF d = epoch THEN [requests EXCEPT ![command[d].of] = Answered] ELSE requests

(* A command is handled again until it is acknowledged: by a later daemon, *)
(* or by the same one if its handler failed.                               *)
Begin(d) ==
  /\ d = epoch /\ command[d].pc = "idle"
  /\ \E r \in DOMAIN requests :
       /\ requests[r] # Answered /\ requests[r].by < d
       /\ requests' = [requests EXCEPT ![r].by = d]
       /\ command' = [command EXCEPT ![d] = [Idle EXCEPT !.pc = requests[r].kind, !.of = r,
                                               !.change = requests[r].change,
                                               !.landed = {c \in Changes : Landed(c)}]]
  /\ UNCHANGED <<head, inbox, queue, tasks, epoch, worker, faults, astray>>

(* reconcile_lineage_adoptions, before every command.  A review that       *)
(* cannot be looked at, or a candidate that is gone, is left as it is.     *)
Reconcile(d) ==
  \E c \in command[d].landed :
    /\ command' = [command EXCEPT ![d].landed = @ \ {c}]
    /\ \/ /\ candidates[c].status # "absent" /\ Well
          /\ candidates' = [candidates EXCEPT ![c].status = "adopted"]
       \/ UNCHANGED candidates /\ IF candidates[c].status = "absent" THEN Well ELSE Fault
    /\ UNCHANGED <<head, cursor, base, queue, tasks, requests, epoch, worker, astray>>

At(d, pc) == command[d].pc = pc /\ command[d].landed = {}

(* No scan is started while an assessment is under way. *)
ScanRead(d) ==
  /\ At(d, "scan")
  /\ IF job # NoJob THEN Done(d)
     ELSE /\ command' = [command EXCEPT ![d] = [@ EXCEPT !.pc = "scanning", !.cursor = cursor, !.base = base,
                                                         !.candidates = candidates, !.latest = head]]
          /\ UNCHANGED requests
  /\ UNCHANGED <<head, inbox, queue, tasks, epoch, worker, faults, astray>>

New == [Absent EXCEPT !.status = "pending"]

(* A change that is known keeps what was decided on it, and its assessment *)
(* unless its diff had been missing.  At the end of a scan the diffs that  *)
(* pending changes lack are asked for again.                               *)
Merged(snapshot, seen, diffs, ended) ==
  [c \in Changes |->
     LET old == snapshot[c] IN
     IF c \in seen /\ old.status = "absent" THEN [New EXCEPT !.diff = c \in diffs]
     ELSE IF (c \in seen \/ (ended /\ old.status = "pending")) /\ ~old.diff /\ c \in diffs
     THEN [old EXCEPT !.diff = TRUE, !.assessed = "no"]
     ELSE IF c \in seen /\ old.assessed = "failed" THEN [old EXCEPT !.assessed = "no"]
     ELSE old]

(* The scan did not see what was decided after it had read. *)
Decided(c)       == candidates[c].status \in {"linked", "adopted", "ignored"}
Overlaid(merged) == {c \in Changes : Decided(c) /\ merged[c].status # candidates[c].status}

(* Without a cursor, a scan lists the newest changes. *)
Start(scan) == IF scan.cursor > 0 THEN scan.cursor ELSE Max({0, head - RefreshLimit})

(* What is seen, newest first, reaches down to the change after n. *)
Scanned(d, n, diffs, to) ==
  LET scan   == command[d]
      merged == Merged(scan.candidates, (n + 1)..head, diffs, n = Start(scan))
  IN
  /\ IF n = Start(scan) /\ diffs = 1..head THEN Well ELSE Fault
  /\ candidates' = merged
  /\ cursor' = to
  /\ base' = IF scan.cursor > 0 THEN scan.base ELSE Start(scan)
  /\ astray' = astray \union Overlaid(merged)
  /\ command' = [command EXCEPT ![d] = [Idle EXCEPT !.pc = "enqueue", !.of = scan.of]]
  /\ UNCHANGED <<head, queue, tasks, requests, epoch, worker>>

(* Seeded fault: the cursor is advanced although the parent failed.        *)
ScanSaveAlways(d) ==
  /\ At(d, "scanning")
  /\ \E latest \in command[d].latest..head, n \in Start(command[d])..head, diffs \in SUBSET (1..head) :
       Scanned(d, n, diffs, latest)

(* The head is read before the changes are listed, so more may be seen     *)
(* than the cursor says.  A diff that cannot be had is missing from its    *)
(* candidate; when the parent fails in the middle, what was seen is kept   *)
(* and the cursor stays.                                                   *)
ScanSave(d) ==
  /\ At(d, "scanning")
  /\ \E latest \in command[d].latest..head, n \in Start(command[d])..head, diffs \in SUBSET (1..head) :
       Scanned(d, n, diffs, IF n = Start(command[d]) THEN latest ELSE command[d].cursor)

Unassessed == {c \in Changes : candidates[c].status = "pending" /\ candidates[c].assessed # "yes"}

EnqueueAssessment(d) ==
  /\ At(d, "enqueue")
  /\ job' = IF job # NoJob \/ Unassessed = {} THEN job
            ELSE [id |-> Max({last.id, job.id}) + 1, ids |-> Unassessed, owner |-> 0, status |-> "pending"]
  /\ Done(d)
  /\ UNCHANGED <<head, inbox, last, tasks, epoch, worker, faults, astray>>

(* The task of the command, if it has one by now. *)
Mine(d)   == {t \in DOMAIN tasks : tasks[t].key = command[d].of}
Linked(c) == candidates[c].status \in {"linked", "adopted"}

(* The last answer to a command may leave its task without a link. *)
EndUnlinked(d) ==
  /\ Done(d)
  /\ astray' = astray \union {c \in {command[d].change} : d = epoch /\ Mine(d) # {} /\ ~Linked(c)}

(* Seeded fault: what is linked may be adapted again.                      *)
AdaptAgain(d) ==
  /\ At(d, "adapt")
  /\ IF candidates[command[d].change].assessed = "yes"
     THEN command' = [command EXCEPT ![d].pc = "adapting"] /\ UNCHANGED <<requests, astray>>
     ELSE EndUnlinked(d)
  /\ UNCHANGED <<head, inbox, queue, tasks, epoch, worker, faults>>

(* What is linked or adopted is not adapted again; what was dismissed may  *)
(* be.  The action lock may refuse it, too.                                *)
Adapt(d) ==
  /\ At(d, "adapt")
  /\ \/ /\ candidates[command[d].change].status \in {"pending", "ignored"}
        /\ candidates[command[d].change].assessed = "yes"
        /\ command' = [command EXCEPT ![d].pc = "adapting"] /\ UNCHANGED <<requests, astray>>
     \/ EndUnlinked(d)
  /\ UNCHANGED <<head, inbox, queue, tasks, epoch, worker, faults>>

(* The task is enqueued once for a command, also when it comes again, and  *)
(* only by the daemon that may act; an error is the answer.                *)
EnqueueTask(d) ==
  LET new == [change |-> command[d].change, key |-> command[d].of, status |-> "queued"] IN
  /\ At(d, "adapting")
  /\ \/ /\ d = epoch /\ Well
        /\ tasks' = IF Mine(d) # {} THEN tasks ELSE Append(tasks, new)
        /\ command' = [command EXCEPT ![d].pc = "link"]
        /\ UNCHANGED <<requests, astray>>
     \/ /\ IF d = epoch THEN Fault ELSE Well
        /\ EndUnlinked(d) /\ UNCHANGED tasks
  /\ UNCHANGED <<head, inbox, queue, epoch, worker>>

(* The candidate is linked as it is by now, or gone with its task. *)
Link(d) ==
  LET c == command[d].change
      t == CHOOSE i \in DOMAIN tasks : tasks[i].key = command[d].of
  IN
  /\ At(d, "link")
  /\ IF candidates[c].status # "absent"
     THEN /\ candidates' = [candidates EXCEPT ![c].status = "linked", ![c].task = t]
          /\ Done(d) /\ UNCHANGED <<tasks, astray>>
     ELSE /\ tasks' = [tasks EXCEPT ![t].status = IF @ = "queued" /\ d = epoch THEN "cancelled" ELSE @]
          /\ EndUnlinked(d) /\ UNCHANGED candidates
  /\ UNCHANGED <<head, cursor, base, queue, epoch, worker, faults>>

Ignore(d) ==
  /\ At(d, "ignore")
  /\ IF candidates[command[d].change].status = "pending"
     THEN command' = [command EXCEPT ![d].pc = "ignoring"] /\ UNCHANGED requests
     ELSE Done(d)
  /\ UNCHANGED <<head, inbox, queue, tasks, epoch, worker, faults, astray>>

(* mark_inbox_candidate writes whatever the candidate is by now. *)
Dismiss(d) ==
  LET c == command[d].change IN
  /\ At(d, "ignoring")
  /\ IF candidates[c].status = "absent" THEN UNCHANGED <<candidates, astray>>
     ELSE /\ candidates' = [candidates EXCEPT ![c].status = "ignored"]
          /\ astray' = astray \union {x \in {c} : Linked(x)}
  /\ Done(d)
  /\ UNCHANGED <<head, cursor, base, queue, tasks, epoch, worker, faults>>

(* A read or a write fails in the middle of a command: the event is        *)
(* handled again, until its attempts are used up.                          *)
HandlerFails(d) ==
  /\ command[d].pc # "idle" /\ Fault
  /\ \/ EndUnlinked(d)
     \/ /\ command' = [command EXCEPT ![d] = Idle]
        /\ requests' = IF d = epoch THEN [requests EXCEPT ![command[d].of].by = 0] ELSE requests
        /\ UNCHANGED astray
  /\ UNCHANGED <<head, inbox, queue, tasks, epoch, worker>>
-----------------------------------------------------------------------------
(* The assessment *)

Wakes(d, to) ==
  /\ worker' = [worker EXCEPT ![d] = to]
  /\ UNCHANGED <<head, cursor, base, tasks, requests, epoch, command, astray>>

(* Seeded fault: a job that runs is not claimed again.                     *)
ClaimPending(d) ==
  /\ d = epoch /\ worker[d] = Asleep
  /\ job.status = "pending"
  /\ job' = [job EXCEPT !.owner = d, !.status = "running"]
  /\ Wakes(d, [pc |-> "guard", job |-> job.id, ids |-> job.ids \intersect Unassessed, at |-> 0])
  /\ UNCHANGED <<candidates, last, faults>>

(* A job that waits, or that runs for another daemon, is claimed. *)
Claim(d) ==
  /\ d = epoch /\ worker[d] = Asleep
  /\ job # NoJob
  /\ job.status = "running" => job.owner # d
  /\ job' = [job EXCEPT !.owner = d, !.status = "running"]
  /\ Wakes(d, [pc |-> "guard", job |-> job.id, ids |-> job.ids \intersect Unassessed, at |-> 0])
  /\ UNCHANGED <<candidates, last, faults>>

(* Before each batch, of one here, and before the end: a replaced daemon   *)
(* leaves the job to its successor.                                        *)
Guard(d) ==
  /\ worker[d].pc = "guard"
  /\ IF d # epoch THEN Wakes(d, Asleep)
     ELSE IF worker[d].ids = {} THEN Wakes(d, [worker[d] EXCEPT !.pc = "finish"])
     ELSE Wakes(d, [worker[d] EXCEPT !.pc = "assess", !.at = Min(worker[d].ids)])
  /\ UNCHANGED <<candidates, queue, faults>>

Finished(d, status) ==
  IF job.id = worker[d].job /\ job.owner = d
  THEN last' = [job EXCEPT !.owner = 0, !.status = status] /\ job' = NoJob
  ELSE UNCHANGED queue

(* The model's answer, or its failure, is written to the candidate as it   *)
(* is by then, over the answer another worker may have written.  One that  *)
(* is gone fails the job.                                                  *)
Assess(d) ==
  LET c == worker[d].at IN
  /\ worker[d].pc = "assess"
  /\ IF candidates[c].status = "absent"
     THEN Finished(d, "failed") /\ Wakes(d, Asleep) /\ UNCHANGED <<candidates, faults>>
     ELSE /\ \/ Well /\ candidates' = [candidates EXCEPT ![c].assessed = "yes"]
             \/ Fault /\ candidates' = [candidates EXCEPT ![c].assessed = "failed"]
          /\ Wakes(d, [worker[d] EXCEPT !.pc = "guard", !.ids = @ \ {c}])
          /\ UNCHANGED queue

Finish(d) ==
  /\ worker[d].pc = "finish"
  /\ Finished(d, "completed")
  /\ Wakes(d, Asleep)
  /\ UNCHANGED <<candidates, faults>>

Handle(d) ==
  \/ Begin(d) \/ Reconcile(d) \/ HandlerFails(d)
  \/ ScanRead(d) \/ ScanSave(d) \/ EnqueueAssessment(d)
  \/ Adapt(d) \/ EnqueueTask(d) \/ Link(d)
  \/ Ignore(d) \/ Dismiss(d)
Work(d)   == Claim(d) \/ Guard(d) \/ Assess(d) \/ Finish(d)

Next ==
  \/ Publish \/ Takeover
  \/ \E kind \in {"scan", "adapt", "ignore"}, c \in Changes \union {0} : Ask(kind, c)
  \/ \E t \in DOMAIN tasks : TaskLands(t)
  \/ \E d \in Daemons : Handle(d) \/ Work(d) \/ Stop(d)

Spec == Init /\ [][Next]_vars

(* The loop of a daemon starts the worker, which goes on. *)
FairSpec == Spec /\ \A d \in Daemons : WF_vars(Work(d))
-----------------------------------------------------------------------------
(* Properties *)

(* Every change from the first that was listed up to the cursor is in the  *)
(* inbox, whatever failed in a scan, and also when two daemons scan at the *)
(* same time.                                                              *)
NothingMissed == \A c \in (base + 1)..cursor : candidates[c].status # "absent"

(* A change has one task, and is linked to it or adopted, or the command   *)
(* that made the task is still to be answered.  The exception are changes  *)
(* on which a decision was written over by a scan or a dismissal that had  *)
(* read what was there before, and changes whose command was given up      *)
(* between the task and its link.                                          *)
DecisionsKept ==
  \A c \in Changes \ astray :
    LET own == {t \in DOMAIN tasks : tasks[t].change = c} IN
    /\ \A t, u \in own : t = u
    /\ own # {} => Linked(c) \/ \E t \in own : requests[tasks[t].key] # Answered

(* An assessment ends, also when its daemon is replaced in the middle. *)
AssessmentsSettle == []<>(job = NoJob)
=============================================================================
