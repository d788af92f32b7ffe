----------------------------- MODULE Evolution -----------------------------
(***************************************************************************)
(* How Ruth proposes changes to herself (evolution/ and the /evolve        *)
(* commands of app/core.py): conversations and task histories are scanned  *)
(* for evidence, evidence becomes candidates, one candidate is proposed,   *)
(* and a person approves it, which puts a task in the queue.               *)
(*                                                                         *)
(* All of it runs in the main loop, one command or one due check at a      *)
(* time, but each is a dozen writes to seven files with calls of a         *)
(* language model in between, and the process may end anywhere.  The model *)
(* may answer anything its validation lets through.  Events of tasks keep  *)
(* arriving from other threads meanwhile.                                  *)
(***************************************************************************)
EXTENDS Integers, FiniteSets, FiniteSetsExt, Functions, Sequences

CONSTANTS Turns, TaskIds,   \* records to scan: conversation turns, histories of tasks
          Titles,           \* a model may word the same candidate differently
          Ideas,            \* changes a model may come up with by itself
          BatchSize,        \* records of a scan
          DraftLimit,       \* candidates of a synthesis
          Every, Cooldown,  \* ticks between checks, and between scheduled brainstorms
          StartMode,        \* the mode in evolve_state.json at the start
          Nothing,          \* no candidate
          MaxVersions,      \* bound: events of a task
          MaxEvents,        \* bound: turns and events of tasks together
          MaxCommands, MaxFaults, MaxTime

ASSUME EvolutionAssumption ==
  /\ Turns \intersect TaskIds = {}
  /\ {BatchSize, DraftLimit, Every} \subseteq Nat \ {0} /\ Cooldown \in Nat
  /\ StartMode \in {"disabled", "co-evolve", "auto-evolve"} /\ Nothing \notin Ideas

VARIABLES
  now, mode,
  latest,     \* the logs: how many events of a record there are
  scanned,    \* evidence_scans.jsonl: the last version scanned of each record
  reported,   \* evidence_scans.jsonl: the signals completed scans have found
  evidence,   \* evidence.jsonl: the candidates each signal is linked to
  store,      \* evolve_candidates.json: the status of each candidate
  open,       \* evolve_events.jsonl: open proposals, each with its candidate
  proposed,   \* proposals made so far
  check,      \* evolve_state.json: the schedule, its next run, is it claimed
  brainstorm, \* when the last scheduled brainstorm was claimed
  tasks,      \* the queue: idempotency keys
  run,        \* the main loop: what it is doing and what it holds in memory
  owed,       \* a command whose handler did not finish
  commands, faults,
  read,       \* history: the versions of each record a model was shown
  failed      \* history: candidates with a handler that failed when their task was enqueued

scans   == <<scanned, reported, evidence, read>>
world   == <<now, latest, commands>>
vars    == <<world, mode, scans, store, open, proposed, check, brainstorm, tasks,
             run, owed, faults, failed>>

Records         == Turns \union TaskIds
Of(source)      == IF source = "feedback" THEN Turns ELSE TaskIds
Pending(source) == {r \in Of(source) : latest[r] # scanned[r]}
Unlinked        == {s \in DOMAIN evidence : evidence[s] = {}}
OneSource(group) == \E source \in {"feedback", "experience"} : \A s \in group : s[1] \in Of(source)

Visible         == {c \in DOMAIN store : store[c] = "candidate"}
(* A file that is appended to: what it says already stays. *)
With(file, new, value) ==
  [x \in DOMAIN file \union new |-> IF x \in DOMAIN file THEN file[x] ELSE value]

Closed(ps)      == [p \in DOMAIN open \ ps |-> open[p]]
ProposalsOf(c)  == {p \in DOMAIN open : open[p] = c}
Latest(ps)      == IF ps = {} THEN {} ELSE {Max(ps)}

Resting == [kind |-> "", pc |-> "idle", command |-> Nothing, event |-> 0, source |-> "feedback",
            batch |-> <<>>, found |-> {}, more |-> FALSE, drafts |-> {}, top |-> Nothing]
None    == [kind |-> "", command |-> Nothing, event |-> 0, crashed |-> FALSE]

Init ==
  /\ now = 0 /\ mode = StartMode
  /\ latest = [r \in Records |-> 0] /\ scanned = latest
  /\ reported = {} /\ evidence = <<>>
  /\ store = <<>>
  /\ open = <<>> /\ proposed = 0
  /\ check = [on |-> FALSE, next |-> 0, claimed |-> FALSE]
  /\ brainstorm = -Cooldown
  /\ tasks = {}
  /\ run = Resting /\ owed = None
  /\ commands = 0 /\ faults = 0
  /\ read = [r \in Records |-> {}] /\ failed = {}
-----------------------------------------------------------------------------
(* Time, conversations and the events of tasks *)

Others == UNCHANGED <<mode, scans, store, open, proposed, check, brainstorm, tasks,
                      run, owed, faults, failed>>

Tick ==
  /\ now < MaxTime /\ now' = now + 1
  /\ UNCHANGED <<latest, commands>> /\ Others

Happens(r) ==
  /\ latest[r] < IF r \in Turns THEN 1 ELSE MaxVersions
  /\ SumFunction(latest) < MaxEvents
  /\ latest' = [latest EXCEPT ![r] = @ + 1]
  /\ UNCHANGED <<now, commands>> /\ Others
-----------------------------------------------------------------------------
(* The main loop: commands and due work *)

At(pc)    == run.pc = pc
Goto(pc)  == run' = [run EXCEPT !.pc = pc]
Finish    == run' = Resting
Loop      == At("idle") /\ ~owed.crashed
Fault     == faults < MaxFaults /\ faults' = faults + 1
Well      == UNCHANGED faults
Step      == UNCHANGED <<world, mode, owed>>

FirstStep(kind) ==
  IF kind \in {"approve", "remove"} THEN kind
  ELSE IF mode = "disabled" THEN IF kind = "check" THEN "acknowledge" ELSE "idle"
  ELSE IF kind = "brainstorm" THEN "ideas" ELSE "scan"

Begun(kind, command, event) ==
  [Resting EXCEPT !.kind = kind, !.pc = FirstStep(kind), !.command = command, !.event = event]

(* A handler that raised is passed by the next event of its conversation.  *)
Receive(kind, command) ==
  /\ Loop
  /\ commands < MaxCommands /\ commands' = commands + 1
  /\ run' = Begun(kind, command, commands + 1)
  /\ owed' = None
  /\ UNCHANGED <<now, latest, mode, scans, store, open, proposed, check, brainstorm, tasks,
                 faults, failed>>

Command ==
  \/ \E kind \in {"scan", "propose", "brainstorm"} : Receive(kind, Nothing)
  \/ \E c \in DOMAIN store, kind \in {"approve", "remove"} : Receive(kind, c)

(* One that raised or died is handled again, with the same event.          *)
Redeliver ==
  /\ At("idle") /\ owed # None
  /\ run' = Begun(owed.kind, owed.command, owed.event)
  /\ owed' = None
  /\ UNCHANGED <<world, mode, scans, store, open, proposed, check, brainstorm, tasks,
                 faults, failed>>

Scheduled(on) == [on |-> on, next |-> IF on THEN now + Every ELSE 0, claimed |-> FALSE]

(* Saving a setting forgets the claim of a check that never ended.         *)
Configure ==
  /\ Loop
  /\ commands < MaxCommands /\ commands' = commands + 1
  /\ \/ \E m \in {"disabled", "co-evolve", "auto-evolve"} \ {mode} :
          mode' = m /\ check' = [check EXCEPT !.claimed = FALSE]
     \/ \E on \in BOOLEAN :
          /\ mode' = mode
          /\ check' = Scheduled(on)
  /\ owed' = None
  /\ UNCHANGED <<now, latest, scans, store, open, proposed, brainstorm, tasks, run,
                 faults, failed>>

(* Enough records for a scan, while no task is running. *)
ScanWhenDue ==
  /\ Loop /\ mode # "disabled"
  /\ \E source \in {"feedback", "experience"} : Cardinality(Pending(source)) >= BatchSize
  /\ run' = Begun("threshold", Nothing, 0)
  /\ UNCHANGED <<scans, store, open, proposed, check, brainstorm, tasks, faults, failed>>
  /\ Step

(* Seeded fault: a claimed check is not taken up again. *)
CheckDueUnclaimed == check.on /\ ~check.claimed /\ check.next <= now

(* A claim nobody acknowledged is taken up again. *)
CheckDue == check.on /\ (check.claimed \/ check.next <= now)

ClaimCheck ==
  /\ Loop /\ CheckDue
  /\ check' = [check EXCEPT !.claimed = TRUE]
  /\ run' = Begun("check", Nothing, 0)
  /\ UNCHANGED <<scans, store, open, proposed, brainstorm, tasks, faults, failed>>
  /\ Step
-----------------------------------------------------------------------------
(* Scans *)

Proposing == run.kind \in {"propose", "check"}

(* What comes after a source: the other one, or what the scan was for.     *)
Scanned(source) ==
  IF source = "feedback"
  THEN [run EXCEPT !.pc = "scan", !.source = "experience", !.batch = <<>>, !.found = {}]
  ELSE IF Proposing
  THEN [run EXCEPT !.pc = "synthesize", !.batch = <<>>, !.found = {}]
  ELSE Resting

ScanFiles == UNCHANGED <<store, open, proposed, check, brainstorm, tasks, failed>>

(* The prompt is made of what the records are now.  Only a scan that was   *)
(* not asked for waits for a full batch.                                   *)
ReadBatch ==
  /\ At("scan")
  /\ LET pending == Pending(run.source)
         enough  == pending # {} /\ (run.kind # "threshold" \/ Cardinality(pending) >= BatchSize)
     IN  IF ~enough
         THEN run' = Scanned(run.source)
         ELSE \E batch \in SUBSET pending :
                /\ \/ Cardinality(batch) = BatchSize
                   \/ batch = pending /\ Cardinality(pending) < BatchSize
                /\ run' = [run EXCEPT !.pc = "answer", !.more = batch # pending,
                                      !.batch = [r \in batch |-> latest[r]]]
  /\ UNCHANGED scans /\ ScanFiles /\ Well /\ Step

(* The signals of the answer are appended, unless they are known.  An      *)
(* answer that cannot be used, or written, is recorded as a failed scan.   *)
Answered ==
  /\ At("answer")
  /\ \/ \E found \in SUBSET {<<r, run.batch[r]>> : r \in DOMAIN run.batch} :
          /\ evidence' = With(evidence, found, {})
          /\ read' = [r \in Records |-> IF r \in DOMAIN run.batch
                                        THEN read[r] \union {run.batch[r]} ELSE read[r]]
          /\ run' = [run EXCEPT !.pc = "record", !.found = found]
          /\ Well
     \/ run' = Scanned(run.source) /\ Fault /\ UNCHANGED <<evidence, read>>
  /\ UNCHANGED <<scanned, reported>> /\ ScanFiles /\ Step

(* Seeded fault: the newest version is marked, not the one that was read. *)
RecordScanLatest ==
  /\ At("record")
  /\ \/ /\ scanned' = [r \in Records |-> IF r \in DOMAIN run.batch THEN latest[r] ELSE scanned[r]]
        /\ reported' = reported \union run.found
        /\ run' = IF run.more /\ run.kind # "threshold"
                  THEN [run EXCEPT !.pc = "scan", !.batch = <<>>, !.found = {}]
                  ELSE Scanned(run.source)
        /\ Well
     \/ run' = Scanned(run.source) /\ Fault /\ UNCHANGED <<scanned, reported>>
  /\ UNCHANGED <<evidence, read>> /\ ScanFiles /\ Step

(* A scan that was asked for goes on while records remain. *)
RecordScan ==
  /\ At("record")
  /\ \/ /\ scanned' = [r \in Records |-> IF r \in DOMAIN run.batch THEN run.batch[r] ELSE scanned[r]]
        /\ reported' = reported \union run.found
        /\ run' = IF run.more /\ run.kind # "threshold"
                  THEN [run EXCEPT !.pc = "scan", !.batch = <<>>, !.found = {}]
                  ELSE Scanned(run.source)
        /\ Well
     \/ run' = Scanned(run.source) /\ Fault /\ UNCHANGED <<scanned, reported>>
  /\ UNCHANGED <<evidence, read>> /\ ScanFiles /\ Step
-----------------------------------------------------------------------------
(* Candidates *)

CandidateFiles == UNCHANGED <<scanned, reported, read, proposed, check, tasks, failed>>

Drafts == {d \in [of : SUBSET Unlinked \ {{}}, title : Titles] : OneSource(d.of)}

AfterSynthesis == IF run.kind = "check" THEN "brainstorm" ELSE "curate"

(* Signals without a candidate are shown to the model, which groups them.  *)
Synthesize ==
  /\ At("synthesize")
  /\ \/ \E drafts \in UNION {kSubset(n, Drafts) : n \in 0..DraftLimit} :
          /\ \A d, e \in drafts : d.of = e.of => d = e
          /\ run' = [run EXCEPT !.pc = IF drafts = {} THEN AfterSynthesis ELSE "link",
                               !.drafts = drafts]
          /\ Well
     \/ Goto(AfterSynthesis) /\ Fault
  /\ CandidateFiles /\ UNCHANGED <<evidence, store, open, brainstorm>> /\ Step

(* Drafts of known candidates, which a crash left unlinked, are linked;    *)
(* then the others are stored, all at once, and linked.                    *)
Link ==
  LET known == run.drafts \intersect DOMAIN store IN
  /\ At("link")
  /\ \/ \E d \in known :
          /\ evidence' = [s \in DOMAIN evidence |-> evidence[s] \union IF s \in d.of THEN {d} ELSE {}]
          /\ run' = [run EXCEPT !.drafts = @ \ {d},
                               !.pc = IF run.drafts = {d} THEN AfterSynthesis ELSE @]
          /\ Well /\ UNCHANGED store
     \/ /\ known = {}
        /\ store' = With(store, run.drafts, "candidate")
        /\ Well /\ UNCHANGED <<run, evidence>>
     \/ /\ Fault
        /\ run' = [run EXCEPT !.pc = AfterSynthesis, !.drafts = {}]
        /\ UNCHANGED <<evidence, store>>
  /\ CandidateFiles /\ UNCHANGED <<open, brainstorm>> /\ Step

(* A scheduled check that has nothing to offer asks for ideas, which it    *)
(* does not do again for a while, whatever comes of it.                    *)
BrainstormWhenDue ==
  /\ At("brainstorm")
  /\ IF mode = "auto-evolve" /\ Visible = {} /\ now - brainstorm >= Cooldown
     THEN brainstorm' = now /\ Goto("ideas")
     ELSE UNCHANGED brainstorm /\ Goto("curate")
  /\ CandidateFiles /\ UNCHANGED <<evidence, store, open>> /\ Well /\ Step

Suggested == SUBSET Ideas

(* Changes that are known, in whatever status, are not stored again. *)
Created(ideas) == With(store, ideas, "candidate")

Brainstorm ==
  /\ At("ideas")
  /\ IF run.kind = "check" THEN Goto("curate") ELSE Finish
  /\ \/ \E ideas \in Suggested : store' = Created(ideas) /\ Well
     \/ UNCHANGED store /\ Fault
  /\ CandidateFiles /\ UNCHANGED <<evidence, open, brainstorm>> /\ Step
-----------------------------------------------------------------------------
(* Proposals *)

Concluded == IF run.kind = "check" THEN "acknowledge" ELSE "idle"
ProposalFiles == UNCHANGED <<scans, store, brainstorm, tasks, failed>>

(* The model recommends one of the candidates, or none; if it fails the    *)
(* first one is proposed.                                                  *)
Recommended == Visible \union {Nothing}

Curate ==
  /\ At("curate")
  /\ \E top \in Recommended :
       IF top = Nothing
       THEN IF Concluded = "idle" THEN Finish ELSE Goto(Concluded)
       ELSE run' = [run EXCEPT !.pc = "close", !.top = top]
  /\ UNCHANGED <<open, proposed, check>> /\ ProposalFiles /\ Well /\ Step

(* Seeded fault: only an earlier proposal of the same candidate is closed. *)
CloseOwnProposal ==
  /\ At("close")
  /\ IF ProposalsOf(run.top) = {} THEN UNCHANGED open /\ Goto("record_proposal")
     ELSE open' = Closed({Min(ProposalsOf(run.top))}) /\ UNCHANGED run
  /\ UNCHANGED <<proposed, check>> /\ ProposalFiles /\ Well /\ Step

(* Every open proposal is closed, of whatever candidate, one by one. *)
CloseProposal ==
  /\ At("close")
  /\ IF open = <<>> THEN UNCHANGED open /\ Goto("record_proposal")
     ELSE open' = Closed({Min(DOMAIN open)}) /\ UNCHANGED run
  /\ UNCHANGED <<proposed, check>> /\ ProposalFiles /\ Well /\ Step

(* A proposal that cannot be recorded is still reported. *)
Propose ==
  /\ At("record_proposal")
  /\ IF Concluded = "idle" THEN Finish ELSE Goto(Concluded)
  /\ \/ proposed' = proposed + 1 /\ open' = With(open, {proposed + 1}, run.top) /\ Well
     \/ UNCHANGED <<proposed, open>> /\ Fault
  /\ UNCHANGED check /\ ProposalFiles /\ Step

AcknowledgeCheck ==
  /\ At("acknowledge")
  /\ check' = [check EXCEPT !.next = now + Every, !.claimed = FALSE]
  /\ Finish
  /\ UNCHANGED <<open, proposed>> /\ ProposalFiles /\ Well /\ Step
-----------------------------------------------------------------------------
(* Decisions of a person *)

Decided == UNCHANGED <<scans, proposed, check, brainstorm>> /\ Step

(* The task of the command in hand is in the queue. *)
HandedOff == <<run.command, run.event>> \in tasks
FailsNow  == failed' = IF HandedOff THEN failed \union {run.command} ELSE failed

(* An event that cannot be recorded leaves the proposal open. *)
Dispose == \/ open' = Closed(Latest(ProposalsOf(run.command))) /\ Well
           \/ UNCHANGED open /\ Fault

Select ==
  /\ At("approve")
  /\ IF run.command \in Visible
     THEN Goto("enqueue") /\ Dispose
     ELSE Finish /\ UNCHANGED open /\ Well
  /\ UNCHANGED <<store, tasks, failed>> /\ Decided

(* Seeded fault: every attempt to handle an approval has a key of its own. *)
EnqueueAgain ==
  /\ At("enqueue")
  /\ \/ /\ tasks' = tasks \union {<<run.command, Cardinality(tasks) + 1>>}
        /\ Goto("promote") /\ Well /\ UNCHANGED failed
     \/ Finish /\ UNCHANGED tasks /\ Fault /\ FailsNow
  /\ UNCHANGED <<store, open>> /\ Decided

(* The queue admits the key of the event once; a failure to hand it over is *)
(* answered, and the command is not handled again.                         *)
Enqueue ==
  /\ At("enqueue")
  /\ \/ /\ tasks' = tasks \union {<<run.command, run.event>>}
        /\ Goto("promote") /\ Well /\ UNCHANGED failed
     \/ Finish /\ UNCHANGED tasks /\ Fault /\ FailsNow
  /\ UNCHANGED <<store, open>> /\ Decided

Approve ==
  /\ At("promote")
  /\ store' = [store EXCEPT ![run.command] = "approved"]
  /\ Finish
  /\ UNCHANGED <<open, tasks, failed>> /\ Well /\ Decided

Remove ==
  /\ At("remove")
  /\ IF run.command \in Visible
     THEN store' = [store EXCEPT ![run.command] = "removed"] /\ Goto("dispose")
     ELSE UNCHANGED store /\ Finish
  /\ UNCHANGED <<open, tasks, failed>> /\ Well /\ Decided

RecordRemoval ==
  /\ At("dispose")
  /\ Finish /\ Dispose
  /\ UNCHANGED <<store, tasks, failed>> /\ Decided
-----------------------------------------------------------------------------
(* Failures *)

Owed(crashed) ==
  IF run.event = 0 THEN owed ELSE [kind |-> run.kind, command |-> run.command,
                                   event |-> run.event, crashed |-> crashed]

(* Not every write is guarded: the handler, or the loop, raises. *)
Raise ==
  /\ run.pc \in {"brainstorm", "curate", "close", "acknowledge", "approve", "promote", "remove"}
  /\ Fault
  /\ owed' = Owed(FALSE) /\ Finish
  /\ FailsNow
  /\ UNCHANGED <<world, mode, scans, store, open, proposed, check, brainstorm, tasks>>

ProcessEnds ==
  /\ ~At("idle")
  /\ Fault
  /\ owed' = Owed(TRUE) /\ Finish
  /\ UNCHANGED <<world, mode, scans, store, open, proposed, check, brainstorm, tasks,
                 failed>>

Proceed ==
  \/ ReadBatch \/ Answered \/ RecordScan
  \/ Synthesize \/ Link \/ BrainstormWhenDue \/ Brainstorm
  \/ Curate \/ CloseProposal \/ Propose \/ AcknowledgeCheck
  \/ Select \/ Enqueue \/ Approve \/ Remove \/ RecordRemoval

Next ==
  \/ Tick \/ \E r \in Records : Happens(r)
  \/ Command \/ Redeliver \/ Configure \/ ScanWhenDue \/ ClaimCheck
  \/ Proceed \/ Raise \/ ProcessEnds

Spec == Init /\ [][Next]_vars

(* The loop turns, handles what is delivered again and looks at the clock. *)
Fairness == WF_vars(Proceed) /\ WF_vars(Redeliver) /\ WF_vars(ClaimCheck)

FairSpec == Spec /\ Fairness
-----------------------------------------------------------------------------
(* Properties *)

(* Evidence is neither skipped nor lost: what a scan marks as done is a    *)
(* version a model was shown, though histories grow while it reads; what a *)
(* completed scan found is on file; what is linked has its candidate.      *)
EvidenceKept ==
  /\ \A r \in Records : scanned[r] = 0 \/ scanned[r] \in read[r]
  /\ reported \subseteq DOMAIN evidence
  /\ \A s \in DOMAIN evidence : evidence[s] \subseteq DOMAIN store

(* An approved candidate has its task, and no more than one, though the    *)
(* approval is handled again after a crash anywhere, or given again, unless *)
(* a handler of its own failed, at its first or a later turn, after the    *)
(* task was enqueued and before the candidate's new status was saved.      *)
ApprovedOnce ==
  /\ \A c \in DOMAIN store : store[c] = "approved" => \E t \in tasks : t[1] = c
  /\ \A t, u \in tasks : t # u /\ t[1] = u[1] => t[1] \in failed

(* One proposal awaits a decision at a time. *)
OneOpenProposal == Cardinality(DOMAIN open) <= 1

(* A check that was claimed is acknowledged, or forgotten by a new setting. *)
ChecksSettle == check.claimed ~> ~check.claimed
=============================================================================
