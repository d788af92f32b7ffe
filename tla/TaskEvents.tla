----------------------------- MODULE TaskEvents -----------------------------
(***************************************************************************)
(* The log of task events (tasks/events.py) and its delivery to the hooks  *)
(* of extensions (extensions/events.py, app/core.py).                      *)
(*                                                                         *)
(* The queue, here only what it promises of each task (TaskLifecycle),     *)
(* records each change after it is saved, line by line, while it holds its *)
(* lock, and swallows a failure to do so.  The log is read without that    *)
(* lock: at every turn of its loop a daemon reads what an extension has    *)
(* not acknowledged, calls its hook with one event after the other, and    *)
(* acknowledges each in a file of its own.  A daemon that was replaced may *)
(* be in the middle of this.                                               *)
(***************************************************************************)
EXTENDS Integers, FiniteSets, FiniteSetsExt, Sequences, SequencesExt

CONSTANTS MaxTasks,
          Extensions,  \* in the order in which they are loaded
          Owner,       \* the extension that asked for each task
          MaxDaemons,  \* bound: daemons, each with a later epoch
          MaxLog,      \* bound: changes are made while the log is shorter
          MaxFaults    \* bound: hooks that raise, records that fail, crashes

Names == ToSet(Extensions)

ASSUME TaskEventsAssumption ==
  /\ MaxTasks \in Nat /\ MaxDaemons \in Nat \ {0}
  /\ Extensions \in Seq(Names)
  /\ Owner \in [1..MaxTasks -> Names]

VARIABLES
  phase,     \* the queue: the status of each task
  unwritten, \* what the queue has still to record of the change it saved
  log,       \* task_events.jsonl
  receipts,  \* task_event_receipts.jsonl of each extension: events, by place in the log
  active,    \* the daemon whose epoch is the current one
  drain,     \* what each daemon's drain has read and is about to do
  faults,
  lost,      \* history: tasks with a change that is not on record
  handled    \* history: the events each extension's hook accepted, in order

eventVars == <<phase, unwritten, log, receipts, active, drain, faults, lost, handled>>

Life == INSTANCE TaskLifecycle

Tasks     == 1..MaxTasks
Daemons   == 1..MaxDaemons
Outcomes  == {"completed", "failed", "cancelled", "regressed", "reverted", "forward-fixed"}
Delivered == {"queued", "started", "completed", "failed", "cancelled"}
Resting   == [pc |-> "idle", turn |-> 0, events |-> {}]
NoRecords == [t \in Tasks |-> <<>>]

EventsInit ==
  /\ Life!Init /\ unwritten = NoRecords
  /\ log = <<>> /\ receipts = [e \in Names |-> {}]
  /\ active = 1 /\ drain = [d \in Daemons |-> Resting]
  /\ faults = 0 /\ lost = {} /\ handled = [e \in Names |-> <<>>]

Fault == faults < MaxFaults /\ faults' = faults + 1
-----------------------------------------------------------------------------
(* Changes of tasks *)

Named(to) == IF to = "pending" THEN "queued" ELSE IF to = "running" THEN "started" ELSE to

(* What the queue records of a change. *)
Recorded(from, to) ==
  IF from = "absent" THEN <<"created", Named(to)>>
  ELSE IF to # "pending" THEN <<Named(to)>>
  ELSE IF from = "running" THEN <<"retrying", "queued">> ELSE <<"resumed">>

(* One change at a time: its records are written before the lock is given  *)
(* back.                                                                   *)
Change ==
  /\ Len(log) < MaxLog /\ unwritten = NoRecords
  /\ Life!Next
  /\ unwritten' = [t \in Tasks |-> IF phase'[t] = phase[t] THEN <<>> ELSE Recorded(phase[t], phase'[t])]
  /\ UNCHANGED <<log, receipts, active, drain, faults, lost, handled>>

Written(t) == unwritten' = [unwritten EXCEPT ![t] = Tail(@)]

(* A record that cannot be written is not made good. *)
Record(t) ==
  /\ unwritten[t] # <<>> /\ Written(t)
  /\ \/ /\ log' = Append(log, [task |-> t, event |-> Head(unwritten[t])])
        /\ UNCHANGED <<faults, lost>>
     \/ lost' = lost \union {t} /\ Fault /\ UNCHANGED log
  /\ UNCHANGED <<phase, receipts, active, drain, handled>>

(* Nor are those the process did not come to. *)
Unrecorded ==
  /\ unwritten # NoRecords /\ unwritten' = NoRecords
  /\ lost' = lost \union {t \in Tasks : unwritten[t] # <<>>}
-----------------------------------------------------------------------------
(* The drain of a daemon *)

EndsOf(t) == {i \in DOMAIN log : log[i].task = t /\ log[i].event \in Outcomes}

(* Seeded fault: the first outcome of a task stays its outcome.            *)
OutcomeFirst(t) == IF EndsOf(t) = {} THEN "none" ELSE log[Min(EndsOf(t))].event

(* load_recent_task_outcomes: what the latest event says became of a task. *)
Outcome(t) == IF EndsOf(t) = {} THEN "none" ELSE log[Max(EndsOf(t))].event

For(e, i)      == log[i].event \in Delivered /\ Owner[log[i].task] = e
Undelivered(e) == {i \in DOMAIN log : For(e, i) /\ i \notin receipts[e]}

Serving(d)  == Extensions[drain[d].turn]
First(d, i) == i \in drain[d].events /\ \A j \in drain[d].events : i <= j

Alone(d, from, to) ==
  /\ drain[d].pc = from
  /\ drain' = [drain EXCEPT ![d] = to]
  /\ UNCHANGED <<phase, log, active>>

(* After the last event of an extension comes the next extension. *)
With(d, events) ==
  IF events # {} THEN [drain[d] EXCEPT !.pc = "check", !.events = events]
  ELSE IF drain[d].turn < Len(Extensions)
       THEN [drain[d] EXCEPT !.pc = "read", !.turn = @ + 1, !.events = {}]
       ELSE Resting

(* At the start, at every turn of the loop and at shutdown, one at a time. *)
StartDrain(d) ==
  /\ d <= active
  /\ Extensions # <<>>
  /\ Alone(d, "idle", [Resting EXCEPT !.pc = "read", !.turn = 1])
  /\ UNCHANGED <<unwritten, lost, receipts, faults, handled>>

ReadEvents(d) ==
  /\ Alone(d, "read", With(d, Undelivered(Serving(d))))
  /\ UNCHANGED <<unwritten, lost, receipts, faults, handled>>

(* The epoch is looked at before the hook and before the receipt. *)
Check(d, from, to) ==
  /\ Alone(d, from, IF d = active THEN [drain[d] EXCEPT !.pc = to] ELSE Resting)
  /\ UNCHANGED <<unwritten, lost, receipts, faults, handled>>

CheckBefore(d) == Check(d, "check", "hook")
CheckAfter(d)  == Check(d, "hooked", "acknowledge")

Accepts(d) ==
  /\ \E i \in drain[d].events :
       First(d, i) /\ handled' = [handled EXCEPT ![Serving(d)] = Append(@, i)]
  /\ Alone(d, "hook", [drain[d] EXCEPT !.pc = "hooked"])
  /\ UNCHANGED faults

(* Seeded faults: after a hook that raised comes the next event, or the    *)
(* lock is kept.                                                           *)
CallHookOn(d) ==
  /\ \/ Accepts(d)
     \/ /\ Fault /\ UNCHANGED handled
        /\ \E i \in drain[d].events :
             First(d, i) /\ Alone(d, "hook", With(d, drain[d].events \ {i}))
  /\ UNCHANGED <<unwritten, lost, receipts>>

CallHookLocked(d) ==
  /\ \/ Accepts(d)
     \/ Fault /\ Alone(d, "hook", [Resting EXCEPT !.pc = "locked"]) /\ UNCHANGED handled
  /\ UNCHANGED <<unwritten, lost, receipts>>

(* A hook that raises ends the turn of its extension, not of the others.   *)
CallHook(d) ==
  /\ \/ Accepts(d)
     \/ Fault /\ Alone(d, "hook", With(d, {})) /\ UNCHANGED handled
  /\ UNCHANGED <<unwritten, lost, receipts>>

(* So does a receipt that cannot be written. *)
Acknowledge(d) ==
  /\ \/ /\ \E i \in drain[d].events :
             /\ First(d, i)
             /\ receipts' = [receipts EXCEPT ![Serving(d)] = @ \union {i}]
             /\ Alone(d, "acknowledge", With(d, drain[d].events \ {i}))
        /\ UNCHANGED faults
     \/ Fault /\ Alone(d, "acknowledge", With(d, {})) /\ UNCHANGED receipts
  /\ UNCHANGED <<unwritten, lost, handled>>

(* The process ends, with the change in hand if it is its own; its         *)
(* successor reads the log again.                                          *)
Crash(d) ==
  /\ d <= active /\ Fault
  /\ Alone(d, drain[d].pc, Resting)
  /\ \/ Unrecorded
     \/ drain[d].pc # "idle" /\ UNCHANGED <<unwritten, lost>>
  /\ UNCHANGED <<receipts, handled>>

Takeover ==
  /\ active < MaxDaemons
  /\ active' = active + 1
  /\ UNCHANGED <<phase, unwritten, log, receipts, drain, faults, lost, handled>>

Proceed(d) ==
  StartDrain(d) \/ ReadEvents(d) \/ CheckBefore(d) \/ CallHook(d) \/ CheckAfter(d) \/ Acknowledge(d)

EventsNext ==
  \/ Change \/ Takeover
  \/ \E t \in Tasks : Record(t)
  \/ \E d \in Daemons : Proceed(d) \/ Crash(d)

EventsSpec == EventsInit /\ [][EventsNext]_eventVars

(* The loop of a daemon turns, and a hook returns. *)
FairSpec == EventsSpec /\ \A d \in Daemons : WF_eventVars(Proceed(d))
-----------------------------------------------------------------------------
(* Properties *)

(* An extension's hook has accepted what is acknowledged, and accepted     *)
(* everything before it: events come in the order of the log, and a hook   *)
(* that raises, a crash or a takeover makes it see one again, never skip.  *)
HandledInOrder ==
  \A e \in Names :
    /\ receipts[e] \subseteq ToSet(handled[e])
    /\ \A n \in DOMAIN handled[e], i \in DOMAIN log :
         i < handled[e][n] /\ For(e, i) => \E m \in 1..(n - 1) : handled[e][m] = i

(* The outcome read from the log is what the queue says, a regression      *)
(* found later included, for a task all of whose changes are on record.    *)
OutcomesTrue ==
  \A t \in Tasks \ lost : unwritten[t] = <<>> =>
    Outcome(t) = IF phase[t] \in Outcomes THEN phase[t] ELSE "none"

(* What is on record for an extension is delivered in the end, whatever    *)
(* hooks of other extensions and earlier daemons do.                       *)
EventsDelivered == \A e \in Names : []<>(Undelivered(e) = {})
=============================================================================
